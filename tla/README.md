# StreamVault: TLA+ models and proofs

StreamVault puts viewers' links in front of live streams. A Go gateway resolves
links, proxies or remuxes the sources and shows slates when a stream is down; a
leak checker searches GitHub for leaked links; a PHP admin edits the SQLite
database they share. This directory models the parts whose correctness depends
on the order of events, checks them with TLC and proves the core with TLAPS.

## Inventory

| Component | State | Operations | Hard parts | Correct when |
| --- | --- | --- | --- | --- |
| Remux manager (`internal/remux`) | slot semaphore, `sessions`, `byID`, `pending`, ffmpeg processes, directories, source bodies | `Start`, `WaitPlaylist`, `Existing`, `GetPath`, `SetPinned`, `Stop`, `ReapIdle`, `Close` | slow opens outside the mutex, processes that die, cancellation | slots add up, maps agree, nothing leaks, live sessions stay, calls return |
| Always-on supervisor (`gatewayhttp/alwayson.go`) | `states` per stream, snapshot of the pins | one reconcile pass per tick | acts on a snapshot while everybody else changes the sessions | pins within budget, healthy relays stay, relays come back |
| Slate manager (`internal/slate`) | `sessions`, `personal`, `failedAt`, `radioMuted`, encoders | `Prepare`, `GetPath`, ticker (`ReapIdle`, `RestartOnAudioChange`), `Close` | cap, restarts paced by requests, recursion of `GetPath` | cap holds, restarts paced, everybody gets an answer |
| Gateway request path (`gatewayhttp/handler.go`, `internal/store`) | address-class cache, token touch map, the database | resolve, validate, fetch, rewrite, remux, slate | revocation against URLs already handed out, stale caches | every request is answered by a state its link had while it ran; private addresses only for sources that are private; one of node and source answers |
| Relay nodes (`internal/node`, `nodecontrol.go`) | last config, revocations, viewers, last status | poll, apply, expire, status, serve | lost and late polls, credentials withdrawn | no node serves what it lost, each stream is pulled in one place |
| Leak scan scheduling (`cmd/leakchecker`) | lock row, runs, request flags | one process per timer tick | crash while holding the lock, requests during a run | one scan at a time, no request lost |
| Findings and incidents (`internal/leakcheck`, `admin/incidents.php`) | findings, incidents, replies, tokens | record, group, auto-revoke, reply, confirm, dismiss, resolve | scanner and operators at once, post-then-record | a confirmed leak is revoked, one comment per issue |
| GitHub client and a scan's searches (`leakcheck/github.go`, `scanner.go`) | last rate limit per bucket, the run's summary | search, wait, retry, tally | lost answers, other users of the token, clocks, deadlines | a scan never runs into the limit by itself; a clean success means everything was searched |
| HLS pull (`internal/hlspull`) | next media sequence number | load, copy, rejoin | windows that jump | every segment at most once, in order |
| Admin accounts and login (`admin/includes/auth.php`, `accounts.php`, `accept_invite.php`) | operators, invites, login attempts | create, invite, accept, sign in, limit, disable, quota | check-then-act between requests, transactions on snapshots | an admin is left, an invite works once, quotas and throttle hold |
| Schema (`includes/db.php`, `migrations/`) | `schema_migrations` | migrate on connect | two requests migrate at once | not modelled; what it enforces is part of the modules that rely on it |
| Matcher, rewriting, blobs, secret box, slate text, pages | none | pure functions, forms | text and cryptography | outside the scope, or an input of the models |

How they interact: `serveEntry` and the supervisor both call the remux manager
(shared state under its mutex); failing requests fall back to the slate manager;
the admin changes rows the gateway, the supervisor and the leak checker read on
their next query; nodes run the same handler, remux manager and supervisor on a
config polled from the control gateway. `PROJECT.json` lists every component with
its status and every hazard at its line.

## Modules

| Module | Models | Correspondence |
| --- | --- | --- |
| `Remux` | `remux.go` | A job is a `Start` that got a slot: first a `pendingOpen`, then a `Session`. A caller is a goroutine in `Start` then `WaitPlaylist`. One action per critical section and per step outside the mutex. `StopLocked(S, others)` is `stopLocked` for a set of sessions plus the openings `Stop` and `Close` cancel. |
| `RemuxPool` | what the manager promises | tickets (at most `Slots`), who serves a stream (only a ticket holder can start to), closing is final |
| `RemuxProofs` | | theorems about `Remux` |
| `AlwaysOn` | `alwayson.go` | One goroutine, one action per call it makes; `pc` is the position in `reconcileAlwaysOn`. The manager appears with one step per API call. |
| `Slate` | `slate.go` | A run is an encoder with its directory, a reader a request in `GetPath`; each critical section is one action. |
| `SlateProofs` | | theorems about `Slate` |
| `LeakScan` | `cmd/leakchecker/main.go`, lock, schedule and requests of `leakcheck/store.go` | A process is one invocation of the program; one action per SQL statement, in the order of `main`. What a scan searches is left out. Timestamps are numbers: of lock acquisitions, and of clicks on "Scan now". |
| `Incidents` | `leakcheck/scanner.go` (`respond`), `matcher.go` (`Classify`), `actions.go`, `RecordMatch` and the replies of `store.go`, `admin/incidents.php`, the revocations of `stream_view.php` | One action per SQLite transaction and per request to GitHub. `incidents` and `findings` are sequences, ids are positions, 0 is NULL. A hit is a place where a link was posted: access point, token, page. `pc` is the scan's position in `respond`; an operator's reply has its own position. |
| `IncidentsProofs` | | theorems about `Incidents` |
| `HlsPull` | `hlspull.go` | `run()` is one goroutine: one action per playlist load and per segment. A segment is the run of the source it comes from (`epoch`) and its media sequence number. The source and a cache in front of it are external. |
| `StreamProofs` | | theorems about `AlwaysOn` and `HlsPull` |
| `RelayNode` | `internal/node/node.go`, `nodecontrol.go`, the choice between node and source in `handler.go`, `nodes.php` | A node's poll loop is a record: waiting, sent, answered, with its age in ticks. A request at the control gateway reads its row (`Request`), asks the node, and falls back. A node's relays are the pins and sessions of `AlwaysOn` and `Remux`, with one step for the start and one for the end of a pass. `lost` is history: ticks since a node last had a right to a stream. |
| `RelayNodeProofs` | | theorems about `RelayNode` |
| `Gateway` | `handler.go`, `ssrf.go`, the queries of `store/store.go`, edits of `stream_view.php` and `stream_form.php` | A request is a record: where it is in `ServeHTTP` and what it read. One action per query and per DNS lookup; the admin acts between any two of them. A link is a path, a token for private access points and, for a segment, the access point its reference was sealed for. `could` and `ago` are history. |
| `Links` | what the gateway promises | the state of every link changes at will; a request is answered by a state its link had since the request came |
| `GatewayProofs` | | theorems about `Gateway` |
| `Accounts` | `accounts.php`, `accept_invite.php`, `includes/auth.php`, `add_access_point` with the quota trigger, `cli/create_operator.php` | A worker is a PHP request, one action per statement, which may be its last. A deferred transaction works on the snapshot of its first read; its first write fails when another connection has committed since (`stale`). |
| `AccountsProofs` | | theorems about `Accounts` |
| `GitHubScan` | `Run` and `searchAndRecord` of `scanner.go` over `do`, `waitForReset`, `doOnce` of `github.go` | One scan as a sequence of searches (`Plan`); `call` is the position in `do`, `limits` the client's memory. GitHub's windows, other users of the token and lost answers are external. |
| `ScanProofs` | | theorems about `LeakScan` and `GitHubScan` |
| `MC*` | | symmetry sets and constants for TLC |

Time is counted in ticks in `RelayNode`, `Gateway` (ages of cache entries), `Accounts` (ages of failed
logins) and `GitHubScan` (windows, timers and the deadline), and abstracted elsewhere: a session
is stale or not, a backoff pending or over. Contents of playlists and segments, ffmpeg's arguments and logging are
left out. Sources and signatures are model values.

## Runs

| Run | Bounds | Shows |
| --- | --- | --- |
| `remux` | 1 stream, 2 sources, 2 callers, 2 jobs, 2 slots | slots and resources add up, live sessions stay, refinement of `RemuxPool`; calls return, stopped sessions are cleaned up, `Close` drains |
| `always_on` | 2 streams, 2 sources, 2 slots (one relay) | pin budget; healthy relays stay |
| `always_on_live` | 1 stream, 2 sources, 1 slot | relays converge once the environment is calm |
| `slate` | 1 generic and 1 personal slate, 2 runs, 1 reader, cap 1 | cap, leaks, pacing, `Close` |
| `slate_radio` | 2 generic slates, one temporary | **violation**: see Findings |
| `leak_scan` | 2 invocations, 1 account and the global scan, 2 clicks, 1 fault | mutual exclusion, no request lost, requests served in the end |
| `incidents` | 2 hits on one issue (a public link, a private one with its token), 1 operator, 1 incident by hand, 1 fault | what is confirmed is revoked, what is closed stays closed, the scan's notices are true, nothing goes that no finding shows, comments do not repeat, leaks are revoked in the end |
| `relay_node` | 1 node, 1 stream, polls every tick, answers within 1, configs for 3, 2 tokens | lost streams end, relays settle where they belong |
| `hls_pull` | 2 runs of the source, segments 0 to 4 in each, live edge of 2, 2 failures | segments in order and once, dead sources reported, restarted ones followed |
| `gateway` | 2 requests, 1 path, 2 access points for it (a stream of an admin, one of a user), 1 token, 2 sources (one private), 2 edits, cache lifetime 2, lookups of 1 | refinement of `Links`; private addresses only for sources that were private a moment ago |
| `accounts` | 2 accounts (the first admin, one more), 2 parallel requests, 1 address, throttle after 2 failures, window 1, 2 invites, 2 access points | the last admin stays, the throttle is exceeded by parallel attempts only, an invite works once |
| `github_scan` | 2 access points (a code and two issue searches each), 2 searches per window of 3 ticks, resets announced up to 1 early, deadline of up to 12, timeout 1 | the scan's own searches never meet an exhausted window; a clean success has searched everything |

Why these bounds are enough. Streams of the remux manager share nothing but the
slots, so one stream with two sources exercises every branch that compares
signatures; two jobs on two slots give a running session and an opening that replaces it
or finds it, and a job whose process is still being killed keeps its slot from the next one;
that slots are counted right for any number of jobs is proved. Two streams for one relay are what the pin
budget is about. Two slates for one encoder reach the cap at once, with a
fallback in both directions. Two invocations of the leak checker, one of which
may die with the lock, are what the lock is about: both may find the row stale
and want it; the second click lands while a run serves the first.
The two hits of `Incidents` differ in everything `respond` looks at: one is about
an access point, the other about a token, which may be created before or after a
scan loads the tokens (so its finding starts as probable and becomes confirmed).
Mentions and garbled tokens are in the module, not in the instance; several hits
of one token are what `OneIncidentPerToken` is about, which is proved. The two runs of the source number their segments from the same
five numbers, so a restart can land below, inside and above the window the puller was
in; windows of one to five segments are shorter and longer than the live edge.
In `RelayNode` streams and nodes meet only in `assign`: for one node it is the same
whether another node or nobody gets its stream, and the theorem covers any number. A
config that lives three polls can be renewed, missed once, and missed until it expires.
In `Gateway` the two access points share their only path: deleting the stream of one frees the path for the other, so a link, its token and references already handed out change their meaning under
a request; a cache entry can be filled by a lookup older than the last edit. In
`Accounts` two requests are what check-then-act needs, and the second account becomes an
admin; two invites make one of them an old one. The plan of `GitHubScan` exhausts the issue bucket
within an access point and the code bucket between two; its times keep the proportions
of the program's (a window no longer than the wait without a reset, a window and its margin
within `MaxRateWait`); the theorems cover the others.
Jobs and runs are reused once everything of them is
gone (`Collect`), so behaviours are not cut short by the small sets.

`CHECK_DEADLOCK FALSE` is set for the slates only: a closed manager whose
requests have returned does nothing any more.

## Fairness

Weak fairness, with one exception below, and only for steps the code makes by itself: a goroutine
that can go on goes on, waits end by their own deadlines, a killed process
exits, tickers fire, backoffs elapse. Nothing is assumed of viewers, admins, or
of processes nobody cancelled. `RelaysConverge` is conditional on `calm`: nobody
edits or watches any more and sources work; before that anything may happen. The
leak checker's timer fires and a lock left behind gets old
(`streamvault-leakchecker.timer`, store.go:219); `RequestsServed` is for systems that
stay configured, and faults are bounded by `MaxFaults`. In `Incidents`, scans start, go on
and end; a hit stays posted, so scan after scan finds it again: `RecordMatch(h)` is
strongly fair, as it is disabled between scans. In `HlsPull` only the goroutine is
fair; that the source answers or stays away is a premise of the properties.
`Gateway`, `Accounts` and `GitHubScan` have safety properties only and assume no fairness;
that none of them gets stuck is checked as absence of deadlock.
In `RelayNode` time passes and loops go on; messages may be lost until `calm`, the
premise of `Settles`. Viewers of a stream that went to a node stop fetching from the
control gateway's own session, as their next playlist names the node's segments.

## Proofs

Every safety invariant and every action property that a run checks, and both refinements,
are theorems for all constants satisfying the modules' named assumptions (`Slots` a positive natural,
sets finite where they are counted, `None` no member of anything, and the like). Each proof
follows the same plan: an invariant stronger than the property that is preserved by every
step, checked by TLC on the run's instance first, one lemma per action or group of actions,
and a last step in temporal logic. What follows says which invariant, and why it is needed.

`RemuxProofs`:

* `SlotsAccountedFor`: `Spec => []SlotAccounting`. `SlotInv` (types and the slot
  count) is inductive by itself: each step changes the set `Holders` and the
  semaphore by the same job.
* `RegistryAlwaysCoherent`, `NothingLeaks`: the invariants need to know who owns a
  job in each phase (who may cancel it, who closes its body, who removes its
  directory); `OwnerInv` says so and is inductive relative to `SlotInv`.
* `DirectoriesOutliveProcesses`, `LiveSessionsKept`: the action properties follow from `OwnerInv`,
  step by step. For the second it says that the session a `Start` replaces is registered for the
  stream that `Start` was called for.
* `RemuxImplementsPool`: initial states map to initial states, and every step maps
  to a step of `RemuxPool` or a stutter.

`StreamProofs`, first about `AlwaysOn`: `PinBudgetAlways` (`PinBudget`) and `HealthyRelayKeptAlways`
(`HealthyRelayKept`). The supervisor counts only the streams it wants, so the budget holds because of
what happened earlier in the pass. `PassInv`: the list has at most `MaxRelays` streams. `PinsInv`: once the
pass has unpinned what it does not want, only wanted streams are pinned; viewers and edits pin nothing.
`DeadInv`: a pinned relay the snapshot saw dead does not come back to life before its turn, so stopping it stops nothing
healthy. `StartInv`: a relay is started only where the pin is for an outdated source, and
while its source is opened the stream has no pin.
About `HlsPull`: `IndexAlwaysInRange` (`IndexInRange`) for every source, and
`SegmentsInOrder` (`InOrder`) assuming `~StaleEdges`: all loads see the latest playlist.
`OrderInv` says why: within one run of the source the puller's playlist is never ahead of
the source's, so a next number beyond the end of the playlist means a restart.
A cache that lags breaks it: with `StaleEdges = TRUE` an older playlist looks like
a restart, and segments are written again.

`SlateProofs` proves `ProcessesCapped` (`ProcessCap`), `NothingLeaksAlways` (`NothingLeaks`) and
`RestartsPacedAlways` (`RestartsPaced`) for any slates, runs, readers and caps. The cap is on registered
slates, the property on live encoders, directories and who removes them. `SlateInv` connects the two: a registered slate
has a run of its own (`Listed`, `Unshared`), a directory is registered or being removed (`Swept`), a live encoder
has a directory (`Housed`), a run nobody uses leaves nothing behind for its next use (`FreeClean`), and what is closed stays
empty (`ClosedOnce`); `Budget` bounds both maps.

`ScanProofs`, first about `LeakScan`:

* `ScansExcludeEachOther`: `Spec => []OneScanAtATime` for any number of invocations and accounts, assuming
  `~Slow`: no scan is still posting notices five minutes after its ten are over. `LockInv`
  adds to the types that a process in its critical section is the only one there
  and holds a row that is not stale; a taken-over row therefore has no owner.
* `RequestsAreKept` (`RequestKept`) needs no such assumption: also when scans overlap, `ClearScanRequestIfUnchanged`
  never takes a click its run did not see. `ClickInv`: nobody has read a click that is still to come, and
  what a process read before its run is no newer than the run.
* `AccountsAreDue` (`AccountsScannedWhenDue`) does need `~Slow`: what the holder of the lock read of the accounts and
  requests stays true only while nobody else scans. `DueInv` says what it has still to visit, and that an account it
  is about to scan is due.

About `GitHubScan` it proves `PacingSuffices` (`RefusedOnlyIfShared`) and `SummaryIsHonest` (`HonestResult`) for every
limit, window, plan and clock skew within the margin. `PaceInv` follows what the client may
conclude about a bucket nobody else has used: `MemoryInv` for a remembered answer, `CallInv` for a wait
and a search under way, `ReplyInv` for an answer under way: either a search is left or the window ends before
the search is sent.

`IncidentsProofs`, for any number of hits, tokens and faults and any finite set of operators:

* `TokensHaveOneIncident` (`OneIncidentPerToken`), `ConfirmedTokensAreRevoked`
  (`ConfirmedTokenRevoked`) and `ClosedIncidentsStay` (`ClosedStaysClosed`). `AutoRevoke`
  revokes what the *match* says and confirms the *incident* it was filed under, so
  neither property is inductive: `Agreement` adds that a confirmed finding, and the
  match in hand, name the token of their incident, and `Created` that they do so
  because tokens are never deleted: one that identified a match still does.
* `NothingElseRevoked` (`OnlyLeakedRevoked`), about scans and operators. By `Matched` the hit `AutoRevoke` acts on is on record
  as a confirmed finding, and a private access point's hit with the token that identified it. `Filed` is about `Confirm`, which
  has only the tables: a finding is filed under an incident about the token it identified, or about none, and an incident about
  a token keeps a confirmed finding that shows it. So where `Confirm` takes a private access point, no token was recognised.
* `CheckerNoticesAreTrue` (`NoticeOnlyForDeadLink`): `Noticed` says that the link has been dead since the scan decided to comment;
  nobody brings one back. It is about the scan alone: see "Also noticed" for what operators post.
* `CommentsAlwaysBounded` (`CommentsBounded`): scanner and operators post first and record afterwards. `Tally` counts for each
  issue those who are about to post and those who have posted but not recorded; while nothing is recorded, every comment belongs to one
  of the latter or to a fault, and after the first record nobody joins.

`RelayNodeProofs` proves `LostStreamsEndAlways` (`LostStreamsEnd`) for all nodes, streams
and timers. `LostInv` follows the news of a loss: who has a right has lost nothing; an
answer under way is as old as its poll; a config is as old as the node believes, and one
answer.

`GatewayProofs` proves, for any number of requests, paths, streams and edits, `LinksKept`
(`ImplementsLinks`) and `PrivateOnlyWhileRecent` (`PrivateOnlyIfRecent`). `Shape` adds to the types what the
schema promises of the rows. `Phases` says for each position in `ServeHTTP` what the request's
`could` must contain: a row that has been read was once what the link named, and a state
seen stays a possible answer. `Recent` bounds the age of what a lookup, the cache and a request
know about a source.

`AccountsProofs` proves `LastAdminAlwaysKept` (`LastAdminKept`), `InvitesWorkOnce` (`InviteWorksOnce`),
`QuotaAlwaysKept` (`QuotaKept`) and `ThrottleAlwaysHolds` (`ThrottleHolds`) for any number of accounts, requests and invites. `SnapshotInv` is why a
count of admins may be trusted: a transaction that is not stale has read the table as it is.
`FreshInv`: a valid invite is newer than the one the password was chosen with. The throttle counts
before it records, so its bound needs `ThrottledAt`: the failures on record and the attempts that may still add one
are together below the limit plus the number of parallel requests.

Each proof module also proves that its types hold; where a run does not repeat that
(`HlsPull`, whose types are `PullTypeOK`, `RelayNode`, `LeakScan`, `Incidents`, `Gateway`, `Accounts`,
`GitHubScan` with `SearchTypeOK`), nor `IndexInRange`, `QuotaKept` and
`OneIncidentPerToken`, it is because the theorem says more.

Only model-checked: what is stated under fairness (`CallsReturn`,
`StoppedIsCleanedUp`, `CloseDrains` of `Remux` and of `Slate`, `RelaysConverge`, `RequestsServed`, `LeaksRevoked`, `DeadSourceReported`,
`KeepsUp`, `Settles`), since the prover has no ENABLED. No definition is recursive.

## Findings

* `RadioFailureAnswered` (slate.go:234): at the cap, a request that falls back to a
  slate whose radio encoder died without a playlist calls `GetPath` for ever.

Two definitions are kept although they do not hold, as they say what the documentation
promises; no run has them, and TLC refutes both at once when they are added:

* `RequestSearchedFor` of `LeakScan` (a PROPERTY; one invocation, one click, no fault): the accounts share ten minutes with the global
  scan; when those are used up, an account's scan ends before its first search (main.go:166) and
  its request is cleared all the same (ARCHITECTURE.md:383).
* `OneReplyPerIssue` of `Incidents` (an INVARIANT; no manual incident, no fault): scanner and operator each look for a recorded
  reply, post, and record afterwards (scanner.go:238), so an issue can get a comment from both
  although there is "one public GitHub reply per issue/PR at most"
  (migrations/0005:1); `CommentsBounded` is what does hold.

Also noticed: of two overlapping `Start` calls for two sources of one stream, the loser
serves the winner's source (remux.go:267, `StartLost`), although `sourceSignature` exists
so that a session is reused only "while URL and credentials are unchanged"
(handler.go:352); the supervisor may stop a viewer's live session, because the death it acts
on was observed at the start of the pass (alwayson.go:129); incidents without a token are grouped per stream, where the comment
says per `(stream, access_point)` (store.go:443), and confirming one revokes only
the access point of its newest finding; that access point may be private and the finding only
probable, and then every viewer who has a token for it is cut off (incidents.php:126), although a leak revokes
"never the stream or other recipients' tokens" (SECURITY.md:152; `OnlyLeakedRevoked` allows this step and no other);
an operator may reply for an incident in any state (incidents.php:44), and the reply is the scan's own notice, "This
stream link has been revoked and no longer works" (github_reply.php:21), also while the link still works; a reply writes back the incident's history as
it was when the page was loaded (incidents.php:74), although that history is
append-only (migrations/0001:83). Notices are posted with `context.Background()` (scanner.go:198), so a
scan may hold its lock past the fifteen minutes after which another one takes it
over, and its `ReleaseLock` then deletes the other's row: with `Slow = TRUE`,
`OneScanAtATime` does not hold. `ShouldRun` is not asked again under the lock.
ARCHITECTURE.md:522 says at most `slots - 1` relays run, but one
slot allows one relay (alwayson.go:97; `MaxRelays` follows the code), and
ARCHITECTURE.md:489 caps the encoders at six where the code has four. Older passages deny the automatic response that
`AutoRevoke` has: a bare link of a public access point "is just a `Mention`" (ARCHITECTURE.md:323-327), automated findings
"never auto-confirm an incident" (ARCHITECTURE.md:353-358), the response is "not implemented"
and status changes "do not revoke tokens" (SECURITY.md:78-79).
CHANGELOG.md:180 and SECURITY.md:150 supersede them.

From the later modules: every request looks at its link anew, but an entry that is already being
copied goes on as long as its source sends (`sniffAndServe` ends in `io.Copy`), although revoking says
"It stops working immediately" (stream_view.php:108). A source whose name cannot be resolved is
remembered as public for five minutes (handler.go:170). SECURITY.md:77 and :116 deny the throttle
that auth.php:113 has; SECURITY.md:172 promises "at most 5 failures per client IP", but the failures are counted
before an attempt and recorded after it, so attempts in parallel exceed that by up to their number less one
(`ThrottleHolds`). An invited account that is disabled, and enabled after its invite expired,
becomes `active` without a password (accounts.php:74). A search that got no answer or no
rate-limit headers makes the next one of its bucket wait a minute
(github.go:103); a deadline that ends such a wait is reported as an exhausted
rate limit (github.go:125), and the comment above `waitForReset` promises `ErrRateLimited` where waiting
is disabled, which returns nil (github.go:109). Migrations run without a transaction (db.php:47): between the
`DROP TRIGGER` and the `CREATE TRIGGER` of 0011, run by two first requests of a release, the quota
(SECURITY.md:208) is not enforced, and it stays so if the process that dropped it last dies there.

## Not modelled

Viewers' calls inside `AlwaysOn` are atomic (their interleavings are in `Remux`);
`stream_runtime` rows and the failure count only report or set a duration. The
`fallbacks` map of the slates is unreachable below the cap. `Incidents` leaves out the
history of actions, deleted streams and the rotation modes other than `auto`, which is
every stream's. `RelayNode` leaves out the nodes' revocation lists: no grant
the control gateway signs names an access point or a token (nodecontrol.go:196). `Gateway` leaves out
`last_used_at`, redirects of the source (each of which is checked like a segment's target), sources whose
URL is unusable, and the bytes it proxies. `Accounts` leaves out sessions, CSRF tokens, the audit log, the stream
limit, whose trigger has the form of the modelled one, and password changes by their owner. `GitHubScan` leaves out
a client that does not wait (`MaxRateWait` of 0), which the program never creates.
Migrations run once per release and have no state to come back to; what they enforce is in
the modules. Text, cryptography, form handling and the wiring of the processes stay out: no
order of events is in them that the modules lack.

## Plan

1. `Remux`, `RemuxPool`, `AlwaysOn`, `Slate`; proofs about `Remux` (done).
2. `LeakScan`, `Incidents` and their proofs (done).
3. `RelayNode`, `HlsPull` and their proofs (done).
4. `Gateway` with `Links`, `Accounts`, `GitHubScan` and their proofs (done).
5. Every safety property and action property of the runs proved (done).
6. Beyond the runs: an abstract lock that `LeakScan` implements, and the quota and invites of `Accounts` as a
   refinement of what the schema promises.
