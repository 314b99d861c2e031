------------------------------- MODULE Gateway -------------------------------
(***************************************************************************)
(* The gateway's request path (gatewayhttp/handler.go, ssrf.go, the        *)
(* queries of store/store.go) against an admin who changes the rows it     *)
(* reads (stream_view.php, stream_form.php).                               *)
(*                                                                         *)
(* A request reads the access point with its stream, then the token, then  *)
(* works with what it read; the class of the source's address (private or  *)
(* public) comes from a cache filled by lookups.  A link is a path, a      *)
(* token for private access points and, for a segment, the access point    *)
(* its reference was made for.  Time is counted in ticks.                  *)
(*                                                                         *)
(* Left out: relay nodes (RelayNode), remux sessions, whose use is a       *)
(* choice here (Remux), the slates (Slate), last_used_at, redirects, and   *)
(* sources whose URL is unusable.                                          *)
(***************************************************************************)
EXTENDS Integers

CONSTANTS
    Requests, Paths, Streams, Points, Tokens, Sources, None,
    StreamOf, PathOf,  \* of an access point
    PointOf,           \* of a token
    PrivateSources,    \* sources with a private address
    Trusted,           \* streams of admins, TrustPrivateSource
    TTL,               \* sourceTrustCacheTTL
    Patience,          \* bound on the lookups of a request
    MaxEdits           \* bound on the admin's edits

ASSUME NoneAssumption == None \notin Points \cup Tokens
ASSUME LinkAssumption ==
    /\ StreamOf \in [Points -> Streams] /\ PathOf \in [Points -> Paths]
    /\ PointOf \in [Tokens -> Points]
    /\ PrivateSources \subseteq Sources /\ Trusted \subseteq Streams
ASSUME TimeAssumption == TTL \in Nat \ {0} /\ Patience \in Nat /\ MaxEdits \in Nat

VARIABLES
    point, token, stream,  \* their status
    source,                \* source_url; classes of other streams need no lookup
    edits,
    cache,                 \* sourceTrustCache
    issued,                \* access points whose references are in playlists
    req,                   \* requests
    could,                 \* the states their links have had since they came
    ago                    \* ticks since a stream's source was private

database == <<point, token, stream, source, edits>>
vars     == <<database, cache, issued, req, could, ago>>

Private == {PointOf[t] : t \in Tokens}
Keys == [path : Paths, token : Tokens \cup {None}, ref : Points \cup {None}]
ASSUME KeyAssumption == None \notin Keys

Oldest == TTL + Patience

Idle == [at |-> "idle", key |-> None, told |-> "nothing", point |-> None, dead |-> FALSE,
         source |-> None, dns |-> FALSE, private |-> FALSE, age |-> 0]

Requested == [at : {"idle", "resolve", "validate", "entry", "fetch", "opened", "segment", "target", "resource", "got"},
              key : Keys \cup {None}, told : {"nothing", "live", "dead", "unknown"},
              point : Points \cup {None}, dead : BOOLEAN, source : Sources \cup {None},
              dns : BOOLEAN, private : BOOLEAN, age : 0..Patience]

NoEntry == [private |-> FALSE, age |-> TTL]

Exists(a) == point[a] \in {"active", "revoked"}

TypeOK ==
    /\ point \in [Points -> {"none", "active", "revoked", "deleted"}]
    /\ token \in [Tokens -> {"none", "valid", "revoked", "expired", "deleted"}]
    /\ stream \in [Streams -> {"active", "disabled", "deleted"}]
    /\ source \in [Trusted -> Sources] /\ edits \in 0..MaxEdits
    /\ cache \in [Trusted -> [private : BOOLEAN, age : 0..TTL]]
    /\ issued \subseteq Points
    /\ req \in [Requests -> Requested] /\ ago \in [Trusted -> 0..Oldest]
    /\ could \in [Requests -> SUBSET {"live", "dead", "unknown"}]
    /\ \A a, b \in Points : Exists(a) /\ Exists(b) /\ PathOf[a] = PathOf[b] => a = b
    /\ \A a \in Points : Exists(a) => stream[StreamOf[a]] # "deleted"
    /\ \A t \in Tokens : token[t] \notin {"none", "deleted"} => Exists(PointOf[t])

Init ==
    /\ \E A \in SUBSET Points, T \in SUBSET Tokens :
          /\ \A a, b \in A : PathOf[a] = PathOf[b] => a = b
          /\ \A t \in T : PointOf[t] \in A
          /\ point = [a \in Points |-> IF a \in A THEN "active" ELSE "none"]
          /\ token = [t \in Tokens |-> IF t \in T THEN "valid" ELSE "none"]
    /\ stream = [s \in Streams |-> "active"]
    /\ source \in [Trusted -> Sources] /\ edits = 0
    /\ cache = [s \in Trusted |-> NoEntry] /\ issued = {}
    /\ req = [q \in Requests |-> Idle] /\ could = [q \in Requests |-> {}]
    /\ ago = [s \in Trusted |-> IF source[s] \in PrivateSources THEN 0 ELSE Oldest]

-----------------------------------------------------------------------------
(* The state of a link.  Exists holds for one access point of a path. *)
Named(k, a) ==
    /\ Exists(a) /\ PathOf[a] = k.path
    /\ IF k.token = None THEN a \notin Private
       ELSE PointOf[k.token] = a /\ token[k.token] \notin {"none", "deleted"}

Dead(a) == point[a] = "revoked" \/ stream[StreamOf[a]] = "disabled"

LinkState(k) ==
    IF \A a \in Points : ~Named(k, a) THEN "unknown"
    ELSE LET a == CHOOSE b \in Points : Named(k, b) IN
         IF Dead(a) \/ (k.token # None /\ token[k.token] # "valid") THEN "dead"
         ELSE IF k.ref \in {None, a} THEN "live" ELSE "unknown"

(* Every undecided request lives through a change of the database. *)
Changed ==
    /\ UNCHANGED <<cache, issued, req>>
    /\ could' = [q \in Requests |-> could[q] \cup {LinkState(k)' : k \in {req[q].key} \ {None}}]

-----------------------------------------------------------------------------
(* The admin. *)
Edited == edits < MaxEdits /\ edits' = edits + 1 /\ Changed

(* add_access_point; public_path is UNIQUE. *)
NewPoint(a) ==
    /\ point[a] = "none" /\ stream[StreamOf[a]] # "deleted"
    /\ \A b \in Points : Exists(b) => PathOf[b] # PathOf[a]
    /\ point' = [point EXCEPT ![a] = "active"]
    /\ UNCHANGED <<token, stream, source, ago>> /\ Edited

(* revoke_access_point *)
RevokePoint(a) ==
    /\ Exists(a)
    /\ point' = [point EXCEPT ![a] = "revoked"]
    /\ UNCHANGED <<token, stream, source, ago>> /\ Edited

(* add_token *)
NewToken(t) ==
    /\ token[t] = "none" /\ Exists(PointOf[t])
    /\ token' = [token EXCEPT ![t] = "valid"]
    /\ UNCHANGED <<point, stream, source, ago>> /\ Edited

(* revoke_token *)
RevokeToken(t) ==
    /\ token[t] \notin {"none", "deleted"}
    /\ token' = [token EXCEPT ![t] = "revoked"]
    /\ UNCHANGED <<point, stream, source, ago>> /\ Edited

(* toggle_status *)
ToggleStream(s) ==
    /\ stream[s] # "deleted"
    /\ stream' = [stream EXCEPT ![s] = IF @ = "active" THEN "disabled" ELSE "active"]
    /\ UNCHANGED <<point, token, source, ago>> /\ Edited

(* delete_stream, with ON DELETE CASCADE; ids are not used again. *)
DeleteStream(s) ==
    /\ stream[s] # "deleted"
    /\ stream' = [stream EXCEPT ![s] = "deleted"]
    /\ point' = [a \in Points |-> IF StreamOf[a] = s THEN "deleted" ELSE point[a]]
    /\ token' = [t \in Tokens |-> IF StreamOf[PointOf[t]] = s THEN "deleted" ELSE token[t]]
    /\ UNCHANGED <<source, ago>> /\ Edited

(* The stream's form: a new source. *)
EditSource(s, g) ==
    /\ stream[s] # "deleted" /\ g # source[s]
    /\ source' = [source EXCEPT ![s] = g]
    /\ ago' = [ago EXCEPT ![s] = IF g \in PrivateSources THEN 0 ELSE @]
    /\ UNCHANGED <<point, token, stream>> /\ Edited

(* expires_at passes. *)
Expire(t) ==
    /\ token[t] = "valid"
    /\ token' = [token EXCEPT ![t] = "expired"]
    /\ UNCHANGED <<point, stream, source, edits, ago>> /\ Changed

-----------------------------------------------------------------------------
(* Requests.  Nobody knows a token before it exists, and references come from
   the playlists handed out. *)
Ask(q, k) ==
    /\ req[q].at = "idle"
    /\ k.token # None => token[k.token] # "none"
    /\ k.ref \in issued \cup {None}
    /\ req' = [req EXCEPT ![q] = [Idle EXCEPT !.at = "resolve", !.key = k]]
    /\ could' = [could EXCEPT ![q] = {LinkState(k)}]
    /\ UNCHANGED <<database, cache, issued, ago>>

Decide(q, r) ==
    /\ req' = [req EXCEPT ![q] = r]
    /\ could' = [could EXCEPT ![q] = IF r.key = None THEN {} ELSE @]
    /\ UNCHANGED <<database, cache, issued, ago>>

Told(verdict) == [Idle EXCEPT !.told = verdict]

Serve(r, at) == [r EXCEPT !.at = at, !.key = None, !.told = "live"]

(* As Bound, but a reference is good under any access point. *)
Unbound(r) == TRUE

(* A reference was made for this access point (Codec.Decode). *)
Bound(r) == r.key.ref = r.point

(* The end of ServeHTTP: revoked or disabled, an entry, a segment. *)
Proceed(r) ==
    IF r.dead THEN Told("dead")
    ELSE IF r.key.ref = None THEN Serve(r, "entry")
    ELSE IF Bound(r) THEN Serve(r, "segment")
    ELSE Told("unknown")

(* What ResolveAccessPoint returns. *)
Row(r, a) == [r EXCEPT !.point = a, !.dead = Dead(a),
                       !.source = IF StreamOf[a] \in Trusted THEN source[StreamOf[a]] ELSE None]

(* resolvePrefix: one access point, if its visibility fits. *)
Fits(k, a) == Exists(a) /\ PathOf[a] = k.path /\ (a \in Private <=> k.token # None)

Resolve(q) ==
    /\ req[q].at = "resolve"
    /\ LET r == req[q] IN
       \/ /\ \A a \in Points : ~Fits(r.key, a)
          /\ Decide(q, Told("unknown"))
       \/ \E a \in Points :
             /\ Fits(r.key, a)
             /\ Decide(q, IF r.key.token = None THEN Proceed(Row(r, a))
                          ELSE [Row(r, a) EXCEPT !.at = "validate"])

(* ValidateToken *)
Validate(q) ==
    /\ req[q].at = "validate"
    /\ LET t == req[q].key.token IN
       Decide(q, IF PointOf[t] # req[q].point \/ token[t] = "deleted" THEN Told("unknown")
                 ELSE IF token[t] # "valid" THEN Told("dead")
                 ELSE Proceed(req[q]))

Step(q, r) ==
    /\ req' = [req EXCEPT ![q] = r]
    /\ UNCHANGED <<database, could, ago>>

Served(q) == Step(q, Told("live"))

(* A playlist is written, unless ffmpeg or the source keep it waiting. *)
Issue(q) == issued' = issued \cup {req[q].point} \/ UNCHANGED issued

(* serveEntry: the playlist of a running remux session, or a fetch. *)
ServeEntry(q) ==
    /\ req[q].at = "entry"
    /\ \/ Served(q) /\ Issue(q)
       \/ Step(q, [req[q] EXCEPT !.at = "fetch"]) /\ UNCHANGED issued
    /\ UNCHANGED cache

(* serveRemuxResource answers from the session's directory; other targets are
   checked first. *)
ServeSegment(q) ==
    /\ req[q].at = "segment"
    /\ Served(q) \/ Step(q, [req[q] EXCEPT !.at = "target"])
    /\ UNCHANGED <<cache, issued>>

Undecided(q) == req[q].at \in {"fetch", "target", "resource"}

(* checkFetchTarget: without a class that allows it, a target on a private
   address is not asked for. *)
CheckFetchTarget(q, private) == req[q].at = "target" /\ ~private /\ Served(q)

After(at) == IF at = "fetch" THEN "opened" ELSE IF at = "target" THEN "resource" ELSE "got"

(* The class also says where redirects may lead to (fetch). *)
Decided(q, private) ==
    \/ CheckFetchTarget(q, private)
    \/ Step(q, [req[q] EXCEPT !.dns = FALSE, !.private = private, !.at = After(req[q].at)])

Fresh(s) == cache[s].age < TTL

(* As Classify, but an entry that is used lives on. *)
ClassifyRenewing(q) ==
    /\ Undecided(q) /\ ~req[q].dns
    /\ LET s == StreamOf[req[q].point] IN
       \/ s \notin Trusted /\ Decided(q, FALSE) /\ UNCHANGED cache
       \/ /\ s \in Trusted /\ Fresh(s) /\ Decided(q, cache[s].private)
          /\ cache' = [cache EXCEPT ![s].age = 0]
       \/ /\ s \in Trusted /\ ~Fresh(s) /\ Step(q, [req[q] EXCEPT !.dns = TRUE])
          /\ UNCHANGED cache
    /\ UNCHANGED issued

(* isSourcePrivate *)
Classify(q) ==
    /\ Undecided(q) /\ ~req[q].dns
    /\ LET s == StreamOf[req[q].point] IN
       \/ s \notin Trusted /\ Decided(q, FALSE)
       \/ s \in Trusted /\ Fresh(s) /\ Decided(q, cache[s].private)
       \/ s \in Trusted /\ ~Fresh(s) /\ Step(q, [req[q] EXCEPT !.dns = TRUE])
    /\ UNCHANGED <<cache, issued>>

(* hostResolvesToPrivate; a source that does not resolve counts as public. *)
Classes(g) == {FALSE, (g \in PrivateSources)}

(* The lookup of the source this request read ends. *)
LookupEnds(q) ==
    /\ Undecided(q) /\ req[q].dns
    /\ \E private \in Classes(req[q].source) :
          /\ cache' = [cache EXCEPT ![StreamOf[req[q].point]] = [private |-> private, age |-> 0]]
          /\ Decided(q, private)
    /\ UNCHANGED issued

(* fetch and sniffAndServe: an error, anything copied as it is, a rewritten
   playlist, or a transport stream for the remux manager and its playlist. *)
Fetched(q) ==
    /\ req[q].at \in {"opened", "got"} /\ Served(q) /\ Issue(q)
    /\ UNCHANGED cache

-----------------------------------------------------------------------------
HoldsRow(q) == req[q].at \notin {"idle", "resolve", "opened", "got"}

Tick ==
    /\ \A q \in Requests : HoldsRow(q) => req[q].age < Patience
    /\ req' = [q \in Requests |-> IF HoldsRow(q) THEN [req[q] EXCEPT !.age = @ + 1] ELSE req[q]]
    /\ cache' = [s \in Trusted |->
          IF cache[s].age + 1 < TTL THEN [cache[s] EXCEPT !.age = @ + 1] ELSE NoEntry]
    /\ ago' = [s \in Trusted |->
          IF source[s] \notin PrivateSources /\ ago[s] < Oldest THEN ago[s] + 1 ELSE ago[s]]
    /\ UNCHANGED <<database, issued, could>>

(* Everything but the database is lost, the key of the references included
   (blobcodec.New): those of an earlier process name no access point. *)
Restart ==
    /\ cache' = [s \in Trusted |-> NoEntry] /\ issued' = {}
    /\ req' = [q \in Requests |-> Idle] /\ could' = [q \in Requests |-> {}]
    /\ UNCHANGED <<database, ago>>

Admin ==
    \/ \E a \in Points : NewPoint(a) \/ RevokePoint(a)
    \/ \E t \in Tokens : NewToken(t) \/ RevokeToken(t) \/ Expire(t)
    \/ \E s \in Streams : ToggleStream(s) \/ DeleteStream(s)
    \/ \E s \in Trusted, g \in Sources : EditSource(s, g)

RequestStep(q) ==
    \/ \E k \in Keys : Ask(q, k)
    \/ Resolve(q) \/ Validate(q) \/ ServeEntry(q) \/ ServeSegment(q)
    \/ Classify(q) \/ LookupEnds(q) \/ Fetched(q)

Next ==
    \/ Admin \/ Tick \/ Restart
    \/ \E q \in Requests : RequestStep(q)

Spec == Init /\ [][Next]_vars
-----------------------------------------------------------------------------
(* Whatever is revoked, expired, disabled, deleted or created, and a path
   used again, between a request's two queries and after them: it is answered
   by a state its link was in meanwhile, segments no less than entries
   (handler.go:219, handler.go:265). *)
Promise == INSTANCE Links WITH
    link <- [k \in Keys |-> LinkState(k)],
    key  <- [q \in Requests |-> req[q].key],
    told <- [q \in Requests |-> req[q].told]
ImplementsLinks == Promise!Spec

(* A private address is let through only while the stream's source has been
   private within the cache's lifetime and one lookup, however lookups,
   edits and other requests interleave (handler.go:155). *)
PrivateOnlyIfRecent ==
    [][\A q \in Requests :
          Undecided(q) /\ req'[q].at # req[q].at /\ req'[q].private
              => LET s == StreamOf[req[q].point] IN s \in Trusted /\ ago[s] < Oldest]_vars
=============================================================================
