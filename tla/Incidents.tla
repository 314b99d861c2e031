------------------------------ MODULE Incidents ------------------------------
(***************************************************************************)
(* What happens to leaks that were found: internal/leakcheck/scanner.go,   *)
(* actions.go and store.go record findings, group them into incidents,     *)
(* revoke what leaked and comment on GitHub; operators work on the same    *)
(* incidents in admin/incidents.php and revoke links in stream_view.php.   *)
(*                                                                         *)
(* One stream with its access points and tokens.  One action per SQLite    *)
(* transaction and per request to GitHub.  At most one scan runs           *)
(* (LeakScan), a global or a personal one.  A hit is a place where a link  *)
(* was posted: the access point, what follows its URL (a token, something  *)
(* like a token, or nothing) and the page.  Every stream is in rotation    *)
(* mode "auto" (migrations/0005).  Tables are sequences, ids are positions *)
(* in them, and 0 is SQL's NULL.                                           *)
(***************************************************************************)
EXTENDS Naturals, Sequences, FiniteSets

CONSTANTS
    Points,     \* access points of the stream
    Private,    \* those that need a token
    Tokens,     \* tokens the private ones can have
    Garbled,    \* 48 hexadecimal digits that are no token
    Hits,       \* what GitHub's search can find: [point, token, url]
    Issues,     \* urls that are issues or pull requests
    Operators,
    MaxManual,  \* bound on incidents recorded by hand
    MaxFaults,  \* bound on crashes, failing steps and lost answers
    None

Urls == {h.url : h \in Hits}

ASSUME HitsAssumption ==
    Hits \subseteq [point : Points, token : Tokens \cup {Garbled, None}, url : Urls]
ASSUME NamesAssumption ==
    /\ Private \subseteq Points /\ Issues \subseteq Urls
    /\ Points \cap Tokens = {} /\ Garbled \notin Tokens /\ None \notin Tokens
ASSUME BoundsAssumption == MaxManual \in Nat /\ MaxFaults \in Nat
ASSUME OperatorsAssumption == IsFiniteSet(Operators)

VARIABLES
    issued,     \* tokens that were created
    revoked,    \* access points and tokens that were revoked
    incidents, findings,
    replies,    \* leak_replies: urls with a reply on record
    comments,   \* comments GitHub shows for an issue
    pc, run, match,  \* the scan: where it is, what it loaded, what it found
    op,         \* an operator's reply in progress
    faults

tables == <<issued, revoked, incidents, findings, replies>>
scan   == <<pc, run, match>>
vars   == <<tables, comments, scan, op, faults>>

Open        == {"new", "probable", "confirmed"}
Closed      == {"dismissed", "resolved"}
Confidences == {"mention", "probable", "confirmed"}

Incident == [token : Tokens \cup {None}, url : Urls \cup {None}, status : Open \cup Closed]
Idle     == [step |-> "idle", url |-> None]

TypeOK ==
    /\ issued \subseteq Tokens /\ revoked \subseteq Points \cup Tokens
    /\ incidents \in Seq(Incident)
    /\ \A f \in DOMAIN findings :
          /\ findings[f].hit \in Hits /\ findings[f].conf \in Confidences
          /\ findings[f].incident \in 0..Len(incidents)
          /\ findings[f].conf = "mention" <=> findings[f].incident = 0
    /\ \A f, g \in DOMAIN findings : findings[f].hit = findings[g].hit => f = g
    /\ replies \subseteq Issues /\ comments \in [Issues -> Nat]
    /\ pc \in {"off", "scan", "revoke", "check", "post", "record"}
    /\ run \in [points : SUBSET Points, tokens : SUBSET Tokens]
    /\ match.hit \in Hits \cup {None} /\ match.incident \in 0..Len(incidents)
    /\ pc \notin {"off", "scan"} => match.hit \in Hits /\ match.incident # 0
    /\ op \in [Operators -> [step : {"idle", "post", "record"}, url : Issues \cup {None}]]
    /\ faults \in Nat

NoRun   == [points |-> {}, tokens |-> {}]
NoMatch == [hit |-> None, incident |-> 0]

Init ==
    /\ issued = {} /\ revoked = {}
    /\ incidents = <<>> /\ findings = <<>>
    /\ replies = {} /\ comments = [u \in Issues |-> 0]
    /\ pc = "off" /\ run = NoRun /\ match = NoMatch
    /\ op = [o \in Operators |-> Idle]
    /\ faults = 0

-----------------------------------------------------------------------------
(* Classify, with the access points and tokens the run has loaded. *)
Confidence(h) ==
    CASE h.point \notin Private -> "confirmed"
      [] h.point \in Private /\ h.token = None -> "mention"
      [] h.point \in Private /\ h.token \in run.tokens -> "confirmed"
      [] OTHER -> "probable"

MatchedToken(h) == IF h.point \in Private /\ h.token \in run.tokens THEN h.token ELSE None

(* As Leaked, but it is the access point in any case. *)
LeakedPoint(h) == h.point

(* What a confirmed match is about: its token, or the whole access point. *)
Leaked(h) == IF h.point \in Private THEN h.token ELSE h.point

Rank(c) == CASE c = "mention" -> 0 [] c = "probable" -> 1 [] c = "confirmed" -> 2

(* Published: a token can only leak after it was created. *)
Published(h) == h.token \in Tokens => h.token \in issued

(* Start of Scanner.Run: the active access points and all their tokens. *)
StartRun ==
    /\ pc = "off"
    /\ pc' = "scan" /\ match' = NoMatch
    /\ run' = [points |-> Points \ revoked, tokens |-> issued]
    /\ UNCHANGED <<tables, comments, op, faults>>

EndRun ==
    /\ pc = "scan"
    /\ pc' = "off" /\ run' = NoRun /\ match' = NoMatch
    /\ UNCHANGED <<tables, comments, op, faults>>

(* findOrCreateIncident: open incidents of the token, or, without a token, of
   the stream. *)
OpenIncidents(t) ==
    {i \in DOMAIN incidents : incidents[i].token = t /\ incidents[i].status \in Open}

IncidentsFor(h) ==
    IF Confidence(h) = "mention" THEN {0}
    ELSE IF OpenIncidents(MatchedToken(h)) = {} THEN {Len(incidents) + 1}
    ELSE OpenIncidents(MatchedToken(h))

(* After RecordMatch: only a confirmed match of an incident is acted on. *)
Respond(h, i) ==
    IF Confidence(h) = "confirmed" /\ i # 0
    THEN pc' = "revoke" /\ match' = [hit |-> h, incident |-> i]
    ELSE UNCHANGED <<pc, match>>

FindingsOf(h) == {f \in DOMAIN findings : findings[f].hit = h}

(* As KnownIncident, but a finding that is on record is not looked at again. *)
KnownIncidentIgnored(f) == 0

KnownIncident(f) == findings[f].incident

Recorded(h, i) == [hit |-> h, conf |-> Confidence(h), incident |-> i]

(* RecordMatch: the finding is on record already, new, or stronger now. *)
RecordMatch(h) ==
    /\ pc = "scan" /\ h.point \in run.points /\ Published(h)
    /\ LET stronger(f) == Rank(findings[f].conf) < Rank(Confidence(h)) IN
         \/ \E f \in FindingsOf(h) :
               ~stronger(f) /\ Respond(h, KnownIncident(f)) /\ UNCHANGED <<incidents, findings>>
         \/ /\ \A f \in FindingsOf(h) : stronger(f)
            /\ \E i \in IncidentsFor(h) :
                  /\ incidents' =
                        IF i <= Len(incidents) THEN incidents
                        ELSE Append(incidents,
                               [token |-> MatchedToken(h), url |-> h.url,
                                status |-> IF Confidence(h) = "confirmed" THEN "probable" ELSE "new"])
                  /\ findings' =
                        IF FindingsOf(h) = {} THEN Append(findings, Recorded(h, i))
                        ELSE [f \in DOMAIN findings |->
                                IF f \in FindingsOf(h) THEN Recorded(h, i) ELSE findings[f]]
                  /\ Respond(h, i)
    /\ UNCHANGED <<issued, revoked, replies, comments, run, op, faults>>

-----------------------------------------------------------------------------
(* On to the next step of respond, or back to the results. *)
Goto(l) == pc' = l /\ match' = IF l = "scan" THEN NoMatch ELSE match

(* Only global scans comment, and only in repositories of the allowlist, a
   setting that may change at any time. *)
AfterRevoke ==
    \/ match.hit.url \in Issues /\ Goto("check")
    \/ Goto("scan")

(* As AutoRevoke, but for incidents in every state. *)
AutoRevokeAlways ==
    /\ pc = "revoke"
    /\ revoked' = revoked \cup {Leaked(match.hit)}
    /\ incidents' = [incidents EXCEPT ![match.incident].status = "confirmed"]
    /\ AfterRevoke
    /\ UNCHANGED <<issued, findings, replies, comments, run, op, faults>>

(* As AutoRevoke, but it says "inactive" also when it did nothing. *)
AutoRevokeSaysYes ==
    /\ pc = "revoke"
    /\ IF incidents[match.incident].status \in Open
       THEN /\ revoked' = revoked \cup {Leaked(match.hit)}
            /\ incidents' = [incidents EXCEPT ![match.incident].status = "confirmed"]
       ELSE UNCHANGED <<revoked, incidents>>
    /\ AfterRevoke
    /\ UNCHANGED <<issued, findings, replies, comments, run, op, faults>>

(* AutoRevoke and the conditions of a comment in respond. *)
AutoRevoke ==
    /\ pc = "revoke"
    /\ IF incidents[match.incident].status \in Open
       THEN /\ revoked' = revoked \cup {Leaked(match.hit)}
            /\ incidents' = [incidents EXCEPT ![match.incident].status = "confirmed"]
            /\ AfterRevoke
       ELSE Goto("scan") /\ UNCHANGED <<revoked, incidents>>
    /\ UNCHANGED <<issued, findings, replies, comments, run, op, faults>>

(* As HasReply, without looking. *)
HasReplyUnasked ==
    /\ pc = "check"
    /\ Goto("post")
    /\ UNCHANGED <<tables, comments, run, op, faults>>

HasReply ==
    /\ pc = "check"
    /\ Goto(IF match.hit.url \in replies THEN "scan" ELSE "post")
    /\ UNCHANGED <<tables, comments, run, op, faults>>

Comment(u) == comments' = [comments EXCEPT ![u] = @ + 1]
Fault      == faults < MaxFaults /\ faults' = faults + 1

PostIssueComment ==
    /\ pc = "post"
    /\ Comment(match.hit.url)
    /\ Goto("record")
    /\ UNCHANGED <<tables, run, op, faults>>

RecordReply ==
    /\ pc = "record"
    /\ replies' = replies \cup {match.hit.url}
    /\ Goto("scan")
    /\ UNCHANGED <<issued, revoked, incidents, findings, comments, run, op, faults>>

(* A statement or request of respond fails, and the scan goes on: also after
   GitHub took the comment and only the answer was lost. *)
RespondFails ==
    /\ pc \in {"revoke", "check", "post", "record"}
    /\ Fault
    /\ UNCHANGED comments \/ (pc = "post" /\ Comment(match.hit.url))
    /\ Goto("scan")
    /\ UNCHANGED <<tables, run, op>>

Crash ==
    /\ pc # "off"
    /\ Fault
    /\ pc' = "off" /\ run' = NoRun /\ match' = NoMatch
    /\ UNCHANGED <<tables, comments, op>>

-----------------------------------------------------------------------------
(* incidents.php: "create". *)
Create(u) ==
    /\ Len(incidents) < MaxManual
    /\ incidents' = Append(incidents, [token |-> None, url |-> u, status |-> "new"])
    /\ UNCHANGED <<issued, revoked, findings, replies, comments, scan, op, faults>>

Transition(i, from, to) ==
    /\ incidents[i].status \in from
    /\ incidents' = [incidents EXCEPT ![i].status = to]
    /\ UNCHANGED <<issued, findings, replies, comments, scan, op, faults>>

(* The access point of the newest finding. *)
LastPoint(i) ==
    {findings[f].hit.point : f \in
        {g \in DOMAIN findings :
            /\ findings[g].incident = i
            /\ \A e \in DOMAIN findings : findings[e].incident = i => e <= g}}

(* As ToRevoke, but the access point goes also when a token was identified. *)
ToRevokePoint(i) == LastPoint(i)

ToRevoke(i) == IF incidents[i].token # None THEN {incidents[i].token} ELSE LastPoint(i)

Confirm(i) ==
    /\ Transition(i, {"new", "probable"}, "confirmed")
    /\ revoked' = revoked \cup ToRevoke(i)

Dismiss(i) == Transition(i, {"new", "probable"}, "dismissed") /\ UNCHANGED revoked
Resolve(i) == Transition(i, {"confirmed"}, "resolved") /\ UNCHANGED revoked

(* incidents.php: "github_reply", for an incident in any state. *)
StartReply(o, i) ==
    /\ op[o] = Idle
    /\ incidents[i].url \in Issues \ replies
    /\ op' = [op EXCEPT ![o] = [step |-> "post", url |-> incidents[i].url]]
    /\ UNCHANGED <<tables, comments, scan, faults>>

PostReply(o) ==
    /\ op[o].step = "post"
    /\ Comment(op[o].url)
    /\ op' = [op EXCEPT ![o].step = "record"]
    /\ UNCHANGED <<tables, scan, faults>>

RecordOperatorReply(o) ==
    /\ op[o].step = "record"
    /\ replies' = replies \cup {op[o].url}
    /\ op' = [op EXCEPT ![o] = Idle]
    /\ UNCHANGED <<issued, revoked, incidents, findings, comments, scan, faults>>

ReplyFails(o) ==
    /\ op[o] # Idle
    /\ Fault
    /\ UNCHANGED comments \/ (op[o].step = "post" /\ Comment(op[o].url))
    /\ op' = [op EXCEPT ![o] = Idle]
    /\ UNCHANGED <<tables, scan>>

(* stream_view.php: "revoke_access_point", "revoke_token" and "add_token". *)
Revoke(x) ==
    /\ x \in (Points \cup issued) \ revoked
    /\ revoked' = revoked \cup {x}
    /\ UNCHANGED <<issued, incidents, findings, replies, comments, scan, op, faults>>

AddToken(t) ==
    /\ t \notin issued
    /\ issued' = issued \cup {t}
    /\ UNCHANGED <<revoked, incidents, findings, replies, comments, scan, op, faults>>

-----------------------------------------------------------------------------
Answer == AutoRevoke \/ HasReply \/ PostIssueComment \/ RecordReply
Triage(i) == Confirm(i) \/ Dismiss(i) \/ Resolve(i)

Next ==
    \/ StartRun \/ EndRun \/ (\E h \in Hits : RecordMatch(h))
    \/ Answer \/ RespondFails \/ Crash
    \/ \E u \in Urls \cup {None} : Create(u)
    \/ \E i \in DOMAIN incidents : Triage(i) \/ \E o \in Operators : StartReply(o, i)
    \/ \E o \in Operators : PostReply(o) \/ RecordOperatorReply(o) \/ ReplyFails(o)
    \/ \E x \in Points \cup Tokens : Revoke(x)
    \/ \E t \in Tokens : AddToken(t)

Spec == Init /\ [][Next]_vars

(* Scans begin, go on and end, and what is still posted is found by one of
   them after the other. *)
Fairness ==
    /\ WF_vars(StartRun) /\ WF_vars(EndRun) /\ WF_vars(Answer)
    /\ \A h \in Hits : SF_vars(RecordMatch(h))

FairSpec == Spec /\ Fairness
-----------------------------------------------------------------------------
(* "One open incident per (stream, token) pair" (store.go:443), through
   upgrades of findings, triage between the statements and repeated scans. *)
OneIncidentPerToken ==
    \A i, j \in DOMAIN incidents :
        /\ incidents[i].token = incidents[j].token /\ incidents[i].token # None
        /\ incidents[i].status \in Open /\ incidents[j].status \in Open
        => i = j

(* An incident with a token is never confirmed or resolved while the token
   still works, whoever confirmed it (actions.go:52-56, incidents.php:120). *)
ConfirmedTokenRevoked ==
    \A i \in DOMAIN incidents :
        incidents[i].status \in {"confirmed", "resolved"} /\ incidents[i].token # None
        => incidents[i].token \in revoked

(* "It never touches an incident the operator already dismissed or resolved"
   (actions.go:28), also when that happened after the finding was recorded. *)
ClosedStaysClosed ==
    [][\A i \in DOMAIN incidents :
          incidents[i].status \in Closed => incidents'[i] = incidents[i]]_vars

Dead(h) == h.point \in revoked \/ Leaked(h) \in revoked

(* The checker's public notice says that the link does not work any more: it
   does not, whatever operators did in the meantime (scanner.go:229).  An
   operator's reply is not asked about: incidents.php:44 allows it for every
   incident. *)
NoticeOnlyForDeadLink ==
    [][pc = "post" /\ pc' = "record" => Dead(match.hit)]_vars

(* "A confirmed leak revokes only the specific leaked token or access point"
   (SECURITY.md:152), whoever confirms it: what goes, unless an operator
   revoked it on the stream's page, is a token or a public access point that
   a confirmed finding shows (actions.go:24).  Only an operator who confirms
   an incident may take a private access point, and only for a finding of
   this incident in which no token was recognised (incidents.php:117-134): a
   known token never takes the other viewers' links with it. *)
OnlyLeakedRevoked ==
    [][\A x \in revoked' \ revoked :
          \/ Revoke(x)
          \/ \E f \in DOMAIN findings :
                \/ /\ findings[f].conf = "confirmed"
                   /\ \/ findings[f].hit.token = x
                      \/ findings[f].hit.point = x /\ x \notin Private
                \/ /\ findings[f].conf = "probable" /\ findings[f].hit.point = x
                   /\ Confirm(findings[f].incident)]_vars

(* Comments are not repeated scan after scan: an issue gets at most one from
   each of those that post at the same time, and one for every fault between
   posting and recording (scanner.go:239-246, incidents.php:58-61). *)
CommentsBounded ==
    \A u \in Issues : comments[u] <= Cardinality(Operators) + 1 + faults

Found(h)    == \E f \in DOMAIN findings : findings[f].hit = h /\ findings[f].conf = "confirmed"
Settled(h)  ==
    \E f \in DOMAIN findings :
        findings[f].hit = h /\ findings[f].incident # 0 /\ incidents[findings[f].incident].status \in Closed

(* A confirmed leak is revoked, also when the scan that found it died before
   it could: the next one does it (store.go:388-393), unless an operator closed
   the incident. *)
LeaksRevoked == \A h \in Hits : Found(h) ~> Dead(h) \/ Settled(h)

(* "One public GitHub reply per issue/PR at most, whether posted automatically
   by the leak checker or manually from the admin" (migrations/0005:1).  It does
   not hold: both may look before either has recorded its reply. *)
OneReplyPerIssue == \A u \in Issues : comments[u] <= 1
=============================================================================
