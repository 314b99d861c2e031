--------------------------- MODULE IncidentsProofs ---------------------------
(***************************************************************************)
(* Proofs about Incidents, for all sets of hits, tokens and operators: one *)
(* open incident per token, tokens of confirmed incidents are revoked, and *)
(* closed incidents stay as they are, the checker's notices are true,      *)
(* nothing but what findings show is revoked, and comments are counted.    *)
(***************************************************************************)
EXTENDS Incidents, SequenceTheorems, FiniteSetTheorems, TLAPS

Finding == [hit : Hits, conf : Confidences, incident : Nat]

Tables ==
    /\ incidents \in Seq(Incident)
    /\ findings \in Seq(Finding)
    /\ \A f \in DOMAIN findings : findings[f].incident \in 0..Len(incidents)
    /\ pc = "revoke" => match.incident \in DOMAIN incidents

(* An incident with a token is about what its findings leaked. *)
About(i, h) == incidents[i].token \in {None, Leaked(h)}

Agreement ==
    /\ \A f \in DOMAIN findings :
          findings[f].incident # 0 => About(findings[f].incident, findings[f].hit)
    /\ pc = "revoke" => About(match.incident, match.hit)

IncidentsInv == Tables /\ Agreement /\ OneIncidentPerToken /\ ConfirmedTokenRevoked

LEMMA InvInit == Init => IncidentsInv
BY DEF Init, IncidentsInv, Tables, Agreement, OneIncidentPerToken, ConfirmedTokenRevoked

-----------------------------------------------------------------------------
(* The two things that happen to the table of incidents. *)
LEMMA StatusChange ==
  ASSUME incidents \in Seq(Incident), NEW i \in DOMAIN incidents, NEW s \in Open \cup Closed,
         incidents' = [incidents EXCEPT ![i].status = s]
  PROVE  /\ incidents' \in Seq(Incident)
         /\ Len(incidents') = Len(incidents) /\ DOMAIN incidents' = DOMAIN incidents
         /\ \A j \in DOMAIN incidents :
               /\ incidents'[j].token = incidents[j].token
               /\ incidents'[j].status = IF j = i THEN s ELSE incidents[j].status
               /\ j # i => incidents'[j] = incidents[j]
<1>1. \A j \in DOMAIN incidents : incidents[j] \in Incident
  BY ElementOfSeq
<1>2. [incidents[i] EXCEPT !.status = s] \in Incident
  BY <1>1 DEF Incident
<1>3. incidents' = [incidents EXCEPT ![i] = [incidents[i] EXCEPT !.status = s]]
  OBVIOUS
<1>4. incidents' \in Seq(Incident) /\ Len(incidents') = Len(incidents)
  BY <1>2, <1>3, ExceptSeq
<1>5. QED
  BY <1>1, <1>3, <1>4 DEF Incident

LEMMA NewIncident ==
  ASSUME incidents \in Seq(Incident), NEW r \in Incident, incidents' = Append(incidents, r)
  PROVE  /\ incidents' \in Seq(Incident)
         /\ Len(incidents') = Len(incidents) + 1
         /\ DOMAIN incidents' = DOMAIN incidents \cup {Len(incidents) + 1}
         /\ Len(incidents) + 1 \notin DOMAIN incidents
         /\ \A j \in DOMAIN incidents : incidents'[j] = incidents[j]
         /\ incidents'[Len(incidents) + 1] = r
BY AppendProperties, LenProperties

(* Nothing of the invariant is touched. *)
LEMMA Untouched ==
  ASSUME IncidentsInv, UNCHANGED <<incidents, findings>>,
         revoked \subseteq revoked', pc' = "revoke" => pc = "revoke" /\ match' = match
  PROVE  IncidentsInv'
<1>1. Tables'
  BY DEF IncidentsInv, Tables
<1>2. Agreement'
  BY DEF IncidentsInv, Agreement, About, Leaked
<1>3. OneIncidentPerToken' /\ ConfirmedTokenRevoked'
  BY DEF IncidentsInv, OneIncidentPerToken, ConfirmedTokenRevoked
<1>4. QED
  BY <1>1, <1>2, <1>3 DEF IncidentsInv

(* An incident that was open changes its status; if it is settled then, its
   token is revoked. *)
LEMMA StatusKeepsInv ==
  ASSUME IncidentsInv, NEW i \in DOMAIN incidents, NEW s \in Open \cup Closed,
         incidents' = [incidents EXCEPT ![i].status = s],
         incidents[i].status \in Open,
         s \in {"confirmed", "resolved"} => incidents[i].token \in revoked' \cup {None},
         UNCHANGED findings, revoked \subseteq revoked',
         pc' = "revoke" => pc = "revoke" /\ match' = match
  PROVE  IncidentsInv'
<1>. USE DEF IncidentsInv
<1>1. /\ incidents' \in Seq(Incident)
      /\ Len(incidents') = Len(incidents) /\ DOMAIN incidents' = DOMAIN incidents
      /\ \A j \in DOMAIN incidents :
            /\ incidents'[j].token = incidents[j].token
            /\ incidents'[j].status = IF j = i THEN s ELSE incidents[j].status
  BY StatusChange DEF Tables
<1>2. Tables'
  BY <1>1 DEF Tables
<1>3. \A f \in DOMAIN findings : findings[f].incident # 0 => findings[f].incident \in DOMAIN incidents
  BY LenProperties DEF Tables
<1>4. Agreement'
  BY <1>1, <1>3 DEF Agreement, About, Leaked, Tables
<1>5. OneIncidentPerToken'
  BY <1>1 DEF OneIncidentPerToken
<1>6. ConfirmedTokenRevoked'
  BY <1>1 DEF ConfirmedTokenRevoked
<1>7. QED
  BY <1>2, <1>4, <1>5, <1>6

-----------------------------------------------------------------------------
(* Recording a match: which incident it belongs to ... *)
LEMMA IncidentsForMatch ==
  ASSUME Tables, NEW h \in Hits, NEW i \in IncidentsFor(h), i # 0
  PROVE  \/ /\ i \in DOMAIN incidents
            /\ incidents[i].token = MatchedToken(h)
         \/ i = Len(incidents) + 1 /\ OpenIncidents(MatchedToken(h)) = {}
BY DEF IncidentsFor, OpenIncidents

LEMMA MatchedTokenType ==
  ASSUME NEW h \in Hits, run.tokens \subseteq Tokens
  PROVE  MatchedToken(h) \in Tokens \cup {None} /\ MatchedToken(h) \in {None, Leaked(h)}
BY DEF MatchedToken, Leaked

(* ... a new incident keeps the invariant of the old ones ... *)
LEMMA RecordInNew ==
  ASSUME IncidentsInv, NEW t \in Tokens \cup {None}, NEW u \in Urls,
         NEW s \in {"new", "probable"}, OpenIncidents(t) = {},
         incidents' = Append(incidents, [token |-> t, url |-> u, status |-> s]),
         revoked' = revoked
  PROVE  /\ incidents' \in Seq(Incident)
         /\ Len(incidents') = Len(incidents) + 1
         /\ DOMAIN incidents' = DOMAIN incidents \cup {Len(incidents) + 1}
         /\ \A j \in DOMAIN incidents : incidents'[j] = incidents[j]
         /\ incidents'[Len(incidents) + 1].token = t
         /\ OneIncidentPerToken' /\ ConfirmedTokenRevoked'
<1>. USE DEF IncidentsInv
<1>. DEFINE r == [token |-> t, url |-> u, status |-> s]
<1>1. r \in Incident
  BY DEF Incident, Open
<1>2. /\ incidents' \in Seq(Incident)
      /\ Len(incidents') = Len(incidents) + 1
      /\ DOMAIN incidents' = DOMAIN incidents \cup {Len(incidents) + 1}
      /\ Len(incidents) + 1 \notin DOMAIN incidents
      /\ \A j \in DOMAIN incidents : incidents'[j] = incidents[j]
      /\ incidents'[Len(incidents) + 1] = r
  BY <1>1, NewIncident DEF Tables
<1>3. \A j \in DOMAIN incidents : incidents[j].token = t => incidents[j].status \notin Open
  BY DEF OpenIncidents
<1>4. OneIncidentPerToken'
  BY <1>2, <1>3 DEF OneIncidentPerToken
<1>5. ConfirmedTokenRevoked'
  BY <1>2 DEF ConfirmedTokenRevoked
<1>6. QED
  BY <1>2, <1>4, <1>5

(* ... and so does the finding. *)
LEMMA RecordMatchKeepsInv ==
  ASSUME IncidentsInv, run.tokens \subseteq Tokens, NEW h \in Hits, RecordMatch(h)
  PROVE  IncidentsInv'
<1>. USE DEF IncidentsInv
<1>. DEFINE t == MatchedToken(h)
<1>0. /\ pc = "scan" /\ revoked' = revoked
      /\ t \in Tokens \cup {None} /\ t \in {None, Leaked(h)}
  BY MatchedTokenType DEF RecordMatch
<1>1. CASE \E f \in FindingsOf(h) :
             Respond(h, KnownIncident(f)) /\ UNCHANGED <<incidents, findings>>
  <2>1. PICK f \in FindingsOf(h) : Respond(h, KnownIncident(f)) /\ UNCHANGED <<incidents, findings>>
    BY <1>1
  <2>2. f \in DOMAIN findings /\ findings[f].hit = h
    BY DEF FindingsOf
  <2>3. pc' = "revoke" => /\ match' = [hit |-> h, incident |-> findings[f].incident]
                          /\ findings[f].incident # 0
    BY <1>0, <2>1 DEF Respond, KnownIncident
  <2>4. Tables'
    BY <2>1, <2>2, <2>3, LenProperties DEF Tables
  <2>5. Agreement'
    BY <2>1, <2>2, <2>3 DEF Agreement, About, Leaked
  <2>6. QED
    BY <1>0, <2>1, <2>4, <2>5 DEF OneIncidentPerToken, ConfirmedTokenRevoked
<1>2. ASSUME NEW i \in IncidentsFor(h), Respond(h, i),
             incidents' = IF i <= Len(incidents) THEN incidents
                          ELSE Append(incidents,
                                 [token |-> t, url |-> h.url,
                                  status |-> IF Confidence(h) = "confirmed" THEN "probable" ELSE "new"]),
             findings' = IF FindingsOf(h) = {} THEN Append(findings, Recorded(h, i))
                         ELSE [f \in DOMAIN findings |->
                                 IF f \in FindingsOf(h) THEN Recorded(h, i) ELSE findings[f]]
      PROVE  IncidentsInv'
  <2>. DEFINE n == Len(incidents)
  <2>1. /\ n \in Nat /\ DOMAIN incidents = 1..n /\ i \in 0..(n + 1)
    BY LenProperties DEF Tables, IncidentsFor, OpenIncidents
  <2>2. /\ incidents' \in Seq(Incident)
        /\ Len(incidents') \in Nat /\ Len(incidents') >= n
        /\ DOMAIN incidents' = 1..Len(incidents')
        /\ \A j \in DOMAIN incidents : incidents'[j] = incidents[j]
        /\ i \in 0..Len(incidents')
        /\ i # 0 => incidents'[i].token = t
        /\ OneIncidentPerToken' /\ ConfirmedTokenRevoked'
    <3>1. CASE i <= n
      <4>1. incidents' = incidents
        BY <1>2, <3>1
      <4>2. i # 0 => incidents[i].token = t
        BY <2>1, <3>1, IncidentsForMatch
      <4>3. QED
        BY <1>0, <2>1, <3>1, <4>1, <4>2 DEF Tables, OneIncidentPerToken, ConfirmedTokenRevoked
    <3>2. CASE i = n + 1
      <4>1. OpenIncidents(t) = {}
        BY <2>1, <3>2, IncidentsForMatch
      <4>2. PICK s \in {"new", "probable"} :
               incidents' = Append(incidents, [token |-> t, url |-> h.url, status |-> s])
        BY <1>2, <2>1, <3>2
      <4>3. h.url \in Urls
        BY DEF Urls
      <4>4. /\ incidents' \in Seq(Incident)
            /\ Len(incidents') = n + 1
            /\ DOMAIN incidents' = DOMAIN incidents \cup {n + 1}
            /\ \A j \in DOMAIN incidents : incidents'[j] = incidents[j]
            /\ incidents'[n + 1].token = t
            /\ OneIncidentPerToken' /\ ConfirmedTokenRevoked'
        <5>. HIDE DEF t, IncidentsInv
        <5>1. QED
          BY <1>0, <4>1, <4>2, <4>3, RecordInNew
      <4>5. QED
        BY <2>1, <3>2, <4>4
    <3>3. QED
      BY <2>1, <3>1, <3>2
  <2>3. Recorded(h, i) \in Finding /\ Recorded(h, i).hit = h /\ Recorded(h, i).incident = i
    <3>1. Confidence(h) \in Confidences
      BY DEF Confidence, Confidences
    <3>2. QED
      BY <2>1, <3>1 DEF Recorded, Finding
  <2>4. /\ findings' \in Seq(Finding)
        /\ \A f \in DOMAIN findings' :
              \/ findings'[f] = Recorded(h, i)
              \/ f \in DOMAIN findings /\ findings'[f] = findings[f]
    <3>1. CASE FindingsOf(h) = {}
      BY <1>2, <2>3, <3>1, AppendProperties, LenProperties DEF Tables
    <3>2. CASE FindingsOf(h) # {}
      <4>1. findings' \in [1..Len(findings) -> Finding] /\ Len(findings) \in Nat
        BY <1>2, <2>3, <3>2, LenProperties DEF Tables
      <4>2. findings' \in Seq(Finding)
        BY <4>1, SeqDef
      <4>3. QED
        BY <1>2, <3>2, <4>2
    <3>3. QED
      BY <3>1, <3>2
  <2>5. pc' = "revoke" => match' = [hit |-> h, incident |-> i] /\ i # 0
    BY <1>0, <1>2 DEF Respond
  <2>6. Tables'
    <3>1. ASSUME NEW f \in DOMAIN findings'
          PROVE  findings'[f].incident \in 0..Len(incidents')
      <4>1. CASE findings'[f] = Recorded(h, i)
        BY <2>2, <2>3, <4>1
      <4>2. CASE f \in DOMAIN findings /\ findings'[f] = findings[f]
        BY <2>1, <2>2, <4>2 DEF Tables
      <4>3. QED
        BY <2>4, <4>1, <4>2
    <3>2. pc' = "revoke" => match'.incident \in DOMAIN incidents'
      BY <2>2, <2>5
    <3>3. QED
      BY <2>2, <2>4, <3>1, <3>2 DEF Tables
  <2>7. Agreement'
    <3>1. ASSUME NEW f \in DOMAIN findings', findings'[f].incident # 0
          PROVE  incidents'[findings'[f].incident].token \in {None, Leaked(findings'[f].hit)}
      <4>1. CASE findings'[f] = Recorded(h, i)
        BY <1>0, <2>2, <2>3, <3>1, <4>1
      <4>2. CASE f \in DOMAIN findings /\ findings'[f] = findings[f]
        <5>1. findings[f].incident \in DOMAIN incidents
          BY <2>1, <3>1, <4>2 DEF Tables
        <5>2. About(findings[f].incident, findings[f].hit)
          BY <3>1, <4>2 DEF Agreement
        <5>3. QED
          BY <2>2, <4>2, <5>1, <5>2 DEF About
      <4>3. QED
        BY <2>4, <4>1, <4>2
    <3>2. pc' = "revoke" => incidents'[match'.incident].token \in {None, Leaked(match'.hit)}
      BY <1>0, <2>2, <2>5
    <3>3. QED
      BY <3>1, <3>2 DEF Agreement, About, Leaked
  <2>8. QED
    BY <2>2, <2>6, <2>7
<1>3. QED
  BY <1>1, <1>2 DEF RecordMatch

-----------------------------------------------------------------------------
(* A run has loaded tokens that exist. *)
Created == issued \subseteq Tokens /\ run.tokens \subseteq Tokens

LEMMA CreatedInductive == Created /\ [Next]_vars => Created'
<1>1. ASSUME Created, UNCHANGED <<issued, run>> PROVE Created'
  BY <1>1 DEF Created
<1>2. ASSUME Created, StartRun PROVE Created'
  BY <1>2 DEF Created, StartRun, tables
<1>3. ASSUME Created, EndRun \/ Crash PROVE Created'
  BY <1>3 DEF Created, EndRun, Crash, NoRun, tables
<1>4. ASSUME Created, NEW t \in Tokens, AddToken(t) PROVE Created'
  BY <1>4 DEF Created, AddToken, scan
<1>5. QED
  BY <1>1, <1>2, <1>3, <1>4
  DEF Next, vars, tables, scan, Answer, Triage, RecordMatch, AutoRevoke, HasReply,
      PostIssueComment, RecordReply, RespondFails, Create, Confirm, Dismiss, Resolve, Transition,
      StartReply, PostReply, RecordOperatorReply, ReplyFails, Revoke

LEMMA AutoRevokeKeepsInv ==
  ASSUME IncidentsInv, AutoRevoke
  PROVE  IncidentsInv'
<1>. DEFINE i == match.incident
<1>1. /\ pc = "revoke" /\ i \in DOMAIN incidents /\ About(i, match.hit)
      /\ findings' = findings
  BY DEF AutoRevoke, IncidentsInv, Tables, Agreement
<1>2. pc' # "revoke"
  BY DEF AutoRevoke, AfterRevoke, Goto
<1>3. CASE incidents[i].status \in Open
  <2>1. /\ revoked' = revoked \cup {Leaked(match.hit)}
        /\ incidents' = [incidents EXCEPT ![i].status = "confirmed"]
    BY <1>3 DEF AutoRevoke
  <2>2. incidents[i].token \in revoked' \cup {None}
    BY <1>1, <2>1 DEF About
  <2>3. QED
    BY <1>1, <1>2, <1>3, <2>1, <2>2, StatusKeepsInv DEF Open
<1>4. CASE incidents[i].status \notin Open
  BY <1>1, <1>2, <1>4, Untouched DEF AutoRevoke
<1>5. QED
  BY <1>3, <1>4

LEMMA TriageKeepsInv ==
  ASSUME IncidentsInv, NEW i \in DOMAIN incidents, Triage(i)
  PROVE  IncidentsInv'
<1>1. UNCHANGED <<findings, pc, match>>
  BY DEF Triage, Confirm, Dismiss, Resolve, Transition, scan
<1>2. CASE Confirm(i)
  <2>1. /\ incidents[i].status \in Open
        /\ incidents' = [incidents EXCEPT ![i].status = "confirmed"]
        /\ revoked' = revoked \cup ToRevoke(i)
    BY <1>2 DEF Confirm, Transition, Open
  <2>2. incidents[i].token \in revoked' \cup {None}
    BY <2>1 DEF ToRevoke
  <2>3. QED
    BY <1>1, <2>1, <2>2, StatusKeepsInv DEF Open
<1>3. CASE Dismiss(i)
  <2>1. /\ incidents[i].status \in Open
        /\ incidents' = [incidents EXCEPT ![i].status = "dismissed"]
        /\ revoked' = revoked
    BY <1>3 DEF Dismiss, Transition, Open
  <2>2. QED
    BY <1>1, <2>1, StatusKeepsInv DEF Closed
<1>4. CASE Resolve(i)
  <2>1. /\ incidents[i].status \in Open
        /\ incidents' = [incidents EXCEPT ![i].status = "resolved"]
        /\ revoked' = revoked
    BY <1>4 DEF Resolve, Transition, Open
  <2>2. incidents[i].token \in revoked' \cup {None}
    BY <1>4, <2>1 DEF Resolve, Transition, IncidentsInv, ConfirmedTokenRevoked
  <2>3. QED
    BY <1>1, <2>1, <2>2, StatusKeepsInv DEF Closed
<1>5. QED
  BY <1>2, <1>3, <1>4 DEF Triage

LEMMA CreateKeepsInv ==
  ASSUME IncidentsInv, NEW u \in Urls \cup {None}, Create(u)
  PROVE  IncidentsInv'
<1>. DEFINE n == Len(incidents)
            r == [token |-> None, url |-> u, status |-> "new"]
<1>1. r \in Incident
  BY DEF Incident, Open
<1>2. /\ incidents' \in Seq(Incident)
      /\ Len(incidents') = n + 1
      /\ DOMAIN incidents' = DOMAIN incidents \cup {n + 1}
      /\ \A j \in DOMAIN incidents : incidents'[j] = incidents[j]
      /\ incidents'[n + 1] = r
  <2>1. incidents \in Seq(Incident) /\ incidents' = Append(incidents, r)
    BY DEF Create, IncidentsInv, Tables
  <2>. HIDE DEF r
  <2>2. QED
    BY <1>1, <2>1, NewIncident
<1>3. /\ n \in Nat /\ DOMAIN incidents = 1..n
      /\ UNCHANGED <<findings, revoked, pc, match>>
  BY LenProperties DEF Create, scan, IncidentsInv, Tables
<1>4. Tables'
  BY <1>2, <1>3 DEF Tables, IncidentsInv
<1>5. Agreement'
  BY <1>2, <1>3 DEF Tables, Agreement, About, Leaked, IncidentsInv
<1>6. OneIncidentPerToken' /\ ConfirmedTokenRevoked'
  BY <1>2, <1>3 DEF OneIncidentPerToken, ConfirmedTokenRevoked, IncidentsInv
<1>7. QED
  BY <1>4, <1>5, <1>6 DEF IncidentsInv

LEMMA InvInductive == Created /\ IncidentsInv /\ [Next]_vars => IncidentsInv'
<1>. SUFFICES ASSUME Created, IncidentsInv, [Next]_vars PROVE IncidentsInv'
  OBVIOUS
<1>1. ASSUME NEW h \in Hits, RecordMatch(h) PROVE IncidentsInv'
  BY <1>1, RecordMatchKeepsInv DEF Created
<1>2. ASSUME AutoRevoke PROVE IncidentsInv'
  BY <1>2, AutoRevokeKeepsInv
<1>3. ASSUME NEW i \in DOMAIN incidents, Triage(i) PROVE IncidentsInv'
  BY <1>3, TriageKeepsInv
<1>4. ASSUME NEW u \in Urls \cup {None}, Create(u) PROVE IncidentsInv'
  BY <1>4, CreateKeepsInv
<1>5. ASSUME StartRun \/ EndRun \/ Crash \/ HasReply \/ PostIssueComment \/ RecordReply \/ RespondFails
      PROVE  IncidentsInv'
  BY <1>5, Untouched
  DEF StartRun, EndRun, Crash, HasReply, PostIssueComment, RecordReply, RespondFails, Goto, tables
<1>6. ASSUME NEW o \in Operators,
             \/ \E i \in DOMAIN incidents : StartReply(o, i)
             \/ PostReply(o) \/ RecordOperatorReply(o) \/ ReplyFails(o)
      PROVE  IncidentsInv'
  BY <1>6, Untouched DEF StartReply, PostReply, RecordOperatorReply, ReplyFails, tables, scan
<1>7. ASSUME \/ \E x \in Points \cup Tokens : Revoke(x)
             \/ \E t \in Tokens : AddToken(t)
      PROVE  IncidentsInv'
  BY <1>7, Untouched DEF Revoke, AddToken, scan
<1>8. ASSUME UNCHANGED vars PROVE IncidentsInv'
  BY <1>8, Untouched DEF vars, tables, scan
<1>9. QED
  BY <1>1, <1>2, <1>3, <1>4, <1>5, <1>6, <1>7, <1>8 DEF Next, Answer

LEMMA InvHolds == Spec => [](Created /\ IncidentsInv)
<1>1. Init => Created /\ IncidentsInv
  BY InvInit DEF Init, Created, NoRun
<1>2. QED
  BY <1>1, CreatedInductive, InvInductive, PTL DEF Spec

(* However many hits, scans and operators there are, and however findings are
   upgraded: two open incidents are never about the same token. *)
THEOREM TokensHaveOneIncident == Spec => []OneIncidentPerToken
BY InvHolds, PTL DEF IncidentsInv

(* An incident that is confirmed or resolved, by the checker or an operator,
   has its token revoked. *)
THEOREM ConfirmedTokensAreRevoked == Spec => []ConfirmedTokenRevoked
BY InvHolds, PTL DEF IncidentsInv

-----------------------------------------------------------------------------
(* Every step leaves the table alone, appends to it, or changes the status of
   an open incident. *)
LEMMA IncidentSteps ==
  ASSUME IncidentsInv, [Next]_vars
  PROVE  \/ incidents' = incidents
         \/ \E r : incidents' = Append(incidents, r)
         \/ \E i \in DOMAIN incidents : \E s \in Open \cup Closed :
               incidents[i].status \in Open /\ incidents' = [incidents EXCEPT ![i].status = s]
<1>1. CASE \E h \in Hits : RecordMatch(h)
  BY <1>1 DEF RecordMatch
<1>2. CASE AutoRevoke
  <2>1. match.incident \in DOMAIN incidents
    BY <1>2 DEF AutoRevoke, IncidentsInv, Tables
  <2>2. QED
    BY <1>2, <2>1 DEF AutoRevoke, Open
<1>3. ASSUME NEW i \in DOMAIN incidents, Triage(i)
      PROVE  \E s \in Open \cup Closed :
               incidents[i].status \in Open /\ incidents' = [incidents EXCEPT ![i].status = s]
  BY <1>3 DEF Triage, Confirm, Dismiss, Resolve, Transition, Open, Closed
<1>4. CASE \E u \in Urls \cup {None} : Create(u)
  BY <1>4 DEF Create
<1>5. QED
  BY <1>1, <1>2, <1>3, <1>4
  DEF Next, Answer, vars, tables, StartRun, EndRun, Crash, HasReply, PostIssueComment, RecordReply,
      RespondFails, StartReply, PostReply, RecordOperatorReply, ReplyFails, Revoke, AddToken

(* What an operator dismissed or resolved is never touched again, by no scan
   and by no other operator. *)
THEOREM ClosedIncidentsStay == Spec => ClosedStaysClosed
<1>1. ASSUME IncidentsInv, [Next]_vars,
             NEW i \in DOMAIN incidents, incidents[i].status \in Closed
      PROVE  incidents'[i] = incidents[i]
  <2>1. incidents \in Seq(Incident) /\ i \in 1..Len(incidents) /\ Len(incidents) \in Nat
    BY <1>1, LenProperties DEF IncidentsInv, Tables
  <2>2. CASE \E r : incidents' = Append(incidents, r)
    BY <2>1, <2>2
  <2>3. CASE \E j \in DOMAIN incidents : \E s \in Open \cup Closed :
               incidents[j].status \in Open /\ incidents' = [incidents EXCEPT ![j].status = s]
    <3>1. PICK j \in DOMAIN incidents, s \in Open \cup Closed :
             incidents[j].status \in Open /\ incidents' = [incidents EXCEPT ![j].status = s]
      BY <2>3
    <3>2. j # i
      BY <1>1, <3>1 DEF Open, Closed
    <3>3. QED
      BY <2>1, <3>1, <3>2, StatusChange
  <2>4. QED
    BY <1>1, <2>2, <2>3, IncidentSteps
<1>2. IncidentsInv /\ [Next]_vars
      => [\A i \in DOMAIN incidents :
             incidents[i].status \in Closed => incidents'[i] = incidents[i]]_vars
  BY <1>1
<1>3. QED
  BY <1>2, InvHolds, PTL DEF Spec, ClosedStaysClosed

-----------------------------------------------------------------------------
(* Types, with what makes them last: a comment in progress is about an issue,
   and what AutoRevoke is about to revoke exists. *)
SetTypes ==
    /\ revoked \subseteq Points \cup Tokens
    /\ replies \subseteq Issues /\ comments \in [Issues -> Nat] /\ faults \in Nat

FindingTypes ==
    /\ \A f \in DOMAIN findings : findings[f].conf = "mention" <=> findings[f].incident = 0
    /\ \A f, g \in DOMAIN findings : findings[f].hit = findings[g].hit => f = g

Commenting == {"check", "post", "record"}

MatchTypes ==
    /\ match.hit \in Hits \cup {None} /\ match.incident \in 0..Len(incidents)
    /\ pc \in {"revoke"} \cup Commenting =>
          match.hit \in Hits /\ match.incident # 0 /\ Leaked(match.hit) \in Points \cup Tokens
    /\ pc \in Commenting => match.hit.url \in Issues

ScanTypes ==
    /\ pc \in {"off", "scan", "revoke"} \cup Commenting
    /\ run \in [points : SUBSET Points, tokens : SUBSET Tokens]
    /\ MatchTypes

OpTypes ==
    /\ op \in [Operators -> [step : {"idle", "post", "record"}, url : Issues \cup {None}]]
    /\ \A o \in Operators : op[o].step # "idle" => op[o].url \in Issues

TypeInv == Created /\ IncidentsInv /\ SetTypes /\ FindingTypes /\ ScanTypes /\ OpTypes

LEMMA TypesFollow == TypeInv => TypeOK
<1>. SUFFICES ASSUME TypeInv PROVE TypeOK
  OBVIOUS
<1>1. \A f \in DOMAIN findings : findings[f] \in Finding
  BY ElementOfSeq DEF TypeInv, IncidentsInv, Tables
<1>2. \A f \in DOMAIN findings :
         findings[f].hit \in Hits /\ findings[f].conf \in Confidences
         /\ findings[f].incident \in 0..Len(incidents)
  BY <1>1 DEF Finding, TypeInv, IncidentsInv, Tables
<1>3. QED
  BY <1>2 DEF TypeInv, TypeOK, Created, IncidentsInv, Tables, SetTypes, FindingTypes, ScanTypes,
              MatchTypes, Commenting, OpTypes

LEMMA TypeInvInit == Init => TypeInv
<1>. SUFFICES ASSUME Init PROVE TypeInv
  OBVIOUS
<1>1. Created /\ IncidentsInv
  BY InvInit DEF Init, Created, NoRun
<1>2. SetTypes /\ FindingTypes
  BY DEF Init, SetTypes, FindingTypes
<1>3. ScanTypes
  BY DEF Init, ScanTypes, MatchTypes, Commenting, NoRun, NoMatch
<1>4. OpTypes
  BY DEF Init, OpTypes, Idle
<1>5. QED
  BY <1>1, <1>2, <1>3, <1>4 DEF TypeInv

LEMMA HitType ==
  ASSUME NEW h \in Hits
  PROVE  h.point \in Points /\ h.token \in Tokens \cup {Garbled, None}
BY HitsAssumption

LEMMA IncidentsGrow ==
  ASSUME IncidentsInv, [Next]_vars
  PROVE  Len(incidents) \in Nat /\ Len(incidents') \in Nat /\ Len(incidents) <= Len(incidents')
<1>1. incidents \in Seq(Incident) /\ Len(incidents) \in Nat
  BY LenProperties DEF IncidentsInv, Tables
<1>2. CASE \E r : incidents' = Append(incidents, r)
  BY <1>1, <1>2
<1>3. CASE \E i \in DOMAIN incidents : \E s \in Open \cup Closed :
             incidents' = [incidents EXCEPT ![i].status = s]
  BY <1>1, <1>3, StatusChange
<1>4. QED
  BY <1>1, <1>2, <1>3, IncidentSteps

LEMMA SetTypesNext ==
  ASSUME TypeInv, [Next]_vars
  PROVE  SetTypes'
<1>. USE DEF TypeInv, SetTypes
<1>1. ASSUME UNCHANGED <<replies, comments>>, faults' \in Nat, revoked' \subseteq Points \cup Tokens
      PROVE  SetTypes'
  BY <1>1
<1>2. CASE AutoRevoke
  <2>1. Leaked(match.hit) \in Points \cup Tokens
    BY <1>2 DEF AutoRevoke, ScanTypes, MatchTypes
  <2>2. QED
    BY <1>1, <1>2, <2>1 DEF AutoRevoke
<1>3. CASE PostIssueComment \/ RecordReply \/ RespondFails \/ Crash
  <2>1. pc \in Commenting => match.hit.url \in Issues
    BY DEF ScanTypes, MatchTypes
  <2>2. faults' \in Nat /\ revoked' = revoked
    BY <1>3 DEF PostIssueComment, RecordReply, RespondFails, Crash, Fault, tables
  <2>3. replies' \subseteq Issues
    BY <1>3, <2>1 DEF PostIssueComment, RecordReply, RespondFails, Crash, tables, Commenting
  <2>4. comments' \in [Issues -> Nat]
    BY <1>3, <2>1 DEF PostIssueComment, RecordReply, RespondFails, Crash, Comment, Commenting
  <2>5. QED
    BY <2>2, <2>3, <2>4
<1>4. ASSUME NEW i \in DOMAIN incidents, Triage(i) PROVE SetTypes'
  <2>1. \A f \in DOMAIN findings : findings[f] \in Finding
    BY ElementOfSeq DEF IncidentsInv, Tables
  <2>2. LastPoint(i) \subseteq Points
    BY <2>1, HitType DEF LastPoint, Finding
  <2>3. incidents[i] \in Incident
    BY ElementOfSeq DEF IncidentsInv, Tables
  <2>4. ToRevoke(i) \subseteq Points \cup Tokens
    BY <2>2, <2>3 DEF ToRevoke, Incident
  <2>5. QED
    BY <1>1, <1>4, <2>4 DEF Triage, Confirm, Dismiss, Resolve, Transition
<1>5. ASSUME NEW o \in Operators, PostReply(o) \/ RecordOperatorReply(o) \/ ReplyFails(o)
      PROVE  SetTypes'
  <2>1. op[o].step # "idle" => op[o].url \in Issues
    BY DEF OpTypes
  <2>2. faults' \in Nat /\ revoked' = revoked
    BY <1>5 DEF PostReply, RecordOperatorReply, ReplyFails, Fault, tables
  <2>3. replies' \subseteq Issues
    BY <1>5, <2>1 DEF PostReply, RecordOperatorReply, ReplyFails, tables
  <2>4. comments' \in [Issues -> Nat]
    BY <1>5, <2>1 DEF PostReply, RecordOperatorReply, ReplyFails, Comment
  <2>5. QED
    BY <2>2, <2>3, <2>4
<1>6. ASSUME NEW x \in Points \cup Tokens, Revoke(x) PROVE SetTypes'
  BY <1>1, <1>6 DEF Revoke
<1>7. ASSUME UNCHANGED <<revoked, replies, comments, faults>> PROVE SetTypes'
  BY <1>7
<1>8. QED
  BY <1>2, <1>3, <1>4, <1>5, <1>6, <1>7
  DEF Next, Answer, vars, tables, StartRun, EndRun, RecordMatch, HasReply, Create, StartReply, AddToken

-----------------------------------------------------------------------------
(* A finding belongs to an incident unless it is a mention, and a place has
   one finding. *)
LEMMA RecordMatchFindings ==
  ASSUME TypeInv, NEW h \in Hits, RecordMatch(h)
  PROVE  FindingTypes'
<1>. USE DEF TypeInv, FindingTypes
<1>0. /\ findings \in Seq(Finding) /\ Len(findings) \in Nat /\ DOMAIN findings = 1..Len(findings)
      /\ \A f \in DOMAIN findings : findings[f] \in Finding
  BY LenProperties, ElementOfSeq DEF IncidentsInv, Tables
<1>1. CASE findings' = findings
  BY <1>1
<1>2. ASSUME NEW i \in IncidentsFor(h),
             findings' = IF FindingsOf(h) = {} THEN Append(findings, Recorded(h, i))
                         ELSE [f \in DOMAIN findings |->
                                 IF f \in FindingsOf(h) THEN Recorded(h, i) ELSE findings[f]]
      PROVE  FindingTypes'
  <2>1. Len(incidents) \in Nat /\ DOMAIN incidents = 1..Len(incidents)
    BY LenProperties DEF IncidentsInv, Tables
  <2>2. Confidence(h) = "mention" <=> i = 0
    BY <2>1 DEF IncidentsFor, OpenIncidents
  <2>3. Confidence(h) \in Confidences
    BY DEF Confidence, Confidences
  <2>4. i \in Nat
    BY <2>1 DEF IncidentsFor, OpenIncidents
  <2>5. PICK r : r = Recorded(h, i)
    OBVIOUS
  <2>6. r \in Finding /\ r.hit = h /\ (r.conf = "mention" <=> r.incident = 0)
    BY <2>2, <2>3, <2>4, <2>5 DEF Recorded, Finding
  <2>7. CASE FindingsOf(h) = {}
    <3>1. findings' = Append(findings, r)
      BY <1>2, <2>5, <2>7
    <3>2. /\ DOMAIN findings' = 1..(Len(findings) + 1)
          /\ findings'[Len(findings) + 1] = r
          /\ \A f \in DOMAIN findings : findings'[f] = findings[f]
      BY <1>0, <2>6, <3>1, AppendProperties
    <3>3. \A f \in DOMAIN findings : findings[f].hit # h
      BY <2>7 DEF FindingsOf
    <3>4. QED
      BY <1>0, <2>6, <3>2, <3>3
  <2>8. CASE FindingsOf(h) # {}
    <3>1. findings' = [f \in DOMAIN findings |-> IF f \in FindingsOf(h) THEN r ELSE findings[f]]
      BY <1>2, <2>5, <2>8
    <3>2. \A f \in DOMAIN findings : findings'[f].hit = findings[f].hit
      BY <2>6, <3>1 DEF FindingsOf
    <3>3. DOMAIN findings' = DOMAIN findings
      BY <3>1
    <3>4. \A f \in DOMAIN findings : findings'[f].conf = "mention" <=> findings'[f].incident = 0
      BY <2>6, <3>1
    <3>5. QED
      BY <3>2, <3>3, <3>4
  <2>9. QED
    BY <2>7, <2>8
<1>3. QED
  BY <1>1, <1>2 DEF RecordMatch

LEMMA FindingTypesNext ==
  ASSUME TypeInv, [Next]_vars
  PROVE  FindingTypes'
<1>1. CASE findings' = findings
  BY <1>1 DEF TypeInv, FindingTypes
<1>2. CASE findings' # findings
  <2>1. \E h \in Hits : RecordMatch(h)
    BY <1>2
    DEF Next, vars, tables, Answer, Triage, StartRun, EndRun, AutoRevoke, HasReply, PostIssueComment,
        RecordReply, RespondFails, Crash, Create, Confirm, Dismiss, Resolve, Transition, StartReply,
        PostReply, RecordOperatorReply, ReplyFails, Revoke, AddToken
  <2>2. QED
    BY <2>1, RecordMatchFindings
<1>3. QED
  BY <1>1, <1>2

(* The match a scan acts on stays the same until it is forgotten. *)
LEMMA ScanTypesNext ==
  ASSUME TypeInv, [Next]_vars
  PROVE  ScanTypes'
<1>. USE DEF TypeInv, ScanTypes, MatchTypes
<1>0. Len(incidents) \in Nat /\ Len(incidents') \in Nat /\ Len(incidents) <= Len(incidents')
  BY IncidentsGrow
<1>1. CASE UNCHANGED scan
  BY <1>0, <1>1 DEF scan, Leaked
<1>2. CASE StartRun
  <2>1. run' \in [points : SUBSET Points, tokens : SUBSET Tokens]
    BY <1>2 DEF StartRun, Created
  <2>2. QED
    BY <1>0, <1>2, <2>1 DEF StartRun, NoMatch, Commenting
<1>3. CASE EndRun \/ Crash
  BY <1>0, <1>3 DEF EndRun, Crash, NoRun, NoMatch, Commenting
<1>4. CASE AutoRevoke \/ HasReply \/ PostIssueComment \/ RecordReply \/ RespondFails
  <2>1. run' = run
    BY <1>4 DEF AutoRevoke, HasReply, PostIssueComment, RecordReply, RespondFails
  <2>2. CASE pc' = "scan" /\ match' = NoMatch
    BY <1>0, <2>1, <2>2 DEF NoMatch, Commenting
  <2>3. CASE pc' \in Commenting /\ match' = match /\ pc \in {"revoke"} \cup Commenting
             /\ match.hit.url \in Issues
    BY <1>0, <2>1, <2>3 DEF Commenting, Leaked
  <2>4. QED
    BY <1>4, <2>2, <2>3
    DEF AutoRevoke, AfterRevoke, HasReply, PostIssueComment, RecordReply, RespondFails, Goto, Commenting
<1>5. ASSUME NEW h \in Hits, RecordMatch(h) PROVE ScanTypes'
  <2>1. run' = run /\ pc = "scan"
    BY <1>5 DEF RecordMatch
  <2>2. PICK i : Respond(h, i)
    BY <1>5 DEF RecordMatch
  <2>3. CASE UNCHANGED <<pc, match>>
    BY <1>0, <2>1, <2>3 DEF Commenting
  <2>4. CASE Confidence(h) = "confirmed" /\ i # 0 /\ pc' = "revoke"
             /\ match' = [hit |-> h, incident |-> i]
    <3>1. Leaked(h) \in Points \cup Tokens
      BY <2>4, HitType DEF Confidence, Leaked
    <3>2. IncidentsInv'
      BY InvInductive
    <3>3. i \in 1..Len(incidents')
      BY <2>4, <3>2, LenProperties DEF IncidentsInv, Tables
    <3>4. match'.hit = h /\ match'.incident = i
      BY <2>4
    <3>5. Leaked(match.hit)' = Leaked(h)
      BY <3>4 DEF Leaked
    <3>6. QED
      BY <1>0, <2>1, <2>4, <3>1, <3>3, <3>4, <3>5 DEF Commenting
  <2>5. QED
    BY <2>2, <2>3, <2>4 DEF Respond
<1>6. QED
  BY <1>1, <1>2, <1>3, <1>4, <1>5
  DEF Next, Answer, Triage, vars, Create, Confirm, Dismiss, Resolve, Transition, StartReply,
      PostReply, RecordOperatorReply, ReplyFails, Revoke, AddToken

LEMMA OpTypesNext ==
  ASSUME TypeInv, [Next]_vars
  PROVE  OpTypes'
<1>. USE DEF TypeInv, OpTypes
<1>1. CASE op' = op
  BY <1>1
<1>2. ASSUME NEW o \in Operators, NEW i \in DOMAIN incidents, StartReply(o, i) PROVE OpTypes'
  <2>1. PICK s \in [step : {"idle", "post", "record"}, url : Issues \cup {None}] :
          s = [step |-> "post", url |-> incidents[i].url]
    BY <1>2 DEF StartReply
  <2>2. s.url \in Issues /\ op' = [op EXCEPT ![o] = s]
    BY <1>2, <2>1 DEF StartReply
  <2>3. QED
    BY <2>1, <2>2
<1>3. ASSUME NEW o \in Operators, PostReply(o) PROVE OpTypes'
  <2>1. PICK s : s = [op[o] EXCEPT !.step = "record"]
    OBVIOUS
  <2>2. s \in [step : {"idle", "post", "record"}, url : Issues \cup {None}] /\ s.url = op[o].url
    BY <2>1
  <2>3. op' = [op EXCEPT ![o] = s] /\ op[o].url \in Issues
    BY <1>3, <2>1 DEF PostReply
  <2>4. QED
    BY <2>2, <2>3
<1>4. ASSUME NEW o \in Operators, RecordOperatorReply(o) \/ ReplyFails(o) PROVE OpTypes'
  BY <1>4 DEF RecordOperatorReply, ReplyFails, Idle
<1>5. QED
  BY <1>1, <1>2, <1>3, <1>4
  DEF Next, Answer, Triage, vars, StartRun, EndRun, RecordMatch, AutoRevoke, HasReply, PostIssueComment,
      RecordReply, RespondFails, Crash, Create, Confirm, Dismiss, Resolve, Transition, Revoke, AddToken

LEMMA TypeInvAlways == Spec => []TypeInv
<1>1. TypeInv /\ [Next]_vars => TypeInv'
  BY CreatedInductive, InvInductive, SetTypesNext, FindingTypesNext, ScanTypesNext, OpTypesNext
  DEF TypeInv
<1>2. QED
  BY <1>1, TypeInvInit, PTL DEF Spec

(* Tables, matches and replies in progress keep their types: a finding's
   incident exists, it has none exactly when it is a mention, and no place is
   on record twice (store.go, RecordMatch). *)
THEOREM TypesAlways == Spec => []TypeOK
BY TypeInvAlways, TypesFollow, PTL

-----------------------------------------------------------------------------
(* What a comment in progress is about was revoked before, and nothing that
   was revoked works again. *)
Noticed == pc \in Commenting => Dead(match.hit)

LEMMA NoticedNext ==
  ASSUME TypeInv, Noticed, [Next]_vars
  PROVE  Noticed'
<1>1. ASSUME match' = match, pc' \in Commenting => pc \in Commenting, revoked \subseteq revoked'
      PROVE  Noticed'
  BY <1>1 DEF Noticed, Dead, Leaked
<1>2. CASE AutoRevoke
  BY <1>2 DEF AutoRevoke, AfterRevoke, Goto, Noticed, Dead, Leaked, Commenting
<1>3. CASE \/ StartRun \/ EndRun \/ Crash \/ RespondFails \/ RecordReply
           \/ \E h \in Hits : RecordMatch(h)
  BY <1>3 DEF StartRun, EndRun, Crash, RespondFails, RecordReply, RecordMatch, Respond, Goto,
              Noticed, Commenting
<1>4. CASE HasReply \/ PostIssueComment
  <2>1. pc' \in Commenting => match' = match
    BY <1>4 DEF HasReply, PostIssueComment, Goto, Commenting
  <2>2. pc \in Commenting /\ revoked' = revoked
    BY <1>4 DEF HasReply, PostIssueComment, tables, Commenting
  <2>3. QED
    BY <2>1, <2>2 DEF Noticed, Dead, Leaked
<1>5. QED
  BY <1>1, <1>2, <1>3, <1>4
  DEF Next, Answer, Triage, vars, tables, scan, Create, Confirm, Dismiss, Resolve, Transition, StartReply,
      PostReply, RecordOperatorReply, ReplyFails, Revoke, AddToken

(* Whatever operators do between AutoRevoke and the comment, the link the
   checker's notice is about does not work any more (scanner.go:229).  Replies
   that operators post by hand (incidents.php:44) are not covered. *)
THEOREM CheckerNoticesAreTrue == Spec => NoticeOnlyForDeadLink
<1>1. Init => Noticed
  BY DEF Init, Noticed, Commenting
<1>2. Noticed /\ [Next]_vars => [pc = "post" /\ pc' = "record" => Dead(match.hit)]_vars
  BY DEF Noticed, Commenting
<1>3. QED
  BY <1>1, <1>2, NoticedNext, TypeInvAlways, PTL DEF Spec, NoticeOnlyForDeadLink

-----------------------------------------------------------------------------
(* What AutoRevoke acts on is on record as a confirmed finding. *)
OnRecord(h) == \E f \in DOMAIN findings : findings[f].hit = h /\ findings[f].conf = "confirmed"

Matched ==
    pc = "revoke" =>
        /\ OnRecord(match.hit)
        /\ match.hit.point \in Private => match.hit.token = Leaked(match.hit)

LEMMA RecordMatched ==
  ASSUME TypeInv, NEW h \in Hits, RecordMatch(h)
  PROVE  Matched'
<1>. SUFFICES ASSUME pc' = "revoke" PROVE Matched'
  BY DEF Matched
<1>0. findings \in Seq(Finding) /\ Len(findings) \in Nat /\ DOMAIN findings = 1..Len(findings)
  BY LenProperties DEF TypeInv, IncidentsInv, Tables
<1>1. \A f \in DOMAIN findings : findings[f].conf \in Confidences
  <2>1. \A f \in DOMAIN findings : findings[f] \in Finding
    BY <1>0, ElementOfSeq
  <2>2. QED
    BY <2>1 DEF Finding
<1>2. pc = "scan"
  BY DEF RecordMatch
<1>3. \A i : Respond(h, i) => Confidence(h) = "confirmed" /\ match' = [hit |-> h, incident |-> i]
  BY <1>2 DEF Respond
<1>4. CASE \E f \in FindingsOf(h) :
             /\ ~(Rank(findings[f].conf) < Rank(Confidence(h)))
             /\ Respond(h, KnownIncident(f)) /\ UNCHANGED <<incidents, findings>>
  <2>1. PICK f \in FindingsOf(h) :
             /\ ~(Rank(findings[f].conf) < Rank(Confidence(h)))
             /\ Respond(h, KnownIncident(f)) /\ UNCHANGED <<incidents, findings>>
    BY <1>4
  <2>2. f \in DOMAIN findings /\ findings[f].hit = h
    BY DEF FindingsOf
  <2>3. findings[f].conf = "confirmed"
    BY <1>1, <1>3, <2>1, <2>2 DEF Rank, Confidences
  <2>4. QED
    BY <1>3, <2>1, <2>2, <2>3 DEF Matched, OnRecord, Leaked
<1>5. ASSUME NEW i \in IncidentsFor(h), Respond(h, i),
             findings' = IF FindingsOf(h) = {} THEN Append(findings, Recorded(h, i))
                         ELSE [f \in DOMAIN findings |->
                                 IF f \in FindingsOf(h) THEN Recorded(h, i) ELSE findings[f]]
      PROVE  Matched'
  <2>1. PICK r : r = Recorded(h, i)
    OBVIOUS
  <2>2. r.hit = h /\ r.conf = "confirmed"
    BY <1>3, <1>5, <2>1 DEF Recorded
  <2>3. \E f \in DOMAIN findings' : findings'[f] = r
    <3>1. CASE FindingsOf(h) = {}
      <4>1. findings' = Append(findings, r)
        BY <1>5, <2>1, <3>1
      <4>2. QED
        BY <1>0, <4>1
    <3>2. CASE FindingsOf(h) # {}
      <4>1. PICK f \in DOMAIN findings : f \in FindingsOf(h)
        BY <3>2 DEF FindingsOf
      <4>2. findings' = [g \in DOMAIN findings |-> IF g \in FindingsOf(h) THEN r ELSE findings[g]]
        BY <1>5, <2>1, <3>2
      <4>3. QED
        BY <4>1, <4>2
    <3>3. QED
      BY <3>1, <3>2
  <2>4. match'.hit = h
    BY <1>3, <1>5
  <2>5. QED
    BY <2>2, <2>3, <2>4 DEF Matched, OnRecord, Leaked
<1>6. QED
  BY <1>4, <1>5 DEF RecordMatch

LEMMA MatchedNext ==
  ASSUME TypeInv, Matched, [Next]_vars
  PROVE  Matched'
<1>1. ASSUME UNCHANGED <<pc, match, findings>> PROVE Matched'
  BY <1>1 DEF Matched, OnRecord, Leaked
<1>2. CASE \E h \in Hits : RecordMatch(h)
  BY <1>2, RecordMatched
<1>3. CASE pc' # "revoke"
  BY <1>3 DEF Matched
<1>4. CASE Answer \/ RespondFails \/ Crash \/ StartRun \/ EndRun
  <2>1. pc' # "revoke"
    BY <1>4 DEF Answer, AutoRevoke, AfterRevoke, HasReply, PostIssueComment, RecordReply, RespondFails,
                Crash, StartRun, EndRun, Goto
  <2>2. QED
    BY <1>3, <2>1
<1>5. QED
  BY <1>1, <1>2, <1>4
  DEF Next, Triage, vars, tables, scan, Create, Confirm, Dismiss, Resolve, Transition, StartReply,
      PostReply, RecordOperatorReply, ReplyFails, Revoke, AddToken

-----------------------------------------------------------------------------
(* The token a finding identified; a finding is filed under an incident about
   that token, or about none.  An incident about a token has a finding that
   shows it, and keeps it: confirmed findings are not replaced. *)
Identified(f) ==
    IF findings[f].hit.point \in Private /\ findings[f].conf = "confirmed"
    THEN findings[f].hit.token ELSE None

FiledFinding(f) ==
    /\ findings[f].incident # 0 => incidents[findings[f].incident].token = Identified(f)
    /\ findings[f].hit.point \notin Private => findings[f].conf = "confirmed"
    /\ findings[f].hit.point \in Private /\ findings[f].conf = "confirmed" => findings[f].hit.token # None

Shown(i) ==
    incidents[i].token # None =>
        \E f \in DOMAIN findings :
            findings[f].conf = "confirmed" /\ findings[f].hit.token = incidents[i].token

Filed ==
    /\ \A f \in DOMAIN findings : FiledFinding(f)
    /\ \A i \in DOMAIN incidents : Shown(i)

(* Classify and the token it matched agree. *)
LEMMA Classified ==
  ASSUME NEW h \in Hits, run.tokens \subseteq Tokens
  PROVE  /\ h.point \notin Private => Confidence(h) = "confirmed" /\ MatchedToken(h) = None
         /\ h.point \in Private /\ Confidence(h) = "confirmed" => MatchedToken(h) = h.token /\ h.token # None
         /\ h.point \in Private /\ Confidence(h) # "confirmed" => MatchedToken(h) = None
BY NamesAssumption DEF Confidence, MatchedToken

LEMMA NewFinding ==
  ASSUME findings \in Seq(Finding), NEW r \in Finding, findings' = Append(findings, r)
  PROVE  /\ DOMAIN findings' = 1..(Len(findings) + 1)
         /\ findings'[Len(findings) + 1] = r
         /\ \A f \in DOMAIN findings : findings'[f] = findings[f]
BY AppendProperties, LenProperties

(* What RecordMatch does to the tables, if anything. *)
LEMMA Filing ==
  ASSUME TypeInv, NEW h \in Hits, RecordMatch(h), ~UNCHANGED <<incidents, findings>>
  PROVE  \E i \in Nat :
           /\ i # 0 => incidents'[i].token = MatchedToken(h)
           /\ DOMAIN incidents' \subseteq DOMAIN incidents \cup {i}
           /\ \A j \in DOMAIN incidents : incidents'[j] = incidents[j]
           /\ \E f \in DOMAIN findings' : findings'[f] = Recorded(h, i)
           /\ \A f \in DOMAIN findings' :
                 findings'[f] = Recorded(h, i) \/ (f \in DOMAIN findings /\ findings'[f] = findings[f])
           /\ \A f \in DOMAIN findings :
                 findings[f].conf = "confirmed" => f \in DOMAIN findings' /\ findings'[f] = findings[f]
<1>0. /\ incidents \in Seq(Incident) /\ Len(incidents) \in Nat /\ DOMAIN incidents = 1..Len(incidents)
      /\ findings \in Seq(Finding) /\ Len(findings) \in Nat /\ DOMAIN findings = 1..Len(findings)
  BY LenProperties DEF TypeInv, IncidentsInv, Tables
<1>1. /\ \A f \in FindingsOf(h) : Rank(findings[f].conf) < Rank(Confidence(h))
      /\ \E i \in IncidentsFor(h) :
            /\ incidents' = IF i <= Len(incidents) THEN incidents
                            ELSE Append(incidents,
                                   [token |-> MatchedToken(h), url |-> h.url,
                                    status |-> IF Confidence(h) = "confirmed" THEN "probable" ELSE "new"])
            /\ findings' = IF FindingsOf(h) = {} THEN Append(findings, Recorded(h, i))
                           ELSE [f \in DOMAIN findings |->
                                   IF f \in FindingsOf(h) THEN Recorded(h, i) ELSE findings[f]]
  BY DEF RecordMatch
<1>2. PICK i \in IncidentsFor(h) :
            /\ incidents' = IF i <= Len(incidents) THEN incidents
                            ELSE Append(incidents,
                                   [token |-> MatchedToken(h), url |-> h.url,
                                    status |-> IF Confidence(h) = "confirmed" THEN "probable" ELSE "new"])
            /\ findings' = IF FindingsOf(h) = {} THEN Append(findings, Recorded(h, i))
                           ELSE [f \in DOMAIN findings |->
                                   IF f \in FindingsOf(h) THEN Recorded(h, i) ELSE findings[f]]
  BY <1>1
<1>3. i \in 0..(Len(incidents) + 1)
  BY <1>0 DEF IncidentsFor, OpenIncidents
<1>4. h.url \in Urls
  BY DEF Urls
<1>5. Confidence(h) \in Confidences
  BY DEF Confidence, Confidences
<1>6. MatchedToken(h) \in Tokens \cup {None}
  BY MatchedTokenType DEF TypeInv, Created
<1>7. /\ i # 0 => incidents'[i].token = MatchedToken(h)
      /\ DOMAIN incidents' \subseteq DOMAIN incidents \cup {i}
      /\ \A j \in DOMAIN incidents : incidents'[j] = incidents[j]
  <2>1. CASE i <= Len(incidents)
    <3>1. incidents' = incidents
      BY <1>2, <2>1
    <3>2. i # 0 => incidents[i].token = MatchedToken(h)
      BY <1>0, <1>3, <2>1, IncidentsForMatch DEF TypeInv, IncidentsInv
    <3>3. QED
      BY <3>1, <3>2
  <2>2. CASE i = Len(incidents) + 1
    <3>1. PICK r : r = [token |-> MatchedToken(h), url |-> h.url,
                        status |-> IF Confidence(h) = "confirmed" THEN "probable" ELSE "new"]
      OBVIOUS
    <3>2. r.token = MatchedToken(h) /\ r \in Incident
      BY <1>4, <1>6, <3>1 DEF Incident, Open
    <3>3. ~(i <= Len(incidents))
      BY <1>0, <2>2
    <3>4. incidents' = Append(incidents, r)
      BY <1>2, <3>1, <3>3
    <3>5. /\ DOMAIN incidents' = DOMAIN incidents \cup {Len(incidents) + 1}
          /\ \A j \in DOMAIN incidents : incidents'[j] = incidents[j]
          /\ incidents'[Len(incidents) + 1] = r
      BY <1>0, <3>2, <3>4, NewIncident
    <3>6. QED
      BY <2>2, <3>2, <3>5
  <2>3. QED
    BY <1>0, <1>3, <2>1, <2>2
<1>8. PICK r : r = Recorded(h, i)
  OBVIOUS
<1>9. /\ \E f \in DOMAIN findings' : findings'[f] = r
      /\ \A f \in DOMAIN findings' :
            findings'[f] = r \/ (f \in DOMAIN findings /\ findings'[f] = findings[f])
      /\ \A f \in DOMAIN findings \ FindingsOf(h) : f \in DOMAIN findings' /\ findings'[f] = findings[f]
  <2>1. CASE FindingsOf(h) = {}
    <3>1. findings' = Append(findings, r)
      BY <1>2, <1>8, <2>1
    <3>2. r \in Finding
      BY <1>3, <1>8, <1>5 DEF Recorded, Finding
    <3>3. /\ DOMAIN findings' = 1..(Len(findings) + 1)
          /\ findings'[Len(findings) + 1] = r
          /\ \A f \in DOMAIN findings : findings'[f] = findings[f]
      BY <1>0, <3>1, <3>2, NewFinding
    <3>4. QED
      BY <1>0, <3>3
  <2>2. CASE FindingsOf(h) # {}
    <3>1. PICK f \in DOMAIN findings : f \in FindingsOf(h)
      BY <2>2 DEF FindingsOf
    <3>2. findings' = [g \in DOMAIN findings |-> IF g \in FindingsOf(h) THEN r ELSE findings[g]]
      BY <1>2, <1>8, <2>2
    <3>3. QED
      BY <3>1, <3>2
  <2>3. QED
    BY <2>1, <2>2
<1>10. ASSUME NEW f \in FindingsOf(h) PROVE findings[f].conf # "confirmed"
  BY <1>1, <1>5, <1>10 DEF Rank, Confidences
<1>11. QED
  BY <1>3, <1>7, <1>8, <1>9, <1>10

LEMMA RecordFiled ==
  ASSUME TypeInv, Filed, NEW h \in Hits, RecordMatch(h)
  PROVE  Filed'
<1>1. CASE UNCHANGED <<incidents, findings>>
  BY <1>1 DEF Filed, FiledFinding, Identified, Shown
<1>2. CASE ~UNCHANGED <<incidents, findings>>
  <2>0. run.tokens \subseteq Tokens
    BY DEF TypeInv, Created
  <2>1. PICK i \in Nat :
           /\ i # 0 => incidents'[i].token = MatchedToken(h)
           /\ DOMAIN incidents' \subseteq DOMAIN incidents \cup {i}
           /\ \A j \in DOMAIN incidents : incidents'[j] = incidents[j]
           /\ \E f \in DOMAIN findings' : findings'[f] = Recorded(h, i)
           /\ \A f \in DOMAIN findings' :
                 findings'[f] = Recorded(h, i) \/ (f \in DOMAIN findings /\ findings'[f] = findings[f])
           /\ \A f \in DOMAIN findings :
                 findings[f].conf = "confirmed" => f \in DOMAIN findings' /\ findings'[f] = findings[f]
    BY <1>2, Filing
  <2>2. PICK r : r = Recorded(h, i)
    OBVIOUS
  <2>3. r.hit = h /\ r.conf = Confidence(h) /\ r.incident = i
    BY <2>2 DEF Recorded
  <2>4. ASSUME NEW f \in DOMAIN findings' PROVE FiledFinding(f)'
    <3>1. CASE findings'[f] = r
      BY <2>0, <2>1, <2>3, <3>1, Classified DEF FiledFinding, Identified
    <3>2. CASE f \in DOMAIN findings /\ findings'[f] = findings[f]
      <4>1. findings[f].incident # 0 => findings[f].incident \in DOMAIN incidents
        BY <3>2, LenProperties DEF TypeInv, IncidentsInv, Tables
      <4>2. FiledFinding(f)
        BY <3>2 DEF Filed
      <4>3. QED
        BY <2>1, <3>2, <4>1, <4>2 DEF FiledFinding, Identified
    <3>3. QED
      BY <2>1, <2>2, <3>1, <3>2
  <2>5. ASSUME NEW j \in DOMAIN incidents' PROVE Shown(j)'
    <3>1. CASE j \in DOMAIN incidents
      <4>1. Shown(j) /\ incidents'[j] = incidents[j]
        BY <2>1, <3>1 DEF Filed
      <4>2. QED
        BY <2>1, <4>1 DEF Shown
    <3>2. CASE j = i /\ j # 0
      <4>1. incidents'[j].token = MatchedToken(h)
        BY <2>1, <3>2
      <4>2. MatchedToken(h) # None => r.conf = "confirmed" /\ r.hit.token = MatchedToken(h)
        BY <2>0, <2>3, Classified
      <4>3. PICK f \in DOMAIN findings' : findings'[f] = r
        BY <2>1, <2>2
      <4>4. QED
        BY <4>1, <4>2, <4>3 DEF Shown
    <3>3. j # 0
      <4>1. incidents' \in Seq(Incident)
        BY InvInductive DEF TypeInv, IncidentsInv, Tables, Next
      <4>2. QED
        BY <4>1, LenProperties
    <3>4. QED
      BY <2>1, <3>1, <3>2, <3>3
  <2>6. QED
    BY <2>4, <2>5 DEF Filed
<1>3. QED
  BY <1>1, <1>2

(* Triage changes no token, and an incident recorded by hand has none. *)
LEMMA FiledKept ==
  ASSUME TypeInv, Filed, UNCHANGED findings,
         \A j \in DOMAIN incidents : j \in DOMAIN incidents' /\ incidents'[j].token = incidents[j].token,
         \A j \in DOMAIN incidents' \ DOMAIN incidents : incidents'[j].token = None
  PROVE  Filed'
<1>1. \A f \in DOMAIN findings : findings[f].incident # 0 => findings[f].incident \in DOMAIN incidents
  BY LenProperties DEF TypeInv, IncidentsInv, Tables
<1>2. QED
  BY <1>1 DEF Filed, FiledFinding, Identified, Shown

LEMMA FiledNext ==
  ASSUME TypeInv, Filed, [Next]_vars
  PROVE  Filed'
<1>0. incidents \in Seq(Incident) /\ Len(incidents) \in Nat /\ DOMAIN incidents = 1..Len(incidents)
  BY LenProperties DEF TypeInv, IncidentsInv, Tables
<1>1. CASE \E h \in Hits : RecordMatch(h)
  BY <1>1, RecordFiled
<1>2. CASE \E u \in Urls \cup {None} : Create(u)
  <2>1. PICK r : incidents' = Append(incidents, r) /\ r.token = None
    BY <1>2 DEF Create
  <2>2. UNCHANGED findings
    BY <1>2 DEF Create
  <2>3. QED
    BY <1>0, <2>1, <2>2, FiledKept
<1>3. CASE UNCHANGED <<incidents, findings>>
  BY <1>3, FiledKept
<1>4. ASSUME NEW i \in DOMAIN incidents, NEW s \in Open \cup Closed,
             incidents' = [incidents EXCEPT ![i].status = s], UNCHANGED findings
      PROVE  Filed'
  <2>1. /\ DOMAIN incidents' = DOMAIN incidents
        /\ \A j \in DOMAIN incidents : incidents'[j].token = incidents[j].token
    BY <1>0, <1>4, StatusChange
  <2>2. QED
    BY <1>4, <2>1, FiledKept
<1>5. CASE AutoRevoke
  <2>1. match.incident \in DOMAIN incidents
    BY <1>5 DEF AutoRevoke, TypeInv, IncidentsInv, Tables
  <2>2. "confirmed" \in Open \cup Closed
    BY DEF Open
  <2>3. QED
    BY <1>3, <1>4, <1>5, <2>1, <2>2 DEF AutoRevoke
<1>6. ASSUME NEW i \in DOMAIN incidents, Triage(i) PROVE Filed'
  <2>1. \E s \in Open \cup Closed : incidents' = [incidents EXCEPT ![i].status = s]
    BY <1>6 DEF Triage, Confirm, Dismiss, Resolve, Transition, Open, Closed
  <2>2. UNCHANGED findings
    BY <1>6 DEF Triage, Confirm, Dismiss, Resolve, Transition
  <2>3. QED
    BY <1>4, <2>1, <2>2
<1>7. QED
  BY <1>1, <1>2, <1>3, <1>5, <1>6
  DEF Next, Answer, vars, tables, StartRun, EndRun, Crash, HasReply, PostIssueComment, RecordReply,
      RespondFails, StartReply, PostReply, RecordOperatorReply, ReplyFails, Revoke, AddToken

(* A scan takes nothing but a token that leaked, or a public access point
   whose link did, and that leak is on record as confirmed (actions.go:24).  An
   operator who confirms an incident takes the same, or a private access point
   in a probable finding of this incident, in which no token was recognised
   (incidents.php:117-134).  Everything else was revoked on the stream's
   page. *)
THEOREM NothingElseRevoked == Spec => OnlyLeakedRevoked
<1>. DEFINE Shows(f, x) ==
         \/ /\ findings[f].conf = "confirmed"
            /\ \/ findings[f].hit.token = x
               \/ findings[f].hit.point = x /\ x \notin Private
         \/ /\ findings[f].conf = "probable" /\ findings[f].hit.point = x
            /\ Confirm(findings[f].incident)
<1>1. Init => Matched /\ Filed
  BY DEF Init, Matched, Filed
<1>2. ASSUME TypeInv, Matched, Filed, Next, NEW x \in revoked' \ revoked
      PROVE  Revoke(x) \/ \E f \in DOMAIN findings : Shows(f, x)
  <2>1. CASE AutoRevoke
    <3>1. x = Leaked(match.hit)
      BY <1>2, <2>1 DEF AutoRevoke
    <3>2. PICK f \in DOMAIN findings : findings[f].hit = match.hit /\ findings[f].conf = "confirmed"
      BY <1>2, <2>1 DEF AutoRevoke, Matched, OnRecord
    <3>3. QED
      BY <3>1, <3>2 DEF Leaked
  <2>2. ASSUME NEW i \in DOMAIN incidents, Confirm(i)
        PROVE  \E f \in DOMAIN findings : Shows(f, x)
    <3>1. x \in ToRevoke(i)
      BY <1>2, <2>2 DEF Confirm
    <3>2. CASE incidents[i].token # None
      BY <1>2, <3>1, <3>2 DEF ToRevoke, Filed, Shown
    <3>3. CASE incidents[i].token = None
      <4>1. PICK f \in DOMAIN findings : findings[f].incident = i /\ findings[f].hit.point = x
        BY <3>1, <3>3 DEF ToRevoke, LastPoint
      <4>2. i # 0 /\ findings[f].conf \in Confidences
        <5>1. findings \in Seq(Finding) /\ incidents \in Seq(Incident)
          BY <1>2 DEF TypeInv, IncidentsInv, Tables
        <5>2. findings[f] \in Finding
          BY <5>1, ElementOfSeq
        <5>3. i \in 1..Len(incidents)
          BY <5>1, LenProperties
        <5>4. QED
          BY <5>2, <5>3 DEF Finding
      <4>3. FiledFinding(f) /\ findings[f].conf # "mention"
        BY <1>2, <4>1, <4>2 DEF Filed, TypeInv, FindingTypes
      <4>4. QED
        BY <2>2, <3>3, <4>1, <4>2, <4>3 DEF FiledFinding, Identified, Confidences
    <3>4. QED
      BY <3>2, <3>3
  <2>3. ASSUME NEW y \in Points \cup Tokens, Revoke(y) PROVE Revoke(x)
    BY <1>2, <2>3 DEF Revoke
  <2>4. QED
    BY <1>2, <2>1, <2>2, <2>3
    DEF Next, Answer, Triage, tables, StartRun, EndRun, RecordMatch, HasReply, PostIssueComment,
        RecordReply, RespondFails, Crash, Create, Dismiss, Resolve, StartReply, PostReply,
        RecordOperatorReply, ReplyFails, AddToken
<1>3. TypeInv /\ Matched /\ Filed /\ [Next]_vars
      => [\A x \in revoked' \ revoked :
            \/ Revoke(x)
            \/ \E f \in DOMAIN findings :
                  \/ /\ findings[f].conf = "confirmed"
                     /\ \/ findings[f].hit.token = x
                        \/ findings[f].hit.point = x /\ x \notin Private
                  \/ /\ findings[f].conf = "probable" /\ findings[f].hit.point = x
                     /\ Confirm(findings[f].incident)]_vars
  BY <1>2
<1>4. QED
  BY <1>1, <1>3, MatchedNext, FiledNext, TypeInvAlways, PTL DEF Spec, OnlyLeakedRevoked

-----------------------------------------------------------------------------
(* Who is about to comment on an issue, and who did but has not recorded it. *)
Posting(u)   == {o \in Operators : op[o].step = "post" /\ op[o].url = u}
Recording(u) == {o \in Operators : op[o].step = "record" /\ op[o].url = u}
ScanAt(l, u) == IF pc = l /\ match.hit.url = u THEN 1 ELSE 0

(* Before a reply is on record every comment is one that somebody is about to
   record, or that a fault lost; afterwards nobody joins those who post. *)
Tally(u) ==
    /\ u \notin replies => comments[u] <= faults + Cardinality(Recording(u)) + ScanAt("record", u)
    /\ u \in replies =>
          comments[u] + Cardinality(Posting(u)) + ScanAt("post", u) <= faults + Cardinality(Operators) + 1

LEMMA Counts ==
  ASSUME NEW S \in SUBSET Operators, NEW T \in SUBSET Operators, NEW o \in Operators
  PROVE  /\ Cardinality(S) \in Nat /\ Cardinality(Operators) \in Nat
         /\ S \subseteq T => Cardinality(S) <= Cardinality(T)
         /\ S \subseteq T \cup {o} => Cardinality(S) <= Cardinality(T) + 1
         /\ o \in T /\ S \subseteq T \ {o} => Cardinality(S) + 1 <= Cardinality(T)
         /\ S \cap T = {} => Cardinality(S) + Cardinality(T) <= Cardinality(Operators)
<1>1. /\ IsFiniteSet(S) /\ IsFiniteSet(T) /\ IsFiniteSet(Operators)
      /\ Cardinality(S) \in Nat /\ Cardinality(T) \in Nat /\ Cardinality(Operators) \in Nat
  BY OperatorsAssumption, FS_Subset, FS_CardinalityType
<1>2. S \subseteq T => Cardinality(S) <= Cardinality(T)
  BY <1>1, FS_Subset
<1>3. /\ IsFiniteSet(T \cup {o}) /\ Cardinality(T \cup {o}) \in Nat
      /\ Cardinality(T \cup {o}) <= Cardinality(T) + 1
  <2>1. IsFiniteSet(T \cup {o})
    BY <1>1, FS_AddElement
  <2>2. Cardinality(T \cup {o}) = IF o \in T THEN Cardinality(T) ELSE Cardinality(T) + 1
    BY <1>1, FS_AddElement
  <2>3. QED
    BY <1>1, <2>1, <2>2
<1>4. S \subseteq T \cup {o} => Cardinality(S) <= Cardinality(T) + 1
  <2>1. S \subseteq T \cup {o} => Cardinality(S) <= Cardinality(T \cup {o})
    BY <1>3, FS_Subset
  <2>2. QED
    BY <1>1, <1>3, <2>1
<1>5. ASSUME o \in T, S \subseteq T \ {o} PROVE Cardinality(S) + 1 <= Cardinality(T)
  <2>1. IsFiniteSet(T \ {o}) /\ Cardinality(T \ {o}) = Cardinality(T) - 1
    BY <1>1, <1>5, FS_RemoveElement
  <2>2. Cardinality(S) <= Cardinality(T \ {o})
    BY <1>5, <2>1, FS_Subset
  <2>3. QED
    BY <1>1, <2>1, <2>2
<1>6. ASSUME S \cap T = {} PROVE Cardinality(S) + Cardinality(T) <= Cardinality(Operators)
  <2>1. Cardinality(S \cup T) = Cardinality(S) + Cardinality(T)
    <3>1. Cardinality(S \cap T) = 0
      BY <1>6, FS_EmptySet
    <3>2. Cardinality(S \cup T) = Cardinality(S) + Cardinality(T) - Cardinality(S \cap T)
      BY <1>1, FS_Union
    <3>3. QED
      BY <1>1, <3>1, <3>2
  <2>2. Cardinality(S \cup T) <= Cardinality(Operators)
    BY <1>1, FS_Subset
  <2>3. QED
    BY <2>1, <2>2
<1>7. QED
  BY <1>1, <1>2, <1>4, <1>5, <1>6

LEMMA TallyTypes ==
  ASSUME TypeInv, NEW u \in Issues
  PROVE  /\ comments[u] \in Nat /\ faults \in Nat /\ Cardinality(Operators) \in Nat
         /\ Posting(u) \in SUBSET Operators /\ Recording(u) \in SUBSET Operators
         /\ Cardinality(Posting(u)) \in Nat /\ Cardinality(Recording(u)) \in Nat
         /\ Cardinality(Posting(u)) + Cardinality(Recording(u)) <= Cardinality(Operators)
         /\ ScanAt("post", u) \in 0..1 /\ ScanAt("record", u) \in 0..1
         /\ ScanAt("post", u) + ScanAt("record", u) <= 1
<1>1. /\ Posting(u) \in SUBSET Operators /\ Recording(u) \in SUBSET Operators
      /\ Posting(u) \cap Recording(u) = {}
  BY DEF Posting, Recording
<1>2. Cardinality({}) = 0 /\ IsFiniteSet(Operators)
  BY FS_EmptySet, OperatorsAssumption
<1>3. /\ Cardinality(Posting(u)) \in Nat /\ Cardinality(Recording(u)) \in Nat
      /\ Cardinality(Posting(u)) + Cardinality(Recording(u)) <= Cardinality(Operators)
      /\ Cardinality(Operators) \in Nat
  <2>1. CASE Operators = {}
    BY <1>1, <1>2, <2>1
  <2>2. CASE Operators # {}
    BY <1>1, <2>2, Counts
  <2>3. QED
    BY <2>1, <2>2
<1>4. comments[u] \in Nat /\ faults \in Nat
  BY DEF TypeInv, SetTypes
<1>5. /\ ScanAt("post", u) \in 0..1 /\ ScanAt("record", u) \in 0..1
      /\ ScanAt("post", u) + ScanAt("record", u) <= 1
  BY DEF ScanAt
<1>6. QED
  BY <1>1, <1>3, <1>4, <1>5

(* The scan's part. *)
LEMMA ScanTally ==
  ASSUME TypeInv, TypeInv', NEW u \in Issues, Tally(u), op' = op,
         \/ HasReply \/ PostIssueComment \/ RecordReply \/ RespondFails \/ Crash
  PROVE  Tally(u)'
<1>1. Posting(u)' = Posting(u) /\ Recording(u)' = Recording(u)
  BY DEF Posting, Recording
<1>2. match.hit.url \in Issues \/ pc \notin Commenting
  BY DEF TypeInv, ScanTypes, MatchTypes
<1>3. comments \in [Issues -> Nat]
  BY DEF TypeInv, SetTypes
<1>4. CASE HasReply
  <2>1. UNCHANGED <<replies, comments, faults>> /\ pc = "check" /\ pc' \in {"post", "scan"}
    BY <1>4 DEF HasReply, tables, Goto
  <2>2. ScanAt("record", u) = 0 /\ ScanAt("record", u)' = 0
    BY <2>1 DEF ScanAt
  <2>3. u \in replies => ScanAt("post", u)' = 0
    BY <1>4, <2>1 DEF HasReply, Goto, ScanAt
  <2>4. QED
    BY <1>1, <2>1, <2>2, <2>3, TallyTypes DEF Tally
<1>5. CASE PostIssueComment
  <2>1. /\ UNCHANGED <<replies, faults>> /\ pc = "post" /\ pc' = "record" /\ match' = match
        /\ comments' = [comments EXCEPT ![match.hit.url] = @ + 1]
    BY <1>5 DEF PostIssueComment, tables, Goto, Comment
  <2>2. CASE match.hit.url = u
    <3>1. /\ ScanAt("post", u) = 1 /\ ScanAt("post", u)' = 0
          /\ ScanAt("record", u) = 0 /\ ScanAt("record", u)' = 1
      BY <2>1, <2>2 DEF ScanAt
    <3>2. comments'[u] = comments[u] + 1
      BY <1>3, <2>1, <2>2
    <3>3. QED
      BY <1>1, <2>1, <3>1, <3>2, TallyTypes DEF Tally
  <2>3. CASE match.hit.url # u
    <3>1. /\ ScanAt("post", u) = 0 /\ ScanAt("post", u)' = 0
          /\ ScanAt("record", u) = 0 /\ ScanAt("record", u)' = 0
      BY <2>1, <2>3 DEF ScanAt
    <3>2. comments'[u] = comments[u]
      BY <1>3, <2>1, <2>3
    <3>3. QED
      BY <1>1, <2>1, <3>1, <3>2 DEF Tally
  <2>4. QED
    BY <2>2, <2>3
<1>6. CASE RecordReply
  <2>1. /\ UNCHANGED <<comments, faults>> /\ pc = "record" /\ pc' = "scan"
        /\ replies' = replies \cup {match.hit.url}
    BY <1>6 DEF RecordReply, Goto
  <2>2. ScanAt("post", u) = 0 /\ ScanAt("post", u)' = 0 /\ ScanAt("record", u)' = 0
    BY <2>1 DEF ScanAt
  <2>3. u \notin replies' => ScanAt("record", u) = 0
    BY <2>1 DEF ScanAt
  <2>4. QED
    BY <1>1, <2>1, <2>2, <2>3, TallyTypes DEF Tally
<1>7. CASE RespondFails \/ Crash
  <2>1. replies' = replies /\ faults' = faults + 1 /\ pc' \in {"scan", "off"}
    BY <1>7 DEF RespondFails, Crash, Fault, tables, Goto
  <2>2. ScanAt("post", u)' = 0 /\ ScanAt("record", u)' = 0
    BY <2>1 DEF ScanAt
  <2>3. CASE comments' = comments
    BY <1>1, <2>1, <2>2, <2>3, TallyTypes DEF Tally
  <2>4. CASE pc = "post" /\ comments' = [comments EXCEPT ![match.hit.url] = @ + 1]
    <3>1. CASE match.hit.url = u
      <4>1. ScanAt("post", u) = 1 /\ ScanAt("record", u) = 0 /\ comments'[u] = comments[u] + 1
        BY <1>3, <2>4, <3>1 DEF ScanAt
      <4>2. QED
        BY <1>1, <2>1, <2>2, <4>1, TallyTypes DEF Tally
    <3>2. CASE match.hit.url # u
      <4>1. ScanAt("post", u) = 0 /\ ScanAt("record", u) = 0 /\ comments'[u] = comments[u]
        BY <1>3, <2>4, <3>2 DEF ScanAt
      <4>2. QED
        BY <1>1, <2>1, <2>2, <4>1, TallyTypes DEF Tally
    <3>3. QED
      BY <3>1, <3>2
  <2>5. QED
    BY <1>7, <2>3, <2>4 DEF RespondFails, Crash, Comment, tables
<1>8. QED
  BY <1>4, <1>5, <1>6, <1>7

(* The operators' part. *)
LEMMA OperatorTally ==
  ASSUME TypeInv, TypeInv', NEW u \in Issues, Tally(u), UNCHANGED <<pc, match>>, NEW o \in Operators,
         \/ \E i \in DOMAIN incidents : StartReply(o, i)
         \/ PostReply(o) \/ RecordOperatorReply(o) \/ ReplyFails(o)
  PROVE  Tally(u)'
<1>. DEFINE P == Posting(u)
            R == Recording(u)
<1>0. /\ ScanAt("post", u)' = ScanAt("post", u) /\ ScanAt("record", u)' = ScanAt("record", u)
      /\ op \in [Operators -> [step : {"idle", "post", "record"}, url : Issues \cup {None}]]
      /\ comments \in [Issues -> Nat]
  BY DEF ScanAt, TypeInv, OpTypes, SetTypes
<1>1. P \in SUBSET Operators /\ R \in SUBSET Operators /\ P' \in SUBSET Operators /\ R' \in SUBSET Operators
  BY DEF Posting, Recording
<1>a. /\ Cardinality(P) \in Nat /\ Cardinality(R) \in Nat
      /\ Cardinality(P') \in Nat /\ Cardinality(R') \in Nat
  BY <1>1, Counts
<1>2. ASSUME NEW s, op' = [op EXCEPT ![o] = s]
      PROVE  /\ P' \ {o} = P \ {o} /\ R' \ {o} = R \ {o}
             /\ o \in P' <=> s.step = "post" /\ s.url = u
             /\ o \in R' <=> s.step = "record" /\ s.url = u
  BY <1>0, <1>2 DEF Posting, Recording
<1>3. o \in P <=> op[o].step = "post" /\ op[o].url = u
  BY DEF Posting
<1>4. o \in R <=> op[o].step = "record" /\ op[o].url = u
  BY DEF Recording
<1>b. Tally(u) <=>
        /\ u \notin replies => comments[u] <= faults + Cardinality(R) + ScanAt("record", u)
        /\ u \in replies =>
              comments[u] + Cardinality(P) + ScanAt("post", u) <= faults + Cardinality(Operators) + 1
  BY DEF Tally
<1>c. Tally(u)' <=>
        /\ u \notin replies' => comments'[u] <= faults' + Cardinality(R') + ScanAt("record", u)'
        /\ u \in replies' =>
              comments'[u] + Cardinality(P') + ScanAt("post", u)' <= faults' + Cardinality(Operators) + 1
  BY DEF Tally
<1>d. /\ comments[u] \in Nat /\ faults \in Nat /\ Cardinality(Operators) \in Nat
      /\ Cardinality(P) + Cardinality(R) <= Cardinality(Operators)
      /\ ScanAt("post", u) \in 0..1 /\ ScanAt("record", u) \in 0..1
      /\ ScanAt("post", u) + ScanAt("record", u) <= 1
  BY TallyTypes
<1>e. Idle.step = "idle"
  BY DEF Idle
<1>. HIDE DEF P, R
<1>5. CASE \E i \in DOMAIN incidents : StartReply(o, i)
  <2>1. PICK v \in Issues \ replies : op' = [op EXCEPT ![o] = [step |-> "post", url |-> v]]
    BY <1>5 DEF StartReply
  <2>2. UNCHANGED <<replies, comments, faults>> /\ op[o].step = "idle"
    BY <1>5 DEF StartReply, tables, Idle
  <2>3. /\ P' \ {o} = P \ {o} /\ R' \ {o} = R \ {o}
        /\ o \in P' <=> v = u
        /\ o \notin R' /\ o \notin P /\ o \notin R
    <3>1. PICK s : s = [step |-> "post", url |-> v]
      OBVIOUS
    <3>2. s.step = "post" /\ s.url = v /\ op' = [op EXCEPT ![o] = s]
      BY <2>1, <3>1
    <3>3. QED
      BY <1>2, <1>3, <1>4, <2>2, <3>2
  <2>4. R' = R /\ (u \in replies => P' = P)
    BY <2>1, <2>3
  <2>5. QED
    BY <1>0, <1>b, <1>c, <2>2, <2>4
<1>6. CASE PostReply(o)
  <2>1. /\ op[o].step = "post" /\ UNCHANGED <<replies, faults>>
        /\ comments' = [comments EXCEPT ![op[o].url] = @ + 1]
        /\ op' = [op EXCEPT ![o] = [op[o] EXCEPT !.step = "record"]]
    BY <1>6 DEF PostReply, Comment, tables
  <2>2. [op[o] EXCEPT !.step = "record"].step = "record" /\ [op[o] EXCEPT !.step = "record"].url = op[o].url
    BY <1>0
  <2>3. /\ P' \ {o} = P \ {o} /\ R' \ {o} = R \ {o}
        /\ o \notin P' /\ o \notin R
        /\ o \in R' <=> op[o].url = u
        /\ o \in P <=> op[o].url = u
    BY <1>2, <1>3, <1>4, <2>1, <2>2
  <2>4. CASE op[o].url = u
    <3>1. comments'[u] = comments[u] + 1
      BY <1>0, <2>1, <2>4
    <3>2. P' \subseteq P \ {o} /\ o \in P /\ R \subseteq R' \ {o} /\ o \in R'
      BY <2>3, <2>4
    <3>3. Cardinality(P') + 1 <= Cardinality(P) /\ Cardinality(R) + 1 <= Cardinality(R')
      BY <1>1, <3>2, Counts
    <3>4. QED
      BY <1>0, <1>a, <1>b, <1>c, <1>d, <2>1, <3>1, <3>3
  <2>5. CASE op[o].url # u
    <3>1. comments'[u] = comments[u]
      BY <1>0, <2>1, <2>5
    <3>2. P' = P /\ R' = R
      BY <2>3, <2>5
    <3>3. QED
      BY <1>0, <1>b, <1>c, <2>1, <3>1, <3>2
  <2>6. QED
    BY <2>4, <2>5
<1>7. CASE RecordOperatorReply(o)
  <2>1. /\ op[o].step = "record" /\ UNCHANGED <<comments, faults>>
        /\ replies' = replies \cup {op[o].url} /\ op' = [op EXCEPT ![o] = Idle]
    BY <1>7 DEF RecordOperatorReply
  <2>a. /\ P' \ {o} = P \ {o} /\ R' \ {o} = R \ {o}
        /\ o \notin P' /\ o \notin R' /\ o \notin P
    BY <1>2, <1>3, <1>e, <2>1
  <2>2. P' = P /\ (op[o].url # u => R' = R)
    BY <1>4, <2>1, <2>a
  <2>3. CASE u \in replies
    BY <1>0, <1>b, <1>c, <2>1, <2>2, <2>3
  <2>4. CASE u \notin replies /\ op[o].url # u
    BY <1>0, <1>b, <1>c, <2>1, <2>2, <2>4
  <2>5. CASE u \notin replies /\ op[o].url = u
    BY <1>0, <1>a, <1>b, <1>c, <1>d, <2>1, <2>2, <2>5
  <2>6. QED
    BY <2>3, <2>4, <2>5
<1>8. CASE ReplyFails(o)
  <2>1. replies' = replies /\ faults' = faults + 1 /\ op' = [op EXCEPT ![o] = Idle]
    BY <1>8 DEF ReplyFails, Fault, tables
  <2>a. /\ P' \ {o} = P \ {o} /\ R' \ {o} = R \ {o}
        /\ o \notin P' /\ o \notin R'
    BY <1>2, <1>e, <2>1
  <2>2. P' \subseteq P \ {o} /\ R \subseteq R' \cup {o} /\ P' \subseteq P
    BY <2>a
  <2>3. Cardinality(P') <= Cardinality(P) /\ Cardinality(R) <= Cardinality(R') + 1
    BY <1>1, <2>2, Counts
  <2>4. CASE comments'[u] = comments[u]
    BY <1>0, <1>a, <1>b, <1>c, <1>d, <2>1, <2>3, <2>4
  <2>5. CASE op[o].step = "post" /\ op[o].url = u /\ comments'[u] = comments[u] + 1
    <3>1. o \in P /\ R' = R
      BY <1>3, <1>4, <2>5, <2>a
    <3>2. Cardinality(P') + 1 <= Cardinality(P)
      BY <1>1, <2>2, <3>1, Counts
    <3>3. QED
      BY <1>0, <1>a, <1>b, <1>c, <1>d, <2>1, <2>5, <3>1, <3>2
  <2>6. QED
    BY <1>0, <1>8, <2>4, <2>5 DEF ReplyFails, Comment
<1>9. QED
  BY <1>5, <1>6, <1>7, <1>8

LEMMA TallyNext ==
  ASSUME TypeInv, TypeInv', NEW u \in Issues, Tally(u), [Next]_vars
  PROVE  Tally(u)'
<1>1. ASSUME UNCHANGED <<replies, comments, faults, op>>, pc' # "post", pc' # "record", pc # "record"
      PROVE  Tally(u)'
  <2>1. /\ ScanAt("post", u)' = 0 /\ ScanAt("record", u)' = 0 /\ ScanAt("record", u) = 0
        /\ Posting(u)' = Posting(u) /\ Recording(u)' = Recording(u)
    BY <1>1 DEF ScanAt, Posting, Recording
  <2>2. QED
    BY <1>1, <2>1, TallyTypes DEF Tally
<1>2. ASSUME UNCHANGED <<replies, comments, faults, op, pc, match>>
      PROVE  Tally(u)'
  BY <1>2 DEF Tally, ScanAt, Posting, Recording
<1>3. CASE StartRun \/ EndRun \/ AutoRevoke \/ \E h \in Hits : RecordMatch(h)
  BY <1>1, <1>3 DEF StartRun, EndRun, AutoRevoke, AfterRevoke, RecordMatch, Respond, Goto, tables
<1>4. CASE HasReply \/ PostIssueComment \/ RecordReply \/ RespondFails \/ Crash
  <2>1. op' = op
    BY <1>4 DEF HasReply, PostIssueComment, RecordReply, RespondFails, Crash
  <2>2. QED
    BY <1>4, <2>1, ScanTally
<1>5. ASSUME NEW o \in Operators,
             \/ \E i \in DOMAIN incidents : StartReply(o, i)
             \/ PostReply(o) \/ RecordOperatorReply(o) \/ ReplyFails(o)
      PROVE  Tally(u)'
  <2>1. UNCHANGED <<pc, match>>
    BY <1>5 DEF StartReply, PostReply, RecordOperatorReply, ReplyFails, scan
  <2>2. QED
    BY <1>5, <2>1, OperatorTally
<1>6. CASE \/ UNCHANGED vars
           \/ \E i \in DOMAIN incidents : Triage(i)
           \/ \E v \in Urls \cup {None} : Create(v)
           \/ \E x \in Points \cup Tokens : Revoke(x)
           \/ \E t \in Tokens : AddToken(t)
  BY <1>2, <1>6 DEF vars, tables, scan, Triage, Confirm, Dismiss, Resolve, Transition, Create, Revoke, AddToken
<1>7. QED
  BY <1>3, <1>4, <1>5, <1>6 DEF Next, Answer

(* However many operators reply while scans come and go, an issue gets one
   comment from each of those that looked before the first reply was recorded,
   and one for every fault in between (scanner.go:239-246). *)
THEOREM CommentsAlwaysBounded == Spec => []CommentsBounded
<1>. DEFINE Tallied == \A u \in Issues : Tally(u)
<1>1. Init => Tallied
  <2>. SUFFICES ASSUME Init, NEW u \in Issues PROVE Tally(u)
    OBVIOUS
  <2>1. TypeInv
    BY TypeInvInit
  <2>2. u \notin replies /\ comments[u] = 0
    BY DEF Init
  <2>3. QED
    BY <2>1, <2>2, TallyTypes DEF Tally
<1>2. TypeInv /\ TypeInv' /\ Tallied /\ [Next]_vars => Tallied'
  BY TallyNext
<1>3. TypeInv /\ Tallied => CommentsBounded
  <2>. SUFFICES ASSUME TypeInv, Tallied, NEW u \in Issues
                PROVE  comments[u] <= Cardinality(Operators) + 1 + faults
    BY DEF CommentsBounded
  <2>1. Tally(u)
    OBVIOUS
  <2>2. QED
    BY <2>1, TallyTypes DEF Tally
<1>4. QED
  BY <1>1, <1>2, <1>3, TypeInvAlways, PTL DEF Spec
=============================================================================
