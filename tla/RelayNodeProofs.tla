--------------------------- MODULE RelayNodeProofs ---------------------------
(***************************************************************************)
(* A node stops serving what it lost, for any number of nodes and streams, *)
(* any admin, any loss of messages, and all values of the timers.          *)
(***************************************************************************)
EXTENDS RelayNode, TLAPS

(* Who has a right to a stream has not lost it. *)
RightInv == \A n \in Nodes, s \in Streams : Entitled(n, s) => lost[n][s] = 0

(* An answer under way was right when it was given. *)
AnswerInv ==
    \A n \in Nodes : poll[n].at = "config" =>
        \A s \in poll[n].cfg : lost[n][s] <= poll[n].t

(* What a node goes by is at most as old as it believes, and one answer. *)
AgeInv == \A n \in Nodes : \A s \in streams[n] : lost[n][s] <= age[n] + Timeout

LostInv == TypeOK /\ RightInv /\ AnswerInv /\ AgeInv

LEMMA WaitingType == /\ Waiting(0) \in Polls /\ Waiting(PollEvery) \in Polls
                     /\ [at |-> "sent", t |-> 0, cfg |-> {}] \in Polls
  BY TimesAssumption DEF Waiting, Polls

LEMMA TypeInit == Init => TypeOK
<1> SUFFICES ASSUME Init PROVE TypeOK
  OBVIOUS
<1> USE TimesAssumption, SecretAssumption
<1>1. /\ poll \in [Nodes -> Polls] /\ view \in [Streams -> Views]
      /\ lost \in [Nodes -> [Streams -> 0..Longest]]
  BY WaitingType DEF Init, Views, Longest
<1>2. /\ key \in [Nodes -> 1..MaxSecret] /\ secret \in [Nodes -> 1..MaxSecret]
      /\ \A n \in Nodes : key[n] <= secret[n]
  BY DEF Init
<1>3. /\ plan \in [Nodes -> SUBSET Streams] /\ sessions \in [Nodes -> SUBSET Streams]
      /\ pins \in [Nodes -> SUBSET Streams] /\ streams \in [Nodes -> SUBSET Streams]
      /\ \A n \in Nodes : pins[n] \subseteq sessions[n]
  BY DEF Init
<1>4. age \in [Nodes -> 0..MaxAge]
  BY DEF Init
<1>5. /\ fresh \in [Nodes -> BOOLEAN]
      /\ status \in [Nodes -> {"pending", "active", "disabled", "deleted"}]
      /\ enabled \in [Streams -> BOOLEAN] /\ local \in [Streams -> BOOLEAN]
      /\ assign \in [Streams -> Nodes \cup {None}] /\ calm \in BOOLEAN
  BY Zenon DEF Init
<1> QED
  BY <1>1, <1>2, <1>3, <1>4, <1>5 DEF TypeOK

(* The node's config after apply, clearConfig and expireConfig. *)
ConfigOK == streams \in [Nodes -> SUBSET Streams] /\ age \in [Nodes -> 0..MaxAge]

LEMMA SetConfigType ==
  ASSUME TypeOK, NEW n \in Nodes, NEW S \in SUBSET Streams, SetConfig(n, S)
  PROVE  ConfigOK'
  BY TimesAssumption DEF TypeOK, SetConfig, ConfigOK

LEMMA ExpireType ==
  ASSUME TypeOK, NEW n \in Nodes, ExpireConfig(n)
  PROVE  ConfigOK'
  BY SetConfigType DEF TypeOK, ExpireConfig, ConfigOK

(* Admin actions change rows and recount. *)
LEMMA AdminType == TypeOK /\ Admin => TypeOK'
<1> SUFFICES ASSUME TypeOK, Admin PROVE TypeOK'
  OBVIOUS
<1> USE TimesAssumption, SecretAssumption
<1>0. Recount
  BY DEF Admin, Assign, ToggleStream, ToggleNode, Reissue, Delete, Edited
<1>1. lost' \in [Nodes -> [Streams -> 0..Longest]]
  BY <1>0 DEF Recount, TypeOK, Longest
<1> DEFINE Rows ==
      /\ assign \in [Streams -> Nodes \cup {None}] /\ enabled \in [Streams -> BOOLEAN]
      /\ status \in [Nodes -> {"pending", "active", "disabled", "deleted"}]
<1>2. Rows'
  <2>1. ASSUME NEW s \in Streams, ToggleStream(s) PROVE Rows'
    BY <2>1 DEF TypeOK, ToggleStream
  <2>2. ASSUME NEW s \in Streams, NEW n \in Nodes \cup {None}, Assign(s, n) PROVE Rows'
    BY <2>2 DEF TypeOK, Assign
  <2>3. ASSUME NEW n \in Nodes, ToggleNode(n) PROVE Rows'
    BY <2>3 DEF TypeOK, ToggleNode
  <2>4. ASSUME NEW n \in Nodes, Reissue(n) PROVE Rows'
    BY <2>4 DEF TypeOK, Reissue
  <2>5. ASSUME NEW n \in Nodes, Delete(n) PROVE Rows'
    BY <2>5 DEF TypeOK, Delete
  <2> QED
    BY <2>1, <2>2, <2>3, <2>4, <2>5 DEF Admin
<1> DEFINE Secrets == secret' \in [Nodes -> 1..MaxSecret] /\ \A n \in Nodes : secret[n] <= secret'[n]
<1>3. Secrets
  <2>1. ASSUME NEW n \in Nodes, Reissue(n) PROVE Secrets
    BY <2>1 DEF TypeOK, Reissue
  <2>2. CASE UNCHANGED secret
    BY <2>2 DEF TypeOK
  <2> QED
    BY <2>1, <2>2 DEF Admin, Assign, ToggleStream, ToggleNode, Delete
<1>4. UNCHANGED <<fresh, config, relays, control, calm>>
  BY DEF Admin, Assign, ToggleStream, ToggleNode, Reissue, Delete, Edited
<1>5. \A n \in Nodes : key'[n] <= secret'[n]
  BY <1>3, <1>4 DEF TypeOK, config
<1> QED
  BY <1>1, <1>2, <1>3, <1>4, <1>5 DEF TypeOK, config, relays, control

LEMMA NodeType == ASSUME TypeOK, NEW n \in Nodes, NodeStep(n) PROVE TypeOK'
<1> USE TimesAssumption, SecretAssumption
<1>1. CASE PollSend(n)
  BY <1>1, WaitingType DEF TypeOK, PollSend, database, relays, control
<1>2. CASE Answer(n)
  <2> DEFINE Asked == [at : {"sent", "denied", "config"}, t : 0..Timeout, cfg : SUBSET Streams]
  <2>0. poll[n] \in Asked /\ poll \in [Nodes -> Polls] /\ Asked \subseteq Polls
    BY <1>2 DEF TypeOK, Answer, Polls
  <2>1. /\ [poll[n] EXCEPT !.at = "denied"] \in Asked
        /\ \A cfg \in SUBSET Streams : [poll[n] EXCEPT !.at = "config", !.cfg = cfg] \in Asked
    BY <2>0
  <2> HIDE DEF Asked
  <2>2. poll' \in [Nodes -> Polls]
    <3>1. CASE poll' = [poll EXCEPT ![n].at = "denied"]
      BY <2>0, <2>1, <3>1
    <3>2. ASSUME NEW cfg \in SUBSET NodeStreams(n),
                 poll' = [poll EXCEPT ![n].at = "config", ![n].cfg = cfg]
          PROVE  poll' \in [Nodes -> Polls]
      <4>1. cfg \in SUBSET Streams
        BY DEF NodeStreams
      <4>2. poll' = [poll EXCEPT ![n] = [poll[n] EXCEPT !.at = "config", !.cfg = cfg]]
        BY <2>0, <3>2
      <4> QED
        BY <2>0, <2>1, <4>1, <4>2
    <3> QED
      BY <1>2, <3>1, <3>2 DEF Answer
  <2> QED
    BY <1>2, <2>2 DEF TypeOK, Answer, database, relays, control
<1>3. CASE PollApplies(n)
  <2>1. poll[n].cfg \in SUBSET Streams
    BY <1>3 DEF TypeOK, Polls, PollApplies
  <2>2. ConfigOK'
    BY <1>3, <2>1, SetConfigType DEF PollApplies
  <2> QED
    BY <1>3, <2>2, WaitingType DEF TypeOK, PollApplies, ConfigOK, database, relays, control
<1>4. CASE PollDenied(n)
  <2>1. ConfigOK'
    BY <1>4, SetConfigType DEF PollDenied
  <2> QED
    BY <1>4, <2>1, WaitingType DEF TypeOK, PollDenied, ConfigOK, database, relays, control
<1>5. CASE PollFails(n)
  <2>1. ConfigOK'
    BY <1>5, ExpireType DEF PollFails
  <2> QED
    BY <1>5, <2>1, WaitingType DEF TypeOK, PollFails, ConfigOK, database, relays, control
<1>6. CASE Restart(n)
  <2>1. lost' \in [Nodes -> [Streams -> 0..Longest]]
    BY <1>6 DEF TypeOK, Restart, Recount, Longest
  <2>2. ConfigOK'
    BY <1>6, SetConfigType DEF Restart
  <2>3. key' \in [Nodes -> 1..MaxSecret] /\ \A i \in Nodes : key'[i] <= secret'[i]
    BY <1>6 DEF TypeOK, Restart, database
  <2>4. /\ plan' \in [Nodes -> SUBSET Streams] /\ sessions' \in [Nodes -> SUBSET Streams]
        /\ pins' \in [Nodes -> SUBSET Streams]
        /\ \A i \in Nodes : pins'[i] \subseteq sessions'[i]
    BY <1>6 DEF TypeOK, Restart
  <2> QED
    BY <1>6, <2>1, <2>2, <2>3, <2>4, WaitingType DEF TypeOK, Restart, ConfigOK, database, control
<1>7. CASE Report(n)
  BY <1>7 DEF TypeOK, Report, config, relays, control
<1>8. CASE GrowStale(n)
  BY <1>8 DEF TypeOK, GrowStale, database, config, relays, control
<1>9. CASE PassStarts(n)
  BY <1>9 DEF TypeOK, PassStarts, database, config, control
<1>10. CASE PassEnds(n)
  BY <1>10 DEF TypeOK, PassEnds, database, config, control
<1>11. ASSUME NEW s \in Streams, RelayDies(n, s) PROVE TypeOK'
  BY <1>11 DEF TypeOK, RelayDies, database, config, control
<1>12. ASSUME NEW s \in Streams, Reap(n, s) PROVE TypeOK'
  BY <1>12 DEF TypeOK, Reap, database, config, control
<1> QED
  BY <1>1, <1>2, <1>3, <1>4, <1>5, <1>6, <1>7, <1>8, <1>9, <1>10, <1>11, <1>12 DEF NodeStep

LEMMA ControlType == ASSUME TypeOK, NEW s \in Streams, ControlStep(s) PROVE TypeOK'
<1> USE TimesAssumption, SecretAssumption
<1>1. NoView \in Views /\ Local \in Views /\ \A n \in Nodes : AskNode(n) \in Views
  BY DEF Views, NoView, Local, AskNode, TypeOK
<1>2. CASE Request(s)
  <2>1. view' \in [Streams -> Views]
    BY <1>1, <1>2, NoneAssumption DEF TypeOK, Request
  <2> QED
    BY <1>2, <2>1 DEF TypeOK, Request, database, config, relays
<1>3. CASE NodeServes(s)
  BY <1>1, <1>3 DEF TypeOK, NodeServes, database, config, relays
<1>4. CASE NodeRefuses(s)
  <2>1. view[s].node \in Nodes
    <3>1. view[s] \in Views /\ view[s].at = "node"
      BY <1>4 DEF TypeOK, NodeRefuses
    <3>2. NoView.at # "node" /\ Local.at # "node"
      BY DEF NoView, Local
    <3>3. view[s] \in [at : {"node"}, node : Nodes, secret : 1..MaxSecret]
      BY <3>1, <3>2 DEF Views
    <3> QED
      BY <3>3
  <2>2. ConfigOK'
    BY <1>4, <2>1, ExpireType DEF NodeRefuses
  <2> QED
    BY <1>1, <1>4, <2>2 DEF TypeOK, NodeRefuses, ConfigOK, database, relays
<1>5. CASE NodeUnreachable(s)
  BY <1>1, <1>5 DEF TypeOK, NodeUnreachable, database, config, relays
<1>6. CASE ServeEntry(s)
  BY <1>1, <1>6 DEF TypeOK, ServeEntry, database, config, relays
<1>7. CASE LocalEnds(s)
  BY <1>7 DEF TypeOK, LocalEnds, database, config, relays
<1> QED
  BY <1>2, <1>3, <1>4, <1>5, <1>6, <1>7 DEF ControlStep

LEMMA TickType == TypeOK /\ Tick => TypeOK'
<1> SUFFICES ASSUME TypeOK, Tick PROVE TypeOK'
  OBVIOUS
<1> USE TimesAssumption
<1>1. poll' \in [Nodes -> Polls]
  <2> SUFFICES ASSUME NEW n \in Nodes PROVE [poll[n] EXCEPT !.t = @ + 1] \in Polls
    BY DEF Tick
  <2>1. poll[n] \in Polls /\ ~Overdue(n)
    BY DEF TypeOK, Tick
  <2> QED
    BY <2>1 DEF Polls, Overdue
<1>2. age' \in [Nodes -> 0..MaxAge]
  BY DEF TypeOK, Tick
<1>3. lost' \in [Nodes -> [Streams -> 0..Longest]]
  BY DEF TypeOK, Tick, Longest
<1> QED
  BY <1>1, <1>2, <1>3 DEF TypeOK, Tick, database, relays, control

LEMMA TypeStep == TypeOK /\ [Next]_vars => TypeOK'
<1> SUFFICES ASSUME TypeOK, [Next]_vars PROVE TypeOK'
  OBVIOUS
<1>1. CASE UNCHANGED vars
  BY <1>1 DEF TypeOK, vars, database, config, relays, control
<1>2. CASE Settle
  BY <1>2 DEF TypeOK, Settle, database, config, relays, control
<1> QED
  BY <1>1, <1>2, AdminType, TickType, NodeType, ControlType DEF Next

(* Every state of the system is well typed: polls, configs, sessions and pins,
   which are sessions (node.go:48-60, remux.go:42-52). *)
THEOREM TypesAlways == Spec => []TypeOK
  BY TypeInit, TypeStep, PTL DEF Spec
-----------------------------------------------------------------------------
LEMMA LostInit == Init => LostInv
<1> SUFFICES ASSUME Init PROVE RightInv /\ AnswerInv /\ AgeInv
  BY TypeInit DEF LostInv
<1> QED
  BY DEF Init, RightInv, AnswerInv, AgeInv, Waiting

(* No step but a tick makes a loss older. *)
Lowered ==
    /\ RightInv'
    /\ \A n \in Nodes, s \in Streams : lost'[n][s] \in 0..lost[n][s]

LEMMA LossLowered == ASSUME LostInv, [Next]_vars, ~Tick PROVE Lowered
<1>1. CASE Recount
  BY <1>1 DEF LostInv, TypeOK, Recount, RightInv, Lowered
<1>2. CASE UNCHANGED <<database, key, lost>>
  BY <1>2, TimesAssumption DEF LostInv, TypeOK, Longest, RightInv, Entitled, Trusted, database, Lowered
<1>3. ASSUME NEW n \in Nodes, Report(n) PROVE Lowered
  BY <1>3, TimesAssumption DEF LostInv, TypeOK, Longest, RightInv, Entitled, Trusted, Report, config, Lowered
<1>4. ASSUME NEW n \in Nodes, NodeStep(n) PROVE Recount \/ Report(n) \/ UNCHANGED <<database, key, lost>>
  BY <1>4 DEF NodeStep, PollSend, Answer, PollApplies, PollDenied, PollFails, Restart,
     GrowStale, PassStarts, PassEnds, RelayDies, Reap, config
<1>5. ASSUME NEW s \in Streams, ControlStep(s) PROVE UNCHANGED <<database, key, lost>>
  BY <1>5 DEF ControlStep, Request, NodeServes, NodeRefuses, NodeUnreachable, ServeEntry, LocalEnds, config
<1>6. CASE Admin
  BY <1>1, <1>6 DEF Admin, Assign, ToggleStream, ToggleNode, Reissue, Delete, Edited
<1> QED
  BY <1>1, <1>2, <1>3, <1>4, <1>5, <1>6 DEF Next, Settle, vars, config

(* What becomes of a node's poll and of its config. *)
PollKept(n) ==
    \/ poll'[n] = poll[n]
    \/ poll'[n].at # "config"
    \/ poll'[n].t = poll[n].t /\ \A s \in poll'[n].cfg : s \in Streams /\ Entitled(n, s)

ConfigKept(n) ==
    \/ streams'[n] = streams[n] /\ age'[n] = age[n]
    \/ streams'[n] = {}
    \/ poll[n].at = "config" /\ streams'[n] = poll[n].cfg

LEMMA NodeKeeps ==
  ASSUME TypeOK, NEW i \in Nodes, NodeStep(i), NEW n \in Nodes
  PROVE  PollKept(n) /\ ConfigKept(n)
<1> USE DEF PollKept, ConfigKept
<1>1. CASE PollSend(i)
  BY <1>1 DEF PollSend, TypeOK
<1>2. CASE Answer(i)
  <2>1. CASE i # n
    BY <1>2, <2>1 DEF Answer, TypeOK
  <2>2. CASE poll' = [poll EXCEPT ![n].at = "denied"]
    <3>1. poll[n] \in Polls /\ poll'[n] = [poll[n] EXCEPT !.at = "denied"]
      BY <2>2 DEF TypeOK
    <3>2. poll'[n].at # "config"
      BY <3>1 DEF Polls
    <3> QED
      BY <1>2, <3>2 DEF Answer
  <2>3. ASSUME NEW cfg \in SUBSET NodeStreams(n), Trusted(n),
               poll' = [poll EXCEPT ![n].at = "config", ![n].cfg = cfg]
        PROVE  PollKept(n)
    <3>1. poll[n] \in Polls /\ poll \in [Nodes -> Polls]
      BY DEF TypeOK
    <3>2. poll'[n] = [poll[n] EXCEPT !.at = "config", !.cfg = cfg]
      BY <2>3, <3>1
    <3>3. poll'[n].t = poll[n].t /\ poll'[n].cfg = cfg
      BY <3>1, <3>2 DEF Polls
    <3> QED
      BY <2>3, <3>3 DEF NodeStreams, Entitled
  <2>4. ConfigKept(n)
    BY <1>2 DEF Answer
  <2> QED
    BY <1>2, <2>1, <2>2, <2>3, <2>4 DEF Answer
<1>3. CASE PollApplies(i)
  BY <1>3 DEF PollApplies, SetConfig, Waiting, TypeOK
<1>4. CASE PollDenied(i)
  BY <1>4 DEF PollDenied, SetConfig, Waiting, TypeOK
<1>5. CASE PollFails(i)
  BY <1>5 DEF PollFails, ExpireConfig, SetConfig, Waiting, TypeOK
<1>6. CASE Restart(i)
  BY <1>6 DEF Restart, SetConfig, Waiting, TypeOK
<1>7. CASE UNCHANGED config
  BY <1>7 DEF config
<1> QED
  BY <1>1, <1>2, <1>3, <1>4, <1>5, <1>6, <1>7
  DEF NodeStep, Report, GrowStale, PassStarts, PassEnds, RelayDies, Reap

LEMMA AllKeep ==
  ASSUME TypeOK, [Next]_vars, ~Tick, NEW n \in Nodes
  PROVE  PollKept(n) /\ ConfigKept(n)
<1>1. CASE UNCHANGED config
  BY <1>1 DEF config, PollKept, ConfigKept
<1>2. ASSUME NEW s \in Streams, ControlStep(s) PROVE UNCHANGED config \/ (UNCHANGED poll /\ ConfigKept(n))
  <2>1. ASSUME NodeRefuses(s) PROVE UNCHANGED poll /\ ConfigKept(n)
    BY <2>1 DEF NodeRefuses, ExpireConfig, SetConfig, ConfigKept, TypeOK
  <2> QED
    BY <1>2, <2>1 DEF ControlStep, Request, NodeServes, NodeUnreachable, ServeEntry, LocalEnds, config
<1>3. Admin => UNCHANGED config
  BY DEF Admin, Assign, ToggleStream, ToggleNode, Reissue, Delete, Edited
<1> QED
  BY <1>1, <1>2, <1>3, NodeKeeps DEF Next, Settle, vars, PollKept

LEMMA LostStep == LostInv /\ [Next]_vars => LostInv'
<1> SUFFICES ASSUME LostInv, [Next]_vars PROVE RightInv' /\ AnswerInv' /\ AgeInv'
  BY TypeStep DEF LostInv
<1> USE TimesAssumption
<1>1. CASE Tick
  <2>1. RightInv'
    <3> SUFFICES ASSUME NEW n \in Nodes, NEW s \in Streams, Entitled(n, s)'
                 PROVE  lost'[n][s] = 0
      BY DEF RightInv
    <3>1. Entitled(n, s)
      BY <1>1 DEF Tick, Entitled, Trusted, database
    <3>2. lost'[n][s] = lost[n][s]
      BY <1>1, <3>1 DEF Tick
    <3> QED
      BY <3>1, <3>2 DEF LostInv, RightInv
  <2>2. AnswerInv'
    <3> SUFFICES ASSUME NEW n \in Nodes, poll'[n].at = "config", NEW s \in poll'[n].cfg
                 PROVE  lost'[n][s] <= poll'[n].t
      BY DEF AnswerInv
    <3>1. poll[n] \in Polls /\ poll'[n] = [poll[n] EXCEPT !.t = @ + 1]
      BY <1>1 DEF Tick, LostInv, TypeOK
    <3>2. /\ poll[n].at = "config" /\ poll'[n].t = poll[n].t + 1
          /\ s \in poll[n].cfg /\ s \in Streams /\ poll[n].t \in Nat
      BY <3>1 DEF Polls
    <3>3. lost[n][s] <= poll[n].t /\ lost[n][s] \in Nat
      BY <3>2 DEF LostInv, AnswerInv, TypeOK, Longest
    <3> QED
      BY <1>1, <3>2, <3>3 DEF Tick
  <2>3. AgeInv'
    BY <1>1 DEF Tick, LostInv, TypeOK, AgeInv, Longest
  <2> QED
    BY <2>1, <2>2, <2>3
<1>2. CASE ~Tick
  <2>0. Lowered
    BY <1>2, LossLowered
  <2> USE DEF LostInv
  <2>1. AnswerInv'
    <3> SUFFICES ASSUME NEW n \in Nodes, poll'[n].at = "config", NEW s \in poll'[n].cfg
                 PROVE  lost'[n][s] <= poll'[n].t
      BY DEF AnswerInv
    <3>1. poll[n] \in Polls /\ (poll'[n] = poll[n] => s \in Streams)
      BY DEF TypeOK, Polls
    <3>2. poll[n].t \in Nat
      BY <3>1 DEF Polls
    <3>3. CASE poll'[n] = poll[n]
      <4>1. s \in Streams /\ lost[n][s] \in Nat /\ lost'[n][s] \in 0..lost[n][s]
        BY <2>0, <3>1, <3>3 DEF Lowered, TypeOK, Longest
      <4> QED
        BY <3>2, <3>3, <4>1 DEF AnswerInv
    <3>4. CASE poll'[n].t = poll[n].t /\ s \in Streams /\ Entitled(n, s)
      <4>1. lost[n][s] = 0 /\ lost'[n][s] \in 0..lost[n][s]
        BY <2>0, <3>4 DEF Lowered, RightInv
      <4> QED
        BY <3>2, <3>4, <4>1
    <3> QED
      BY <1>2, <3>3, <3>4, AllKeep DEF PollKept
  <2>2. AgeInv'
    <3> SUFFICES ASSUME NEW n \in Nodes, NEW s \in streams'[n]
                 PROVE  lost'[n][s] <= age'[n] + Timeout
      BY DEF AgeInv
    <3>1. TypeOK' /\ s \in Streams
      BY TypeStep DEF TypeOK
    <3>2. lost'[n][s] <= lost[n][s] /\ lost[n][s] \in Nat /\ lost'[n][s] \in Nat
      BY <2>0, <3>1 DEF Lowered, TypeOK, Longest
    <3>3. age'[n] \in Nat /\ age[n] \in Nat
      BY <3>1 DEF TypeOK
    <3>4. CASE streams'[n] = streams[n] /\ age'[n] = age[n]
      BY <3>2, <3>3, <3>4 DEF AgeInv
    <3>5. CASE poll[n].at = "config" /\ streams'[n] = poll[n].cfg
      <4>1. poll[n].t \in 0..Timeout
        BY <3>5 DEF TypeOK, Polls
      <4> QED
        BY <3>2, <3>3, <3>5, <4>1 DEF AnswerInv
    <3> QED
      BY <1>2, <3>4, <3>5, AllKeep DEF ConfigKept
  <2> QED
    BY <2>0, <2>1, <2>2 DEF Lowered
<1> QED
  BY <1>1, <1>2

(* Whatever polls and answers are lost or late, and whatever the admin does: a
   node does not serve a stream it lost configMaxAge and one answer ago
   (node.go:251, node.go:317). *)
THEOREM LostStreamsEndAlways == Spec => []LostStreamsEnd
<1>1. LostInv => LostStreamsEnd
  BY TimesAssumption DEF LostInv, TypeOK, AgeInv, LostStreamsEnd, Serves, Allowed, Expired, Longest
<1> QED
  BY <1>1, LostInit, LostStep, PTL DEF Spec
=============================================================================
