--------------------------- MODULE StreamProofs ---------------------------
(***************************************************************************)
(* Proofs about the relays that run without viewers: the supervisor that   *)
(* pins them (AlwaysOn) and the puller that feeds one of them from an HLS  *)
(* source (HlsPull).                                                       *)
(***************************************************************************)
EXTENDS AlwaysOn, HlsPull, FiniteSetTheorems, TLAPS

-----------------------------------------------------------------------------
(***************************************************************************)
(* AlwaysOn: the supervisor pins no more relays than it may and stops no   *)
(* healthy one by mistake, for any number of streams, sources and slots.   *)
(***************************************************************************)
IsPinned(st) == Has(st) /\ sess[st].pinned

Working == {"probe", "adopt", "start", "opening", "wait", "pin"}

(* A pass has a list of wanted streams and works on one of them; between
   passes nothing is left to do. *)
PassInv ==
    /\ pc \in {"idle", "loaded"} => todo = {}
    /\ pc \in Working => cur \in Wanted
    /\ Cardinality(Wanted) <= MaxRelays

(* After the snapshot only wanted streams are pinned. *)
PinsInv == pc \notin {"idle", "loaded"} => Pinned \subseteq Wanted

(* A relay the snapshot saw dead is not revived before its turn. *)
DeadInv == \A st \in wasDead \cap todo : IsPinned(st) => ~sess[st].alive

(* While a relay is started its stream's pin is an outdated one, and from
   the moment the source is opened there is none. *)
StartInv ==
    /\ pc = "start" /\ IsPinned(cur) => sess[cur].sig # want[cur]
    /\ pc \in {"opening", "wait", "pin"} => ~IsPinned(cur)

AlwaysOnInv == TypeOK /\ PassInv /\ PinsInv /\ PinBudget /\ DeadInv /\ StartInv

-----------------------------------------------------------------------------
(* The budget. *)

LEMMA MaxRelaysType == MaxRelays \in Nat \ {0}
  BY SlotsAssumption, FlagAssumption DEF MaxRelays

LEMMA StreamSets ==
  ASSUME NEW S \in SUBSET Streams
  PROVE  /\ IsFiniteSet(S) /\ Cardinality(S) \in Nat
         /\ \A T \in SUBSET S : Cardinality(T) <= Cardinality(S)
  BY StreamsAssumption, FS_Subset, FS_CardinalityType

(* The first MaxRelays of the flagged streams are at most so many: each is
   told apart by how many of them come before it. *)
LEMMA FirstRelaysFew ==
  ASSUME NEW F \in SUBSET Streams
  PROVE  FirstRelays(F) \subseteq F /\ Cardinality(FirstRelays(F)) <= MaxRelays
<1> DEFINE Below(st) == {x \in F : x < st}
           R == FirstRelays(F)
           f == [st \in R |-> Cardinality(Below(st))]
<1>1. R \subseteq F /\ \A st \in R : Cardinality(Below(st)) < MaxRelays
  BY DEF FirstRelays
<1>2. \A st \in F : Cardinality(Below(st)) \in Nat
  BY StreamSets
<1>3. f \in [R -> 0..MaxRelays - 1]
  BY <1>1, <1>2, MaxRelaysType
<1>4. \A s \in F : s \in Streams /\ s \in Nat
  BY StreamsAssumption
<1>5. ASSUME NEW s \in F, NEW t \in F, s < t
      PROVE  Cardinality(Below(s)) # Cardinality(Below(t))
  <2>1. Below(s) \in SUBSET Below(t)
    BY <1>4, <1>5
  <2>2. s \in Below(t) /\ s \notin Below(s)
    BY <1>4, <1>5
  <2>3. Below(t) \in SUBSET Streams
    BY <1>4
  <2>4. IsFiniteSet(Below(t)) /\ Below(s) # Below(t)
    BY <2>2, <2>3, StreamSets
  <2> QED
    BY <2>1, <2>4, FS_Subset
<1>6. ASSUME NEW s \in F, NEW t \in F, Cardinality(Below(s)) = Cardinality(Below(t))
      PROVE  s = t
  <2>1. s < t \/ t < s \/ s = t
    BY <1>4
  <2> QED
    BY <1>5, <1>6, <2>1
<1>7. f \in Injection(R, 0..MaxRelays - 1)
  <2>1. \A s, t \in R : f[s] = f[t] => s = t
    BY <1>1, <1>6
  <2> QED
    BY <1>3, <2>1 DEF Injection, IsInjective
<1>8. IsFiniteSet(0..MaxRelays - 1) /\ Cardinality(0..MaxRelays - 1) = MaxRelays
  BY FS_Interval, MaxRelaysType
<1>9. Cardinality(R) <= MaxRelays
  BY <1>7, <1>8, FS_Injection
<1> QED
  BY <1>1, <1>9

-----------------------------------------------------------------------------
(* Sessions. *)

LEMMA NewSessionType ==
  ASSUME NEW g \in Sigs
  PROVE  /\ NewSession(g) \in Sessions /\ NewSession(g).sig = g
         /\ NewSession(g).alive = TRUE /\ NewSession(g).pinned = FALSE
         /\ [NewSession(g) EXCEPT !.awaited = TRUE] \in Sessions
         /\ [NewSession(g) EXCEPT !.awaited = TRUE].pinned = FALSE
         /\ [NewSession(g) EXCEPT !.awaited = TRUE].sig = g
  BY DEF NewSession, Sessions

LEMMA SessionNotNone == None \notin Sessions
  BY NoneAssumption DEF Sessions

LEMMA SessionUpdates ==
  ASSUME NEW x \in Sessions
  PROVE  /\ [x EXCEPT !.pinned = FALSE] \in Sessions /\ ~[x EXCEPT !.pinned = FALSE].pinned
         /\ [x EXCEPT !.alive = FALSE] \in Sessions
         /\ [x EXCEPT !.playlist = TRUE] \in Sessions
         /\ [x EXCEPT !.awaited = TRUE] \in Sessions
         /\ [x EXCEPT !.pinned = TRUE, !.awaited = FALSE] \in Sessions
  BY DEF Sessions

LEMMA DropType ==
  ASSUME TypeOK, NEW st \in Streams, Drop(st)
  PROVE  /\ sess' = [sess EXCEPT ![st] = None]
         /\ sess' \in [Streams -> Sessions \cup {None}] /\ lingering' \in Nat
  BY DEF TypeOK, Drop, Lingers

(* No pin is new, and a pinned session is the one it was. *)
NoNewPins ==
    \A st \in Streams : IsPinned(st)' =>
        /\ IsPinned(st)
        /\ sess'[st].sig = sess[st].sig
        /\ sess'[st].alive => sess[st].alive

LEMMA FewerPins ==
  ASSUME PinBudget, Pinned' \subseteq Pinned
  PROVE  PinBudget'
  BY StreamSets, MaxRelaysType DEF PinBudget, Pinned, MaxRelays

(* What the rest of the system does to the pool. *)
LEMMA PoolStep ==
  ASSUME AlwaysOnInv, NoNewPins, UNCHANGED <<pc, cur, want, wasDead, todo>>
  PROVE  PassInv' /\ PinsInv' /\ PinBudget' /\ DeadInv' /\ StartInv'
<1> USE DEF AlwaysOnInv
<1>1. Wanted' = Wanted /\ PassInv'
  BY DEF PassInv, Wanted, MaxRelays
<1>2. Pinned' \subseteq Pinned
  BY DEF NoNewPins, Pinned, IsPinned
<1>3. PinsInv' /\ PinBudget'
  BY <1>1, <1>2, FewerPins DEF PinsInv
<1>4. DeadInv'
  BY DEF NoNewPins, DeadInv, TypeOK
<1>5. pc \in Working => cur \in Streams
  BY DEF PassInv, Wanted
<1>6. StartInv'
  BY <1>5 DEF NoNewPins, StartInv, Working
<1> QED
  BY <1>1, <1>3, <1>4, <1>6

(* Dropping a session, or putting an unpinned one in its place, pins nothing. *)
LEMMA Unpinned ==
  ASSUME TypeOK, NEW st \in Streams, NEW x, sess' = [sess EXCEPT ![st] = x],
         x # None => x.pinned = FALSE
  PROVE  NoNewPins
<1> SUFFICES ASSUME NEW t \in Streams, IsPinned(t)'
             PROVE  IsPinned(t) /\ sess'[t].sig = sess[t].sig /\ (sess'[t].alive => sess[t].alive)
  BY DEF NoNewPins
<1>1. t # st
  BY DEF IsPinned, Has, TypeOK
<1>2. sess'[t] = sess[t]
  BY <1>1 DEF TypeOK
<1> QED
  BY <1>2 DEF IsPinned, Has

LEMMA SamePins ==
  ASSUME UNCHANGED sess
  PROVE  NoNewPins
  BY DEF NoNewPins, IsPinned, Has

(* An update of a session that leaves its source and its pin alone. *)
LEMMA Updated ==
  ASSUME TypeOK, NEW st \in Streams, Has(st), NEW x \in Sessions,
         sess' = [sess EXCEPT ![st] = x],
         x.sig = sess[st].sig, x.pinned = sess[st].pinned,
         x.alive => sess[st].alive
  PROVE  NoNewPins
<1> SUFFICES ASSUME NEW t \in Streams, IsPinned(t)'
             PROVE  IsPinned(t) /\ sess'[t].sig = sess[t].sig /\ (sess'[t].alive => sess[t].alive)
  BY DEF NoNewPins
<1>1. CASE t # st
  <2>1. sess'[t] = sess[t]
    BY <1>1 DEF TypeOK
  <2> QED
    BY <2>1 DEF IsPinned, Has
<1>2. CASE t = st
  <2>1. sess'[t] = x
    BY <1>2 DEF TypeOK
  <2> QED
    BY <1>2, <2>1 DEF IsPinned, Has
<1> QED
  BY <1>1, <1>2

LEMMA PoolActions ==
  ASSUME AlwaysOnInv, NEW st \in Streams,
         \/ Reap(st) \/ WritePlaylist(st) \/ SourceDies(st)
         \/ \E g \in Sigs : ViewerStart(st, g)
  PROVE  AlwaysOnInv'
<1> USE DEF AlwaysOnInv
<1>1. sess[st] \in Sessions \cup {None}
  BY DEF TypeOK
<1>2. ASSUME sess' \in [Streams -> Sessions \cup {None}], lingering' \in Nat,
             UNCHANGED <<envVars, supVars>>, NoNewPins
      PROVE  AlwaysOnInv'
  <2>1. TypeOK'
    BY <1>2 DEF TypeOK, envVars, supVars, Wanted
  <2> QED
    BY <2>1, <1>2, PoolStep DEF supVars
<1>3. CASE Reap(st)
  BY <1>2, <1>3, DropType, Unpinned DEF Reap
<1>4. CASE WritePlaylist(st)
  <2> DEFINE x == [sess[st] EXCEPT !.playlist = TRUE]
  <2>1. x \in Sessions /\ x.sig = sess[st].sig /\ x.pinned = sess[st].pinned /\ x.alive = sess[st].alive
    BY <1>1, <1>4 DEF WritePlaylist, Has, Sessions
  <2>2. sess' = [sess EXCEPT ![st] = x] /\ UNCHANGED <<envVars, lingering, supVars>> /\ Has(st)
    BY <1>4 DEF WritePlaylist
  <2> HIDE DEF x
  <2>3. sess' \in [Streams -> Sessions \cup {None}] /\ lingering' \in Nat
    BY <2>1, <2>2 DEF TypeOK
  <2> QED
    BY <1>2, <2>1, <2>2, <2>3, Updated
<1>5. CASE SourceDies(st)
  <2> DEFINE x == [sess[st] EXCEPT !.alive = FALSE]
  <2>1. x \in Sessions /\ x.sig = sess[st].sig /\ x.pinned = sess[st].pinned /\ ~x.alive
    BY <1>1, <1>5 DEF SourceDies, Has, Sessions
  <2>2. sess' = [sess EXCEPT ![st] = x] /\ UNCHANGED <<envVars, lingering, supVars>> /\ Has(st)
    BY <1>5 DEF SourceDies
  <2> HIDE DEF x
  <2>3. sess' \in [Streams -> Sessions \cup {None}] /\ lingering' \in Nat
    BY <2>1, <2>2 DEF TypeOK
  <2> QED
    BY <1>2, <2>1, <2>2, <2>3, Updated
<1>6. ASSUME NEW g \in Sigs, ViewerStart(st, g)
      PROVE  AlwaysOnInv'
  <2>1. CASE Used < Slots
    <3> DEFINE x == NewSession(g)
    <3>1. sess' = [sess EXCEPT ![st] = x] /\ x \in Sessions /\ x.pinned = FALSE
      BY <1>6, <2>1, NewSessionType DEF ViewerStart
    <3> HIDE DEF x
    <3>2. sess' \in [Streams -> Sessions \cup {None}]
      BY <3>1 DEF TypeOK
    <3>3. lingering' \in Nat
      BY <1>6, <2>1 DEF ViewerStart, TypeOK, Lingers
    <3> QED
      BY <1>2, <1>6, <3>1, <3>2, <3>3, Unpinned DEF ViewerStart
  <2>2. CASE ~(Used < Slots)
    BY <1>2, <1>6, <2>2, DropType, Unpinned DEF ViewerStart
  <2> QED
    BY <2>1, <2>2
<1> QED
  BY <1>3, <1>4, <1>5, <1>6

(* Admin edits, time and exiting processes. *)
LEMMA QuietActions ==
  ASSUME AlwaysOnInv,
         \/ ProcessExits \/ Settle \/ UNCHANGED vars
         \/ \E st \in Streams : \/ Flag(st) \/ BackoffElapses(st) \/ Ripens(st)
                               \/ \E g \in Sigs : EditSource(st, g)
  PROVE  AlwaysOnInv'
<1> USE DEF AlwaysOnInv
<1>1. UNCHANGED <<sess, pc, cur, want, wasDead, todo>>
  BY DEF ProcessExits, Settle, Flag, BackoffElapses, Ripens, EditSource, vars, poolVars, supVars
<1>2. flagged' \subseteq Streams /\ source' \in [Streams -> Sigs] /\ calm' \in BOOLEAN
  BY DEF ProcessExits, Settle, Flag, BackoffElapses, Ripens, EditSource, vars, envVars, TypeOK
<1>3. lingering' \in Nat
  BY DEF ProcessExits, Settle, Flag, BackoffElapses, Ripens, EditSource, vars, poolVars, TypeOK
<1>4. states' \in [Streams -> States]
  <2>1. ASSUME NEW st \in Streams, BackoffElapses(st) \/ Ripens(st) PROVE states' \in [Streams -> States]
    <3>1. states[st] \in States
      BY DEF TypeOK
    <3>2. [states[st] EXCEPT !.backoff = FALSE] \in States /\ [states[st] EXCEPT !.ran = "long"] \in States
      BY <3>1 DEF States
    <3> QED
      BY <2>1, <3>2 DEF BackoffElapses, Ripens, TypeOK
  <2> QED
    BY <2>1 DEF ProcessExits, Settle, Flag, EditSource, vars, supVars, TypeOK
<1>5. TypeOK'
  BY <1>1, <1>2, <1>3, <1>4 DEF TypeOK, Wanted
<1> QED
  BY <1>1, <1>5, PoolStep, SamePins

-----------------------------------------------------------------------------
(* The supervisor. *)

LEMMA StateTypes ==
  /\ Failed \in States /\ NoState \in States
  /\ [backoff |-> FALSE, ran |-> "short"] \in States
  /\ \A x \in States : [x EXCEPT !.ran = "none"] \in States
  BY DEF Failed, NoState, States

(* A step within a pass that pins nothing. *)
LEMMA AtWork ==
  ASSUME AlwaysOnInv, NoNewPins, TypeOK', StartInv', UNCHANGED <<want, wasDead>>,
         todo' \subseteq todo, pc \notin {"idle", "loaded"}, pc' \notin {"idle", "loaded"},
         pc' \in Working => cur' \in Wanted
  PROVE  AlwaysOnInv'
<1> USE DEF AlwaysOnInv
<1>1. Wanted' = Wanted /\ PassInv'
  BY DEF PassInv, Wanted, MaxRelays
<1>2. Pinned' \subseteq Pinned
  BY DEF NoNewPins, Pinned, IsPinned
<1>3. PinsInv' /\ PinBudget'
  BY <1>1, <1>2, FewerPins DEF PinsInv
<1>4. DeadInv'
  BY DEF NoNewPins, DeadInv, TypeOK
<1> QED
  BY <1>1, <1>3, <1>4

(* The stream's turn ends, perhaps with a pin of its session. *)
LEMMA TurnEnds ==
  ASSUME AlwaysOnInv, TypeOK', UNCHANGED <<want, wasDead, cur>>, cur \in Wanted,
         todo' = todo \ {cur}, pc \notin {"idle", "loaded"}, pc' = "loop",
         \A st \in Streams \ {cur} : sess'[st] = sess[st]
  PROVE  AlwaysOnInv'
<1> USE DEF AlwaysOnInv
<1>1. Wanted' = Wanted /\ PassInv'
  BY DEF PassInv, Wanted, MaxRelays, Working
<1>2. Pinned' \subseteq Pinned \cup {cur}
  BY DEF Pinned, Has
<1>3. PinsInv'
  BY <1>1, <1>2 DEF PinsInv
<1>4. PinBudget'
  <2>1. Pinned' \in SUBSET Wanted /\ Wanted \in SUBSET Streams
    BY <1>1, <1>2 DEF PinsInv, Wanted
  <2>2. Cardinality(Pinned') <= Cardinality(Wanted)
    BY <2>1, StreamSets
  <2> QED
    BY <2>1, <2>2, StreamSets, MaxRelaysType DEF PassInv, PinBudget, MaxRelays
<1>5. DeadInv'
  BY DEF DeadInv, IsPinned, Has, TypeOK
<1>6. StartInv'
  BY DEF StartInv
<1> QED
  BY <1>1, <1>3, <1>4, <1>5, <1>6

LEMMA LoadStep ==
  ASSUME AlwaysOnInv, Load
  PROVE  AlwaysOnInv'
<1> USE DEF AlwaysOnInv
<1>1. /\ pc = "idle" /\ pc' = "loaded" /\ todo = {}
      /\ want' = [st \in Streams |-> IF st \in FirstRelays(flagged) THEN source[st] ELSE None]
      /\ UNCHANGED <<flagged, source, calm, sess, lingering, cur, wasDead, todo, states>>
  BY DEF Load, PassInv, envVars, poolVars
<1>2. FirstRelays(flagged) \subseteq Streams /\ Cardinality(FirstRelays(flagged)) <= MaxRelays
  BY FirstRelaysFew DEF TypeOK
<1>3. \A st \in Streams : source[st] \in Sigs /\ source[st] # None
  BY NoneAssumption DEF TypeOK
<1>4. Wanted' = FirstRelays(flagged)
  BY <1>1, <1>2, <1>3 DEF Wanted
<1>5. PassInv'
  BY <1>1, <1>2, <1>4 DEF PassInv, Working, MaxRelays
<1>6. TypeOK'
  BY <1>1, <1>3 DEF TypeOK
<1>7. PinBudget'
  BY <1>1 DEF PinBudget, Pinned, Has, MaxRelays
<1>8. PinsInv' /\ DeadInv' /\ StartInv'
  BY <1>1 DEF PinsInv, DeadInv, StartInv
<1> QED
  BY <1>5, <1>6, <1>7, <1>8

LEMMA SnapshotStep ==
  ASSUME AlwaysOnInv, Snapshot
  PROVE  AlwaysOnInv'
<1> USE DEF AlwaysOnInv
<1> DEFINE unwanted == Pinned \ Wanted
<1>1. /\ pc = "loaded" /\ pc' = "loop" /\ todo' = Wanted
      /\ sess' = [st \in Streams |-> IF st \in unwanted THEN [sess[st] EXCEPT !.pinned = FALSE] ELSE sess[st]]
      /\ states' = [st \in Streams |-> IF st \in unwanted THEN NoState ELSE states[st]]
      /\ wasDead' = {st \in Pinned : ~sess[st].alive}
      /\ UNCHANGED <<flagged, source, calm, lingering, cur, want>>
  BY DEF Snapshot, envVars
<1>2. \A st \in Pinned : st \in Streams /\ sess[st] \in Sessions
  BY DEF Pinned, Has, TypeOK
<1>3. ASSUME NEW st \in Streams
      PROVE  sess'[st] \in Sessions \cup {None} /\ (st \in unwanted => ~sess'[st].pinned)
  <2>1. CASE st \in unwanted
    BY <1>1, <1>2, <2>1, SessionUpdates
  <2>2. CASE st \notin unwanted
    BY <1>1, <2>2 DEF TypeOK
  <2> QED
    BY <2>1, <2>2
<1>4. sess' \in [Streams -> Sessions \cup {None}]
  BY <1>1, <1>3
<1>5. Wanted' = Wanted
  BY <1>1 DEF Wanted
<1>6. Pinned' \subseteq Pinned \cap Wanted
  BY <1>1, <1>3 DEF Pinned, Has
<1>7. TypeOK'
  <2>1. states' \in [Streams -> States]
    BY <1>1, StateTypes DEF TypeOK
  <2>2. wasDead' \subseteq Streams /\ todo' \subseteq Wanted'
    BY <1>1, <1>2, <1>5
  <2> QED
    BY <1>1, <1>4, <2>1, <2>2 DEF TypeOK
<1>8. PinBudget' /\ PinsInv'
  BY <1>5, <1>6, FewerPins DEF PinsInv
<1>9. PassInv' /\ StartInv'
  BY <1>1, <1>5 DEF PassInv, StartInv, Working, MaxRelays
<1>10. DeadInv'
  <2> SUFFICES ASSUME NEW st \in wasDead' \cap todo' PROVE ~sess'[st].alive
    BY DEF DeadInv
  <2>1. st \in Pinned /\ ~sess[st].alive /\ st \notin unwanted
    BY <1>1
  <2> QED
    BY <1>1, <1>2, <2>1
<1> QED
  BY <1>7, <1>8, <1>9, <1>10

LEMMA EndPassStep ==
  ASSUME AlwaysOnInv, EndPass
  PROVE  AlwaysOnInv'
<1> USE DEF AlwaysOnInv
<1>1. /\ pc = "loop" /\ pc' = "idle" /\ todo = {} /\ cur' = None /\ wasDead' = {}
      /\ want' = [st \in Streams |-> None]
      /\ UNCHANGED <<flagged, source, calm, sess, lingering, todo, states>>
  BY DEF EndPass, envVars, poolVars
<1>2. Wanted' = {}
  BY <1>1 DEF Wanted
<1>3. PassInv'
  BY <1>1, <1>2, FS_EmptySet, MaxRelaysType DEF PassInv, Working, MaxRelays
<1>4. TypeOK'
  BY <1>1, <1>2 DEF TypeOK
<1>5. PinBudget'
  BY <1>1 DEF PinBudget, Pinned, Has, MaxRelays
<1>6. PinsInv' /\ DeadInv' /\ StartInv'
  BY <1>1 DEF PinsInv, DeadInv, StartInv
<1> QED
  BY <1>3, <1>4, <1>5, <1>6

LEMMA TakeStep ==
  ASSUME AlwaysOnInv, NEW st \in Streams, Take(st)
  PROVE  AlwaysOnInv'
<1>1. /\ pc = "loop" /\ st \in todo /\ cur' = st /\ pc' = "probe"
      /\ UNCHANGED <<flagged, source, calm, sess, lingering, want, wasDead, todo, states>>
  BY DEF Take, envVars, poolVars
<1>2. TypeOK' /\ st \in Wanted
  BY <1>1 DEF AlwaysOnInv, TypeOK, Wanted
<1>3. StartInv'
  BY <1>1 DEF StartInv
<1> QED
  BY <1>1, <1>2, <1>3, AtWork, SamePins

LEMMA StopDeadStep ==
  ASSUME AlwaysOnInv, NEW st \in Streams, StopDead(st)
  PROVE  AlwaysOnInv'
<1>1. /\ pc = "loop" /\ st \in todo /\ cur' = st /\ pc' \in {"loop", "probe"} /\ Drop(st)
      /\ todo' \subseteq todo
      /\ UNCHANGED <<flagged, source, calm, want, wasDead>>
  BY DEF StopDead, envVars
<1>2. states' \in [Streams -> States]
  <2>1. states[st] \in States
    BY DEF AlwaysOnInv, TypeOK
  <2>2. [states[st] EXCEPT !.ran = "none"] \in States
    BY <2>1, StateTypes
  <2> QED
    BY <2>2, StateTypes DEF StopDead, AlwaysOnInv, TypeOK
<1>3. TypeOK' /\ st \in Wanted
  BY <1>1, <1>2, DropType DEF AlwaysOnInv, TypeOK, Wanted
<1>4. StartInv'
  BY <1>1 DEF StartInv
<1>5. NoNewPins
  BY <1>1, DropType, Unpinned DEF AlwaysOnInv
<1> QED
  BY <1>1, <1>3, <1>4, <1>5, AtWork

(* What holds while the supervisor works on a stream. *)
LEMMA CurFacts ==
  ASSUME AlwaysOnInv, pc \in Working
  PROVE  /\ cur \in Wanted /\ cur \in Streams /\ want[cur] \in Sigs
         /\ (Has(cur) => sess[cur] \in Sessions) /\ states[cur] \in States
  BY DEF AlwaysOnInv, PassInv, TypeOK, Wanted, Has

LEMMA NextStreamType ==
  ASSUME AlwaysOnInv, cur \in Streams, NextStream, UNCHANGED envVars,
         sess' \in [Streams -> Sessions \cup {None}], lingering' \in Nat,
         states' \in [Streams -> States]
  PROVE  TypeOK'
  BY DEF AlwaysOnInv, TypeOK, NextStream, envVars, Wanted

LEMMA ProbeStep ==
  ASSUME AlwaysOnInv, ProbeFound \/ ProbeMissing
  PROVE  AlwaysOnInv'
<1>1. pc \in Working /\ UNCHANGED <<flagged, source, calm, cur, want, wasDead, states>>
  BY DEF Working, ProbeFound, ProbeMissing, NextStream, envVars
<1>2. cur \in Wanted /\ cur \in Streams
  BY <1>1, CurFacts
<1>3. CASE ProbeFound
  <2>1. TypeOK' /\ NoNewPins
    BY <1>3, SamePins DEF ProbeFound, AlwaysOnInv, TypeOK, envVars, poolVars, Wanted
  <2>2. StartInv'
    BY <1>3 DEF ProbeFound, StartInv
  <2> QED
    BY <1>2, <1>3, <2>1, <2>2, AtWork DEF ProbeFound, Wanted
<1>4. CASE ProbeMissing
  <2>1. /\ pc = "probe" /\ pc' \in {"loop", "start"} /\ todo' \subseteq todo
        /\ IF Has(cur) /\ sess[cur].sig = want[cur] THEN Drop(cur) ELSE UNCHANGED poolVars
    BY <1>4 DEF ProbeMissing, NextStream
  <2>2. /\ sess' \in [Streams -> Sessions \cup {None}] /\ lingering' \in Nat /\ NoNewPins
        /\ (Has(cur) /\ sess[cur].sig = want[cur] => sess'[cur] = None)
    <3>1. CASE Has(cur) /\ sess[cur].sig = want[cur]
      <4>1. Drop(cur)
        BY <2>1, <3>1
      <4> QED
        BY <1>2, <4>1, DropType, Unpinned DEF AlwaysOnInv, TypeOK
    <3>2. CASE ~(Has(cur) /\ sess[cur].sig = want[cur])
      <4>1. UNCHANGED poolVars
        BY <2>1, <3>2
      <4> QED
        BY <3>2, <4>1, SamePins DEF poolVars, AlwaysOnInv, TypeOK
    <3> QED
      BY <3>1, <3>2
  <2>3. TypeOK'
    BY <1>1, <2>1, <2>2 DEF AlwaysOnInv, TypeOK, Wanted
  <2>4. IsPinned(cur)' => IsPinned(cur) /\ sess'[cur].sig = sess[cur].sig
    BY <1>1, <1>2, <2>2 DEF NoNewPins, IsPinned, Has
  <2>5. StartInv'
    BY <1>1, <2>1, <2>2, <2>4 DEF StartInv, IsPinned, Has
  <2> QED
    BY <1>1, <1>2, <2>1, <2>2, <2>3, <2>5, AtWork DEF Wanted
<1> QED
  BY <1>3, <1>4

LEMMA PinStep ==
  ASSUME AlwaysOnInv, Adopt \/ Pin
  PROVE  AlwaysOnInv'
<1>1. /\ pc \in {"adopt", "pin"} /\ pc' = "loop" /\ todo' = todo \ {cur} /\ PinCurrent /\ NextStream
      /\ UNCHANGED <<flagged, source, calm, lingering, cur, want, wasDead>>
  BY DEF Adopt, Pin, NextStream, envVars
<1>2. cur \in Wanted /\ cur \in Streams /\ (Has(cur) => sess[cur] \in Sessions)
  BY <1>1, CurFacts DEF Working
<1>3. states' \in [Streams -> States]
  BY StateTypes DEF Adopt, Pin, AlwaysOnInv, TypeOK
<1>4. /\ sess' \in [Streams -> Sessions \cup {None}]
      /\ \A st \in Streams \ {cur} : sess'[st] = sess[st]
  <2>1. CASE Has(cur)
    <3> DEFINE x == [sess[cur] EXCEPT !.pinned = TRUE, !.awaited = FALSE]
    <3>1. x \in Sessions
      BY <1>2, <2>1, SessionUpdates
    <3>2. sess' = [sess EXCEPT ![cur] = x]
      <4>1. sess' = [sess EXCEPT ![cur].pinned = TRUE, ![cur].awaited = FALSE]
        BY <1>1, <2>1 DEF PinCurrent
      <4> QED
        BY <1>2, <2>1, <4>1 DEF AlwaysOnInv, TypeOK, Sessions, Has
    <3> HIDE DEF x
    <3> QED
      BY <3>1, <3>2 DEF AlwaysOnInv, TypeOK
  <2>2. CASE ~Has(cur)
    BY <1>1, <2>2 DEF PinCurrent, AlwaysOnInv, TypeOK
  <2> QED
    BY <2>1, <2>2
<1>5. TypeOK'
  BY <1>1, <1>2, <1>3, <1>4, NextStreamType DEF envVars, AlwaysOnInv, TypeOK
<1> QED
  BY <1>1, <1>2, <1>4, <1>5, TurnEnds

(* Waiting for a session: nothing but its awaited mark changes. *)
LEMMA StartFindsStep ==
  ASSUME AlwaysOnInv, StartFinds
  PROVE  AlwaysOnInv'
<1> DEFINE x == [sess[cur] EXCEPT !.awaited = TRUE]
<1>1. /\ pc = "start" /\ pc' = "wait" /\ Has(cur) /\ sess[cur].sig = want[cur]
      /\ sess' = [sess EXCEPT ![cur].awaited = TRUE]
      /\ UNCHANGED <<flagged, source, calm, lingering, cur, want, wasDead, todo, states>>
  BY DEF StartFinds, Reusable, envVars
<1>2. cur \in Wanted /\ cur \in Streams /\ sess[cur] \in Sessions
  BY <1>1, CurFacts DEF Working
<1>3. x \in Sessions /\ x.sig = sess[cur].sig /\ x.pinned = sess[cur].pinned /\ x.alive = sess[cur].alive
  BY <1>2 DEF Sessions
<1>4. sess' = [sess EXCEPT ![cur] = x]
  BY <1>1
<1> HIDE DEF x
<1>5. NoNewPins
  BY <1>1, <1>2, <1>3, <1>4, Updated DEF AlwaysOnInv
<1>6. TypeOK'
  BY <1>1, <1>3, <1>4 DEF AlwaysOnInv, TypeOK, Wanted
<1>7. ~IsPinned(cur)
  BY <1>1 DEF AlwaysOnInv, StartInv
<1>8. StartInv'
  BY <1>1, <1>2, <1>5, <1>7 DEF NoNewPins, StartInv, IsPinned, Has
<1> QED
  BY <1>1, <1>2, <1>5, <1>6, <1>8, AtWork DEF Wanted

(* Steps that drop the stream's session and go on, or give up. *)
LEMMA DroppingSteps ==
  ASSUME AlwaysOnInv, StartOpens \/ StartRefused \/ WaitFails
  PROVE  AlwaysOnInv'
<1>1. /\ pc \in {"start", "wait"} /\ pc' \in {"opening", "loop"} /\ Drop(cur)
      /\ UNCHANGED <<flagged, source, calm, cur, want, wasDead>> /\ todo' \subseteq todo
  BY DEF StartOpens, StartRefused, WaitFails, NextStream, envVars
<1>2. cur \in Wanted /\ cur \in Streams
  BY <1>1, CurFacts DEF Working
<1>3. states' \in [Streams -> States]
  BY StateTypes DEF StartOpens, StartRefused, WaitFails, AlwaysOnInv, TypeOK
<1>4. TypeOK' /\ sess'[cur] = None
  BY <1>1, <1>2, <1>3, DropType DEF AlwaysOnInv, TypeOK, Wanted
<1>5. NoNewPins
  BY <1>1, <1>2, DropType, Unpinned DEF AlwaysOnInv
<1>6. StartInv'
  BY <1>1, <1>4 DEF StartInv, IsPinned, Has
<1> QED
  BY <1>1, <1>2, <1>4, <1>5, <1>6, AtWork DEF Wanted

LEMMA OpenStep ==
  ASSUME AlwaysOnInv, OpenFails \/ OpenSucceeds \/ WaitServed
  PROVE  AlwaysOnInv'
<1>1. /\ pc \in {"opening", "wait"} /\ pc' \in {"loop", "wait", "pin"} /\ todo' \subseteq todo
      /\ UNCHANGED <<flagged, source, calm, lingering, cur, want, wasDead>>
  BY DEF OpenFails, OpenSucceeds, WaitServed, NextStream, envVars, poolVars
<1>2. /\ cur \in Wanted /\ cur \in Streams /\ want[cur] \in Sigs
      /\ (Has(cur) => sess[cur] \in Sessions) /\ ~IsPinned(cur)
  BY <1>1, CurFacts DEF Working, AlwaysOnInv, StartInv
<1>3. states' \in [Streams -> States]
  BY StateTypes DEF OpenFails, OpenSucceeds, WaitServed, AlwaysOnInv, TypeOK
<1>4. sess' \in [Streams -> Sessions \cup {None}] /\ NoNewPins
  <2>1. CASE OpenFails \/ WaitServed
    BY <2>1, SamePins DEF OpenFails, WaitServed, poolVars, AlwaysOnInv, TypeOK
  <2>2. CASE OpenSucceeds /\ Has(cur)
    <3> DEFINE x == [sess[cur] EXCEPT !.awaited = TRUE]
    <3>1. /\ x \in Sessions /\ x.sig = sess[cur].sig /\ x.pinned = sess[cur].pinned
          /\ x.alive = sess[cur].alive
      BY <1>2, <2>2 DEF Sessions
    <3>2. sess' = [sess EXCEPT ![cur] = x]
      BY <2>2 DEF OpenSucceeds
    <3> HIDE DEF x
    <3> QED
      BY <1>2, <2>2, <3>1, <3>2, Updated DEF AlwaysOnInv, TypeOK
  <2>3. CASE OpenSucceeds /\ ~Has(cur)
    <3> DEFINE x == [NewSession(want[cur]) EXCEPT !.awaited = TRUE]
    <3>1. x \in Sessions /\ x.pinned = FALSE
      BY <1>2, NewSessionType
    <3>2. sess' = [sess EXCEPT ![cur] = x]
      BY <2>3 DEF OpenSucceeds
    <3> HIDE DEF x
    <3> QED
      BY <1>2, <3>1, <3>2, Unpinned DEF AlwaysOnInv, TypeOK
  <2> QED
    BY <2>1, <2>2, <2>3
<1>5. TypeOK'
  BY <1>1, <1>3, <1>4 DEF AlwaysOnInv, TypeOK, Wanted
<1>6. StartInv'
  BY <1>1, <1>2, <1>4 DEF NoNewPins, StartInv, IsPinned, Has
<1> QED
  BY <1>1, <1>2, <1>4, <1>5, <1>6, AtWork DEF Wanted

LEMMA AlwaysOnInvInit == Init => AlwaysOnInv
<1> SUFFICES ASSUME Init PROVE AlwaysOnInv
  OBVIOUS
<1>1. Wanted = {} /\ Pinned = {}
  BY DEF Init, Wanted, Pinned, Has
<1>2. PassInv /\ PinBudget
  BY <1>1, FS_EmptySet, MaxRelaysType DEF Init, PassInv, PinBudget, Working
<1>3. TypeOK
  BY StateTypes DEF Init, TypeOK
<1> QED
  BY <1>2, <1>3 DEF Init, AlwaysOnInv, PinsInv, DeadInv, StartInv

LEMMA AlwaysOnInvNext == AlwaysOnInv /\ [Next]_vars => AlwaysOnInv'
<1> SUFFICES ASSUME AlwaysOnInv, [Next]_vars PROVE AlwaysOnInv'
  OBVIOUS
<1>1. CASE Supervisor
  BY <1>1, LoadStep, SnapshotStep, EndPassStep, TakeStep, StopDeadStep, ProbeStep, PinStep,
     StartFindsStep, DroppingSteps, OpenStep, Zenon DEF Supervisor
<1>2. CASE \/ ProcessExits \/ Settle \/ UNCHANGED vars
           \/ \E st \in Streams : \/ Flag(st) \/ BackoffElapses(st) \/ Ripens(st)
                                 \/ \E g \in Sigs : EditSource(st, g)
  BY <1>2, QuietActions
<1>3. CASE \E st \in Streams : \/ Reap(st) \/ WritePlaylist(st) \/ SourceDies(st)
                             \/ \E g \in Sigs : ViewerStart(st, g)
  BY <1>3, PoolActions
<1> QED
  BY <1>1, <1>2, <1>3, Zenon DEF Next

THEOREM AlwaysOnInvariant == Spec => []AlwaysOnInv
  BY AlwaysOnInvInit, AlwaysOnInvNext, PTL DEF Spec

-----------------------------------------------------------------------------
(* The supervisor's and the pool's state keep their shape, and what is left
   to do in a pass is always among the wanted streams. *)
THEOREM TypesAlways == Spec => []TypeOK
  BY AlwaysOnInvariant, PTL DEF AlwaysOnInv

(* No interleaving of viewers, edits and dying sources makes the supervisor
   pin more sessions than it may relay. *)
THEOREM PinBudgetAlways == Spec => []PinBudget
  BY AlwaysOnInvariant, PTL DEF AlwaysOnInv

(* What a step that takes a healthy relay away must have been. *)
LostFor(st) ==
    \/ \E g \in Sigs \ {sess[st].sig} :
          \/ ViewerStart(st, g)
          \/ pc = "start" /\ cur = st /\ want[st] = g
    \/ pc = "loaded" /\ st \notin Wanted

LEMMA PinStays ==
  ASSUME TypeOK, NEW t \in Streams, NEW x \in Sessions, sess' = [sess EXCEPT ![t] = x],
         NEW st \in Streams, Has(st), sess[st].pinned, sess[t].pinned => x.pinned
  PROVE  sess'[st] # None /\ sess'[st].pinned
<1>1. CASE t = st
  <2>1. sess'[st] = x
    BY <1>1 DEF TypeOK
  <2> QED
    BY <1>1, <2>1, SessionNotNone
<1>2. CASE t # st
  <2>1. sess'[st] = sess[st]
    BY <1>2 DEF TypeOK
  <2> QED
    BY <2>1 DEF Has
<1> QED
  BY <1>1, <1>2

LEMMA LostOnlyFor ==
  ASSUME AlwaysOnInv, [Next]_vars, NEW st \in Pinned, Live(st),
         ~(sess'[st] # None /\ sess'[st].pinned)
  PROVE  LostFor(st)
<1>1. /\ st \in Streams /\ Has(st) /\ sess[st].pinned /\ sess[st].alive
      /\ sess[st] \in Sessions /\ IsPinned(st)
  BY DEF Pinned, Live, Has, AlwaysOnInv, TypeOK, IsPinned
<1>2. ASSUME NEW t \in Streams, Drop(t) PROVE t = st
  BY <1>1, <1>2 DEF Drop, AlwaysOnInv, TypeOK, Has
<1>3. sess'[st] # sess[st] /\ sess' # sess
  BY <1>1 DEF Has
<1>4. ASSUME NEW t \in Streams, \/ Reap(t) \/ WritePlaylist(t) \/ SourceDies(t)
      PROVE  FALSE
  <2>1. CASE Reap(t)
    BY <1>1, <1>2, <2>1 DEF Reap
  <2>2. CASE WritePlaylist(t)
    <3> DEFINE x == [sess[t] EXCEPT !.playlist = TRUE]
    <3>1. sess[t] \in Sessions /\ sess' = [sess EXCEPT ![t] = x]
      BY <2>2 DEF WritePlaylist, Has, AlwaysOnInv, TypeOK
    <3>2. x \in Sessions /\ x.pinned = sess[t].pinned
      BY <3>1 DEF Sessions
    <3> HIDE DEF x
    <3> QED
      BY <1>1, <3>1, <3>2, PinStays DEF AlwaysOnInv
  <2>3. CASE SourceDies(t)
    <3> DEFINE x == [sess[t] EXCEPT !.alive = FALSE]
    <3>1. sess[t] \in Sessions /\ sess' = [sess EXCEPT ![t] = x]
      BY <2>3 DEF SourceDies, Has, AlwaysOnInv, TypeOK
    <3>2. x \in Sessions /\ x.pinned = sess[t].pinned
      BY <3>1 DEF Sessions
    <3> HIDE DEF x
    <3> QED
      BY <1>1, <3>1, <3>2, PinStays DEF AlwaysOnInv
  <2> QED
    BY <1>4, <2>1, <2>2, <2>3
<1>5. ASSUME NEW t \in Streams, NEW g \in Sigs, ViewerStart(t, g)
      PROVE  LostFor(st)
  <2>1. t = st
    BY <1>1, <1>3, <1>5 DEF ViewerStart, Drop, AlwaysOnInv, TypeOK
  <2>2. g # sess[st].sig
    BY <1>1, <1>5, <2>1 DEF ViewerStart, Reusable
  <2> QED
    BY <1>5, <2>1, <2>2 DEF LostFor
<1>6. ~(\/ ProcessExits \/ Settle \/ UNCHANGED vars
        \/ \E t \in Streams : \/ Flag(t) \/ BackoffElapses(t) \/ Ripens(t)
                             \/ \E g \in Sigs : EditSource(t, g))
  BY <1>3 DEF ProcessExits, Settle, Flag, BackoffElapses, Ripens, EditSource, vars, poolVars
<1>7. ASSUME Snapshot PROVE LostFor(st)
  BY <1>1, <1>3, <1>7 DEF Snapshot, LostFor, Pinned
<1>8. ASSUME NEW t \in Streams, StopDead(t) PROVE FALSE
  <2>1. Drop(t) /\ t \in wasDead \cap todo
    BY <1>8 DEF StopDead
  <2> QED
    BY <1>1, <1>2, <2>1 DEF AlwaysOnInv, DeadInv
<1>9. ASSUME pc \in Working PROVE cur \in Streams /\ want[cur] \in Sigs
  BY <1>9, CurFacts
<1>10. ASSUME ProbeMissing PROVE FALSE
  <2>1. pc = "probe" /\ Drop(cur) /\ ~Reusable(cur, want[cur]) /\ sess[cur].sig = want[cur]
    BY <1>3, <1>10 DEF ProbeMissing, poolVars
  <2> QED
    BY <1>1, <1>2, <1>9, <2>1 DEF Reusable, Working
<1>11. ASSUME Adopt \/ Pin PROVE FALSE
  <2>1. pc \in {"adopt", "pin"} /\ PinCurrent
    BY <1>11 DEF Adopt, Pin
  <2>2. cur \in Streams /\ Has(cur) /\ sess[cur] \in Sessions
    BY <1>3, <1>9, <2>1 DEF PinCurrent, Working, Has, AlwaysOnInv, TypeOK
  <2> DEFINE x == [sess[cur] EXCEPT !.pinned = TRUE, !.awaited = FALSE]
  <2>3. sess' = [sess EXCEPT ![cur].pinned = TRUE, ![cur].awaited = FALSE]
    BY <2>1, <2>2 DEF PinCurrent
  <2>4. sess' = [sess EXCEPT ![cur] = x]
    BY <2>2, <2>3 DEF AlwaysOnInv, TypeOK
  <2>5. x \in Sessions /\ x.pinned
    BY <2>2 DEF Sessions
  <2> HIDE DEF x
  <2> QED
    BY <1>1, <2>2, <2>4, <2>5, PinStays DEF AlwaysOnInv
<1>12. ASSUME StartFinds \/ OpenSucceeds PROVE FALSE
  <2>1. CASE StartFinds
    <3> DEFINE x == [sess[cur] EXCEPT !.awaited = TRUE]
    <3>1. cur \in Streams /\ sess[cur] \in Sessions /\ sess' = [sess EXCEPT ![cur] = x]
      BY <1>9, <2>1 DEF StartFinds, Reusable, Working, Has, AlwaysOnInv, TypeOK
    <3>2. x \in Sessions /\ x.pinned = sess[cur].pinned
      BY <3>1 DEF Sessions
    <3> HIDE DEF x
    <3> QED
      BY <1>1, <3>1, <3>2, PinStays DEF AlwaysOnInv
  <2>2. CASE OpenSucceeds
    <3>1. pc = "opening" /\ cur # st
      BY <1>1, <2>2 DEF OpenSucceeds, AlwaysOnInv, StartInv
    <3> QED
      BY <1>1, <1>3, <1>9, <2>2, <3>1 DEF OpenSucceeds, Working, AlwaysOnInv, TypeOK
  <2> QED
    BY <1>12, <2>1, <2>2
<1>13. ASSUME StartOpens \/ StartRefused PROVE LostFor(st)
  <2>1. pc = "start" /\ Drop(cur) /\ ~Reusable(cur, want[cur])
    BY <1>13 DEF StartOpens, StartRefused
  <2>2. cur = st /\ want[cur] \in Sigs
    BY <1>2, <1>9, <2>1 DEF Working
  <2>3. want[st] # sess[st].sig
    BY <1>1, <2>1, <2>2 DEF Reusable
  <2> QED
    BY <2>1, <2>2, <2>3 DEF LostFor
<1>14. ASSUME WaitFails PROVE FALSE
  <2>1. pc = "wait" /\ Drop(cur)
    BY <1>14 DEF WaitFails
  <2> QED
    BY <1>1, <1>2, <1>9, <2>1 DEF Working, AlwaysOnInv, StartInv
<1>15. ASSUME \/ Load \/ EndPass \/ ProbeFound \/ OpenFails \/ WaitServed
              \/ \E t \in Streams : Take(t)
       PROVE  FALSE
  BY <1>3, <1>15 DEF Load, EndPass, ProbeFound, OpenFails, WaitServed, Take, poolVars
<1>16. CASE Supervisor
  BY <1>7, <1>8, <1>10, <1>11, <1>12, <1>13, <1>14, <1>15, <1>16, Zenon DEF Supervisor
<1> QED
  BY <1>4, <1>5, <1>6, <1>16, Zenon DEF Next

(* The supervisor acts on an outdated snapshot and stops the session it
   finds after a failed wait: neither ever hits a live, pinned relay. *)
THEOREM HealthyRelayKeptAlways == Spec => HealthyRelayKept
<1>1. AlwaysOnInv /\ [Next]_vars =>
        [\A st \in Pinned : Live(st) /\ ~(sess'[st] # None /\ sess'[st].pinned) =>
            \/ \E g \in Sigs \ {sess[st].sig} :
                  \/ ViewerStart(st, g)
                  \/ pc = "start" /\ cur = st /\ want[st] = g
            \/ pc = "loaded" /\ st \notin Wanted]_vars
  BY LostOnlyFor DEF LostFor
<1> QED
  BY <1>1, AlwaysOnInvariant, PTL DEF Spec, HealthyRelayKept

-----------------------------------------------------------------------------
(***************************************************************************)
(* HlsPull: the window is never left, and segments are written once and in *)
(* order.                                                                  *)
(***************************************************************************)
SourceStep == Toggle \/ Close \/ End
                \/ (\E seq \in 0..MaxSeq : Publish(seq)) \/ (\E p \in Playlist : Restart(p))

LEMMA PullNextIsStep == PullNext = (SourceStep \/ Pull)
BY DEF PullNext, SourceStep

LEMMA PlaylistFields ==
  ASSUME NEW p \in Playlist
  PROVE  /\ p.epoch \in 1..MaxEpoch /\ p.seq \in 0..MaxSeq /\ p.last \in 0..MaxSeq
         /\ p.ended \in BOOLEAN /\ p.seq <= p.last
BY DEF Playlist

(* Join always answers with a segment of the playlist or the one after it. *)
LEMMA JoinInRange ==
  ASSUME NEW p \in Playlist, next \in -1..MaxSeq + 1
  PROVE  Join(p) \in p.seq..p.last + 1
<1>1. p.seq \in 0..MaxSeq /\ p.last \in 0..MaxSeq /\ p.seq <= p.last
  BY PlaylistFields
<1>2. QED
  BY <1>1, BoundsAssumption DEF Join, LiveEdge

-----------------------------------------------------------------------------
LEMMA PullTypeInductive == PullTypeOK /\ [PullNext]_pullVars => PullTypeOK'
<1> SUFFICES ASSUME PullTypeOK, [PullNext]_pullVars PROVE PullTypeOK'
  OBVIOUS
<1> USE BoundsAssumption, CachesAssumption
<1>1. CASE UNCHANGED pullVars
  BY <1>1 DEF PullTypeOK, pullVars, upstream, puller
<1>2. CASE SourceStep
  <2>1. CASE Toggle \/ Close
    BY <2>1 DEF PullTypeOK, Toggle, Close, upstream, puller
  <2>2. ASSUME NEW p \in Playlist, Show(p), UNCHANGED <<up, open, puller, out>>
        PROVE  PullTypeOK'
    BY <2>2 DEF PullTypeOK, Show, puller
  <2>3. CASE End
    <3>1. [shown EXCEPT !.ended = TRUE] \in Playlist
      BY DEF PullTypeOK, Playlist
    <3>2. QED
      BY <2>3, <3>1, <2>2 DEF End
  <2>4. ASSUME NEW seq \in 0..MaxSeq, Publish(seq)
        PROVE  PullTypeOK'
    <3> DEFINE p == [shown EXCEPT !.seq = seq, !.last = @ + 1]
    <3>a. shown \in [epoch : 1..MaxEpoch, seq : 0..MaxSeq, last : 0..MaxSeq, ended : BOOLEAN]
      BY DEF PullTypeOK, Playlist
    <3>b. shown.last + 1 \in 0..MaxSeq /\ seq <= shown.last + 1
      BY <2>4, <3>a DEF Publish
    <3>c. /\ p \in [epoch : 1..MaxEpoch, seq : 0..MaxSeq, last : 0..MaxSeq, ended : BOOLEAN]
          /\ p.seq = seq /\ p.last = shown.last + 1
      BY <3>a, <3>b
    <3>1. p \in Playlist
      BY <3>b, <3>c DEF Playlist
    <3>2. QED
      BY <2>4, <3>1, <2>2 DEF Publish
  <2>5. ASSUME NEW p \in Playlist, Restart(p)
        PROVE  PullTypeOK'
    BY <2>5, <2>2 DEF Restart
  <2>6. QED
    BY <1>2, <2>1, <2>3, <2>4, <2>5 DEF SourceStep
<1>3. CASE Pull
  <2>1. CASE LoadMedia
    <3>1. PICK p \in {shown, old} : m' = p /\ next' = Join(p)
      BY <2>1 DEF LoadMedia
    <3>2. p \in Playlist /\ p.seq \in 0..MaxSeq /\ p.last \in 0..MaxSeq
      BY <3>1, PlaylistFields DEF PullTypeOK
    <3>3. next' \in -1..MaxSeq + 1
      BY <3>1, <3>2, JoinInRange DEF PullTypeOK
    <3>4. QED
      BY <2>1, <3>1, <3>2, <3>3 DEF PullTypeOK, LoadMedia, Goto, upstream
  <2>2. CASE LoadFails
    <3>1. /\ failures' \in 0..MaxFailures /\ stage' \in {"done", "load"}
          /\ stage' # "done" => failures' < MaxFailures
      <4>1. failures \in 0..MaxFailures - 1 /\ failures' = failures + 1
        BY <2>2 DEF PullTypeOK, LoadFails, FailedLoads
      <4>2. stage' = IF failures' >= MaxFailures THEN "done" ELSE "load"
        BY <2>2 DEF LoadFails, GivesUp, FailedLoads, Goto
      <4>3. QED
        BY <4>1, <4>2
    <3>2. QED
      BY <2>2, <3>1 DEF PullTypeOK, LoadFails, upstream
  <2>3. CASE Copy
    <3>a. m \in Playlist
      BY <2>3 DEF PullTypeOK, Copy
    <3>1. m.epoch \in 1..MaxEpoch /\ m.last \in 0..MaxSeq
      BY <3>a, PlaylistFields
    <3>2. next \in -1..MaxSeq
      BY <2>3, <3>1 DEF PullTypeOK, Copy
    <3>3. QED
      BY <2>3, <3>a, <3>1, <3>2 DEF PullTypeOK, Copy, upstream
  <2>4. CASE Resolve \/ Refuse \/ NotTS \/ AllCopied \/ Wake \/ Stop
    BY <2>4 DEF PullTypeOK, Resolve, Refuse, NotTS, AllCopied, Wake, Stop, Goto, upstream
  <2>5. QED
    BY <1>3, <2>1, <2>2, <2>3, <2>4 DEF Pull
<1>4. QED
  BY <1>1, <1>2, <1>3, PullNextIsStep

(* The puller's playlist, position and failure count keep their types, whatever
   windows the source shows (hlspull.go:48-113). *)
THEOREM PullTypesAlways == PullSpec => []PullTypeOK
<1>1. PullInit => PullTypeOK
  BY BoundsAssumption DEF PullInit, PullTypeOK, NoList, NoSegment, Playlist
<1>2. QED
  BY <1>1, PullTypeInductive, PTL DEF PullSpec

(* The index is in range from the load on: what is loaded with a playlist is a
   number of it, and copying only moves it up (hlspull.go:91-100). *)
THEOREM IndexAlwaysInRange == PullSpec => []IndexInRange
<1> DEFINE I == stage = "copy" => next >= m.seq
<1>1. PullInit => I
  BY DEF PullInit
<1>2. PullTypeOK /\ I /\ [PullNext]_pullVars => I'
  <2> SUFFICES ASSUME PullTypeOK, I, [PullNext]_pullVars PROVE I'
    OBVIOUS
  <2>1. CASE UNCHANGED pullVars \/ SourceStep
    BY <2>1 DEF pullVars, SourceStep, Toggle, Close, End, Publish, Restart, puller
  <2>2. CASE LoadMedia
    <3>1. PICK p \in {shown, old} : m' = p /\ next' = Join(p)
      BY <2>2 DEF LoadMedia
    <3>2. p \in Playlist /\ p.seq \in 0..MaxSeq /\ p.last \in 0..MaxSeq
      BY <3>1, PlaylistFields DEF PullTypeOK
    <3>3. QED
      BY <3>1, <3>2, JoinInRange DEF PullTypeOK
  <2>3. CASE Copy
    <3>1. m.seq \in 0..MaxSeq
      BY <2>3, PlaylistFields DEF PullTypeOK, Copy
    <3>2. QED
      BY <2>3, <3>1 DEF PullTypeOK, Copy
  <2>4. CASE Resolve \/ Refuse \/ LoadFails \/ NotTS \/ AllCopied \/ Wake \/ Stop
    BY <2>4 DEF Resolve, Refuse, LoadFails, NotTS, AllCopied, Wake, Stop, Goto
  <2>5. QED
    BY <2>1, <2>2, <2>3, <2>4, PullNextIsStep DEF Pull
<1>3. I => IndexInRange
  BY DEF IndexInRange
<1>4. QED
  BY <1>1, <1>2, <1>3, PullTypesAlways, PTL DEF PullSpec

-----------------------------------------------------------------------------
(* What the puller knows is never ahead of the source: within one run of it,
   windows only move up. *)
OrderInv ==
    /\ old = shown
    /\ m.epoch <= shown.epoch
    /\ m.epoch = shown.epoch => m.seq <= shown.seq /\ m.last <= shown.last
    /\ next <= m.last + 1
    /\ out.epoch <= m.epoch
    /\ out.epoch = m.epoch /\ out.epoch # 0 => out.num < next

LEMMA NumberTypes ==
  ASSUME PullTypeOK
  PROVE  /\ shown.epoch \in 1..MaxEpoch /\ shown.seq \in 0..MaxSeq /\ shown.last \in 0..MaxSeq
         /\ m.epoch \in 0..MaxEpoch /\ m.seq \in 0..MaxSeq /\ m.last \in -1..MaxSeq
         /\ out.epoch \in 0..MaxEpoch /\ out.num \in -1..MaxSeq /\ next \in -1..MaxSeq + 1
         /\ shown.seq <= shown.last
<1>1. m \in Playlist => m.epoch \in 0..MaxEpoch /\ m.seq \in 0..MaxSeq /\ m.last \in -1..MaxSeq
  BY PlaylistFields, BoundsAssumption
<1>2. m = NoList => m.epoch \in 0..MaxEpoch /\ m.seq \in 0..MaxSeq /\ m.last \in -1..MaxSeq
  BY BoundsAssumption DEF NoList
<1>3. QED
  BY <1>1, <1>2, PlaylistFields DEF PullTypeOK

LEMMA OrderInductive ==
  ASSUME ~StaleEdges, PullTypeOK, OrderInv, [PullNext]_pullVars
  PROVE  OrderInv' /\ (out' # out => Before(out, out'))
<1> USE NumberTypes, BoundsAssumption
<1>1. CASE UNCHANGED pullVars \/ Toggle \/ Close
  BY <1>1 DEF OrderInv, pullVars, Toggle, Close, upstream, puller
<1>2. CASE End
  <2>1. shown' = [shown EXCEPT !.ended = TRUE] /\ old' = shown' /\ UNCHANGED <<m, next, out>>
    BY <1>2 DEF End, Show, puller
  <2>2. shown'.epoch = shown.epoch /\ shown'.seq = shown.seq /\ shown'.last = shown.last
    BY <2>1 DEF PullTypeOK, Playlist
  <2>3. QED
    BY <2>1, <2>2 DEF OrderInv
<1>3. ASSUME NEW seq \in 0..MaxSeq, Publish(seq)
      PROVE  OrderInv' /\ out' = out
  <2>1. /\ shown' = [shown EXCEPT !.seq = seq, !.last = @ + 1] /\ old' = shown'
        /\ UNCHANGED <<m, next, out>> /\ seq >= shown.seq
    BY <1>3 DEF Publish, Show, puller
  <2>2. shown'.epoch = shown.epoch /\ shown'.seq = seq /\ shown'.last = shown.last + 1
    BY <2>1 DEF PullTypeOK, Playlist
  <2>3. QED
    BY <2>1, <2>2 DEF OrderInv
<1>4. ASSUME NEW p \in Playlist, Restart(p)
      PROVE  OrderInv' /\ out' = out
  BY <1>4 DEF Restart, Show, OrderInv, puller
<1>5. CASE LoadMedia
  <2>1. m' = shown /\ next' = Join(shown) /\ UNCHANGED <<upstream, out>>
    BY <1>5 DEF LoadMedia, OrderInv
  <2>2. next' \in shown.seq..shown.last + 1
    BY <2>1, JoinInRange DEF PullTypeOK
  <2>3. ASSUME out.epoch = shown.epoch
        PROVE  out.num < next'
    <3>1. m.epoch = shown.epoch /\ out.num < next /\ next <= shown.last + 1
      BY <2>3 DEF OrderInv
    <3>2. next >= 0
      BY <3>1
    <3>3. CASE next >= shown.seq
      BY <2>1, <3>1, <3>2, <3>3 DEF Join
    <3>4. CASE next < shown.seq
      BY <2>2, <3>1, <3>4
    <3>5. QED
      BY <3>3, <3>4
  <2>4. QED
    BY <2>1, <2>2, <2>3 DEF OrderInv, upstream
<1>6. CASE Copy
  <2>1. /\ m \in Playlist /\ m' = m /\ next <= m.last /\ next' = next + 1
        /\ out' \in {out, [epoch |-> m.epoch, num |-> next]} /\ UNCHANGED upstream
    BY <1>6 DEF Copy, PullTypeOK
  <2>2. m.epoch \in 1..MaxEpoch
    BY <2>1, PlaylistFields
  <2>3. CASE out' = out
    BY <2>1, <2>2, <2>3 DEF OrderInv, upstream
  <2>4. CASE out' = [epoch |-> m.epoch, num |-> next]
    <3>1. out'.epoch = m.epoch /\ out'.num = next
      BY <2>4
    <3>2. Before(out, out')
      BY <2>2, <3>1 DEF OrderInv, Before
    <3>3. OrderInv'
      BY <2>1, <2>2, <3>1 DEF OrderInv, upstream
    <3>4. QED
      BY <3>2, <3>3
  <2>5. QED
    BY <2>1, <2>3, <2>4
<1>7. CASE Resolve \/ Refuse \/ LoadFails \/ NotTS \/ AllCopied \/ Wake \/ Stop
  BY <1>7 DEF Resolve, Refuse, LoadFails, NotTS, AllCopied, Wake, Stop, OrderInv, upstream
<1>8. QED
  BY <1>1, <1>2, <1>3, <1>4, <1>5, <1>6, <1>7, PullNextIsStep DEF SourceStep, Pull

(* No segment is written twice or after a later one (hlspull.go:89-107): the
   puller's playlist is never ahead of the source's, so that within one run of
   the source it only rejoins further up. *)
THEOREM SegmentsInOrder == ASSUME ~StaleEdges PROVE PullSpec => InOrder
<1>1. PullInit => OrderInv
  <2> SUFFICES ASSUME PullInit PROVE OrderInv
    OBVIOUS
  <2>1. m.epoch = 0 /\ m.last = -1 /\ out.epoch = 0 /\ shown.epoch = 1 /\ next = -1 /\ old = shown
    BY DEF PullInit, NoList, NoSegment
  <2>2. QED
    BY <2>1 DEF OrderInv
<1>2. PullTypeOK /\ OrderInv /\ [PullNext]_pullVars => OrderInv' /\ [out' # out => Before(out, out')]_pullVars
  BY OrderInductive
<1>3. QED
  BY <1>1, <1>2, PullTypesAlways, PTL DEF PullSpec, InOrder
=============================================================================
