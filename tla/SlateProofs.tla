----------------------------- MODULE SlateProofs -----------------------------
(***************************************************************************)
(* The slate manager stays within its process budget, loses no encoder and *)
(* no directory, and paces restarts, for any number of slates, runs and    *)
(* readers and any limits.                                                 *)
(***************************************************************************)
EXTENDS Slate, FiniteSetTheorems, TLAPS

Reqs == [pc : {"idle", "again", "wait", "kill"}, slate : Slates \cup {None}, run : Runs \cup {None}]

(* The sorts of the variables: TypeOK without what it says of sessions. *)
Sorts ==
    /\ keys \subseteq Personal /\ idleKeys \subseteq keys
    /\ sessions \in [Slates -> Runs \cup {None}]
    /\ phase \in [Runs -> {"free", "live", "exited"}]
    /\ radio \subseteq Runs /\ young \subseteq Runs /\ cancelled \subseteq Runs
    /\ index \subseteq dir /\ dir \subseteq Runs /\ closing \subseteq Runs
    /\ idle \subseteq Slates /\ failed \subseteq Slates /\ muted \subseteq Slates
    /\ stopped \in BOOLEAN
    /\ req \in [Readers -> Reqs]

Used == {s \in Slates : sessions[s] # None}

(* A session's run was started and has its directory. *)
Listed == \A s \in Used : phase[sessions[s]] # "free" /\ sessions[s] \in dir

(* No two slates share a run. *)
Unshared == \A s, t \in Used : sessions[s] = sessions[t] => s = t

(* A directory is a session's, or Close will remove it. *)
Swept == \A x \in dir : x \in closing \/ \E s \in Slates : sessions[s] = x

(* A running encoder has a directory. *)
Housed == \A x \in Runs : phase[x] = "live" => x \in dir

(* A free name stands for nothing. *)
FreeClean == \A x \in Runs : phase[x] = "free" => x \notin closing /\ x \notin radio

(* Close takes all sessions at once, and none come afterwards. *)
ClosedOnce == /\ stopped => Used = {}
              /\ ~stopped => closing = {}

(* The sessions, and the runs Close took over from them, are few. *)
Budget == Cardinality(Used) <= MaxProcesses /\ Cardinality(closing) <= MaxProcesses

Core == Listed /\ Unshared /\ Swept /\ Housed /\ FreeClean /\ ClosedOnce /\ Budget

SlateInv == Sorts /\ Core

-----------------------------------------------------------------------------
LEMMA UsedFinite ==
  /\ IsFiniteSet(Used) /\ Cardinality(Used) \in Nat
  /\ \A S \in SUBSET Used : IsFiniteSet(S) /\ Cardinality(S) <= Cardinality(Used)
  BY SlatesAssumption, FS_Subset, FS_CardinalityType DEF Used

LEMMA ReqTypes ==
  /\ Idle \in Reqs
  /\ \A s \in Slates : Again(s) \in Reqs
  /\ \A s \in Slates, x \in Runs \cup {None} : Wait(s, x) \in Reqs /\ Kill(s, x) \in Reqs
  BY DEF Idle, Again, Wait, Kill, Reqs

LEMMA DeadIs ==
  ASSUME Sorts, NEW s \in Slates
  PROVE  /\ Dead(s) \subseteq Runs
         /\ \A x \in Dead(s) : s \in Used /\ x = sessions[s] /\ phase[x] = "exited"
         /\ Down(s) /\ s \in Used => Dead(s) = {sessions[s]}
         /\ Down(s) /\ s \in Used => phase[sessions[s]] = "exited"
         /\ s \notin Used => Dead(s) = {}
  BY NoneAssumption DEF Dead, Down, Used, Sorts

(* The core does not depend on the other variables. *)
LEMMA CoreFrame ==
  ASSUME Core, UNCHANGED <<sessions, phase, radio, dir, closing, stopped>>
  PROVE  Core'
  BY DEF Core, Listed, Unshared, Swept, Housed, FreeClean, ClosedOnce, Budget, Used

(* A slate without a live session gives up its entry and its directory. *)
LEMMA CoreForget ==
  ASSUME SlateInv, NEW s \in Slates, Down(s),
         sessions' = SessionsAfter(s), dir' = dir \ Dead(s),
         UNCHANGED <<phase, radio, closing, stopped>>
  PROVE  Core'
<1>1. Used' = Used \ {s} /\ \A t \in Slates \ {s} : sessions'[t] = sessions[t]
  BY DEF SlateInv, Sorts, SessionsAfter, Used
<1>2. Cardinality(Used') <= Cardinality(Used) /\ Cardinality(Used') \in Nat
  BY <1>1, UsedFinite, FS_CardinalityType
<1>3. Listed' /\ Unshared'
  BY <1>1, DeadIs DEF SlateInv, Core, Listed, Unshared, Used
<1>4. Swept'
  <2> SUFFICES ASSUME NEW x \in dir', x \notin closing'
               PROVE  \E t \in Slates : sessions'[t] = x
    BY DEF Swept
  <2>1. PICK t \in Slates : sessions[t] = x
    BY DEF SlateInv, Core, Swept
  <2>2. t # s
    BY <2>1, DeadIs, NoneAssumption DEF SlateInv, Sorts, Used
  <2> QED
    BY <2>1, <2>2, <1>1
<1>5. Housed' /\ FreeClean' /\ ClosedOnce'
  BY <1>1, DeadIs DEF SlateInv, Core, Housed, FreeClean, ClosedOnce
<1>6. Budget'
  BY <1>2, UsedFinite, LimitsAssumption DEF SlateInv, Core, Budget
<1> QED
  BY <1>3, <1>4, <1>5, <1>6 DEF Core

(* Start puts a free run in the place of a dead one, if there is room. *)
LEMMA CoreStart ==
  ASSUME SlateInv, NEW r \in Readers, NEW s \in Slates, NEW what, NEW x \in Runs,
         NEW withRadio \in BOOLEAN, Start(r, s, what, x, withRadio)
  PROVE  Core'
<1>1. /\ sessions' = [sessions EXCEPT ![s] = x] /\ phase' = [phase EXCEPT ![x] = "live"]
      /\ dir' = (dir \ Dead(s)) \cup {x} /\ UNCHANGED <<closing, stopped>>
      /\ radio \subseteq radio' /\ radio' \subseteq radio \cup {x}
      /\ ~stopped /\ Down(s) /\ Room(s) /\ phase[x] = "free"
  BY DEF Start, UseKey, Enters
<1>2. x # None
  BY NoneAssumption
<1>3. Used' = (Used \ {s}) \cup {s} /\ \A t \in Slates \ {s} : sessions'[t] = sessions[t]
  BY <1>1, <1>2 DEF SlateInv, Sorts, Used
<1>4. sessions'[s] = x /\ phase'[x] = "live" /\ \A y \in Runs \ {x} : phase'[y] = phase[y]
  BY <1>1 DEF SlateInv, Sorts
<1>5. \A t \in Used : sessions[t] # x
  BY <1>1 DEF SlateInv, Core, Listed
<1>6. Listed'
  <2> SUFFICES ASSUME NEW t \in Used' PROVE (phase[sessions[t]] # "free" /\ sessions[t] \in dir)'
    BY DEF Listed
  <2>1. CASE t = s
    BY <2>1, <1>1, <1>4
  <2>2. CASE t # s
    <3>1. t \in Used /\ t \in Slates /\ sessions'[t] = sessions[t] /\ sessions[t] \in Runs \ {x}
      BY <2>2, <1>3, <1>5, NoneAssumption DEF Used, SlateInv, Sorts
    <3>2. phase[sessions[t]] # "free" /\ sessions[t] \in dir
      BY <3>1 DEF SlateInv, Core, Listed
    <3>3. sessions[t] \notin Dead(s)
      BY <3>1, <2>2, DeadIs DEF SlateInv, Core, Unshared, Used
    <3> QED
      BY <3>1, <3>2, <3>3, <1>1, <1>4
  <2> QED
    BY <2>1, <2>2
<1>7. Unshared'
  BY <1>3, <1>4, <1>5 DEF SlateInv, Core, Unshared, Used
<1>8. Swept'
  <2> SUFFICES ASSUME NEW y \in dir' PROVE \E t \in Slates : sessions'[t] = y
    BY DEF Swept
  <2>1. CASE y = x
    BY <2>1, <1>4
  <2>2. CASE y # x
    <3>1. y \in dir /\ y \notin Dead(s) /\ y \notin closing
      BY <2>2, <1>1 DEF SlateInv, Core, ClosedOnce
    <3>2. PICK t \in Slates : sessions[t] = y
      BY <3>1 DEF SlateInv, Core, Swept
    <3>3. t # s
      BY <3>1, <3>2, <1>1, DeadIs, NoneAssumption DEF SlateInv, Sorts, Used
    <3> QED
      BY <3>2, <3>3, <1>3
  <2> QED
    BY <2>1, <2>2
<1>9. Housed'
  BY <1>1, <1>4, DeadIs DEF SlateInv, Core, Housed
<1>10. FreeClean' /\ ClosedOnce'
  BY <1>1, <1>4 DEF SlateInv, Core, FreeClean, ClosedOnce
<1>11. Budget'
  <2>1. Used \ {s} = {t \in Slates \ {s} : sessions[t] # None}
    BY DEF Used
  <2>2. IsFiniteSet(Used \ {s}) /\ Cardinality(Used \ {s}) \in Nat
    BY UsedFinite, FS_CardinalityType
  <2>3. Cardinality(Used \ {s}) < MaxProcesses
    BY <1>1, <2>1 DEF Room
  <2>4. Cardinality((Used \ {s}) \cup {s}) = Cardinality(Used \ {s}) + 1
    BY <2>2, FS_AddElement
  <2>5. Cardinality(Used') <= MaxProcesses
    BY <1>3, <2>2, <2>3, <2>4, LimitsAssumption
  <2> QED
    BY <1>1, <2>5 DEF SlateInv, Core, Budget
<1> QED
  BY <1>6, <1>7, <1>8, <1>9, <1>10, <1>11 DEF Core

(* Maintenance kills the processes of some slates and forgets them. *)
LEMMA CoreEnds ==
  ASSUME SlateInv, NEW S \in SUBSET Slates, EndSessions(S)
  PROVE  Core'
<1> DEFINE X == {sessions[s] : s \in S} \ {None}
<1>1. /\ phase' = [x \in Runs |-> IF x \in X THEN "exited" ELSE phase[x]]
      /\ sessions' = [s \in Slates |-> IF s \in S THEN None ELSE sessions[s]]
      /\ dir' = dir \ X /\ UNCHANGED <<radio, closing, stopped>>
  BY DEF EndSessions, DropDir
<1>2. Used' = Used \ S /\ \A t \in Used' : t \in Slates \ S /\ sessions'[t] = sessions[t]
  BY <1>1 DEF Used
<1>3. \A t \in Used' : sessions[t] \in Runs \ X
  BY <1>2, NoneAssumption DEF SlateInv, Core, Sorts, Unshared, Used
<1>4. Listed' /\ Unshared'
  BY <1>1, <1>2, <1>3 DEF SlateInv, Core, Listed, Unshared
<1>5. Swept'
  <2> SUFFICES ASSUME NEW x \in dir', x \notin closing'
               PROVE  \E t \in Slates : sessions'[t] = x
    BY DEF Swept
  <2>1. PICK t \in Slates : sessions[t] = x
    BY <1>1 DEF SlateInv, Core, Swept
  <2>2. t \notin S
    BY <2>1, <1>1, NoneAssumption DEF SlateInv, Sorts
  <2> QED
    BY <2>1, <2>2, <1>1
<1>6. Housed' /\ FreeClean' /\ ClosedOnce'
  BY <1>1, <1>2 DEF SlateInv, Core, Sorts, Housed, FreeClean, ClosedOnce
<1>7. Budget'
  <2>1. Cardinality(Used') <= Cardinality(Used) /\ Cardinality(Used') \in Nat
    BY <1>2, UsedFinite, FS_CardinalityType
  <2> QED
    BY <2>1, <1>1, UsedFinite, LimitsAssumption DEF SlateInv, Core, Budget
<1> QED
  BY <1>4, <1>5, <1>6, <1>7 DEF Core


(* A process exits; a run nothing refers to is used again. *)
LEMMA CoreRun ==
  ASSUME SlateInv, NEW x \in Runs, Exit(x) \/ Collect(x)
  PROVE  Core'
<1> USE DEF SlateInv, Core, Sorts
<1>1. CASE Exit(x)
  BY <1>1 DEF Exit, Listed, Unshared, Swept, Housed, FreeClean, ClosedOnce, Budget, Used
<1>2. CASE Collect(x)
  <2>1. \A s \in Slates : sessions[s] # x
    BY <1>2 DEF Collect
  <2> QED
    BY <1>2, <2>1 DEF Collect, Listed, Unshared, Swept, Housed, FreeClean, ClosedOnce, Budget, Used
<1> QED
  BY <1>1, <1>2

(* Close takes over the sessions' runs: no more of them than sessions. *)
LEMMA CoreClose ==
  ASSUME SlateInv, Close
  PROVE  Core'
<1>1. /\ closing' = {sessions[s] : s \in Slates} \ {None} /\ stopped' = TRUE
      /\ sessions' = [s \in Slates |-> None] /\ ~stopped /\ UNCHANGED <<phase, radio, dir>>
  BY DEF Close
<1>2. Used' = {}
  BY <1>1 DEF Used
<1>3. closing' = {sessions[s] : s \in Used}
  BY <1>1 DEF Used
<1>4. Listed' /\ Unshared' /\ Housed' /\ ClosedOnce'
  BY <1>1, <1>2 DEF SlateInv, Core, Listed, Unshared, Housed, ClosedOnce
<1>5. Swept'
  BY <1>1, NoneAssumption DEF SlateInv, Sorts, Core, Swept, ClosedOnce
<1>6. FreeClean'
  BY <1>1, <1>3 DEF SlateInv, Core, FreeClean, Listed
<1>7. Budget'
  <2> DEFINE f == [s \in Used |-> sessions[s]]
  <2>1. f \in [Used -> closing'] /\ \A y \in closing' : \E s \in Used : f[s] = y
    BY <1>3
  <2>2. f \in Surjection(Used, closing')
    BY <2>1 DEF Surjection
  <2>3. Cardinality(closing') <= Cardinality(Used) /\ IsFiniteSet(closing')
    BY <2>2, UsedFinite, FS_Surjection
  <2>4. Cardinality(closing') \in Nat /\ Cardinality({}) = 0
    BY <2>3, FS_CardinalityType, FS_EmptySet
  <2> QED
    BY <1>2, <2>3, <2>4, UsedFinite, LimitsAssumption DEF SlateInv, Core, Budget
<1> QED
  BY <1>4, <1>5, <1>6, <1>7 DEF Core

LEMMA CoreSweeps ==
  ASSUME SlateInv, NEW x \in Runs, CloseSweeps(x)
  PROVE  Core'
<1>1. /\ x \in closing /\ phase[x] = "exited" /\ closing' = closing \ {x} /\ dir' = dir \ {x}
      /\ UNCHANGED <<sessions, phase, radio, stopped>>
  BY DEF CloseSweeps, DropDir
<1>2. Used = {} /\ Used' = Used
  BY <1>1 DEF SlateInv, Core, ClosedOnce, Used
<1>3. Listed' /\ Unshared' /\ Swept' /\ Housed' /\ FreeClean' /\ ClosedOnce'
  BY <1>1, <1>2 DEF SlateInv, Core, Listed, Unshared, Swept, Housed, FreeClean, ClosedOnce
<1>4. Budget'
  <2>1. IsFiniteSet(closing)
    BY RunsAssumption, FS_Subset DEF SlateInv, Sorts
  <2>2. /\ Cardinality(closing \ {x}) <= Cardinality(closing)
        /\ Cardinality(closing) \in Nat /\ Cardinality(closing \ {x}) \in Nat
    BY <2>1, FS_Subset, FS_CardinalityType
  <2> QED
    BY <1>1, <1>2, <2>2, LimitsAssumption DEF SlateInv, Core, Budget
<1> QED
  BY <1>3, <1>4 DEF Core

(* The core outlives every step. *)
LEMMA CoreGetPath ==
  ASSUME SlateInv, NEW r \in Readers, NEW s \in Slates, NEW what, GetPath(r, s, what)
  PROVE  Core'
<1>1. CASE Serve(r, s, what)
  BY <1>1, CoreFrame DEF Serve, UseKey, runVars, SlateInv
<1>2. ASSUME Forget(s), Down(s) PROVE Core'
  BY <1>2, CoreForget DEF Forget, UseKey, DropDir
<1>3. CASE Backoff(r, s, what) \/ Full(r, s, what) \/ StartFails(r, s, what)
  BY <1>2, <1>3 DEF Backoff, Full, StartFails
<1>4. CASE \E t \in Generic : FallBack(r, s, what, t)
  BY <1>2, <1>4 DEF FallBack
<1>5. CASE \E x \in Runs, withRadio \in BOOLEAN : Start(r, s, what, x, withRadio)
  BY <1>5, CoreStart
<1> QED
  BY <1>1, <1>3, <1>4, <1>5 DEF GetPath

LEMMA CoreNext ==
  ASSUME SlateInv, [Next]_vars
  PROVE  Core'
<1> USE DEF SlateInv
<1>1. ASSUME NEW r \in Readers, NEW s \in Slates,
             Refuse(r, s) \/ \E what \in Kinds : GetPath(r, s, what)
      PROVE  Core'
  BY <1>1, CoreGetPath, CoreFrame DEF Refuse, runVars
<1>2. ASSUME NEW r \in Readers, WaitServed(r) \/ WaitExited(r) \/ WaitTimesOut(r)
      PROVE  Core'
  BY <1>2, CoreFrame DEF WaitServed, WaitExited, WaitTimesOut, runVars
<1>3. ASSUME NEW x \in Runs, WritePlaylist(x) \/ Ripen(x)
      PROVE  Core'
  BY <1>3, CoreFrame DEF WritePlaylist, Ripen
<1>4. ASSUME NEW s \in Slates, BackoffOver(s) \/ MuteOver(s) \/ GoIdle(s)
      PROVE  Core'
  BY <1>4, CoreFrame DEF BackoffOver, MuteOver, GoIdle, runVars
<1>5. ASSUME NEW k \in Personal, Prepare(k) \/ KeyGoesIdle(k)
      PROVE  Core'
  BY <1>5, CoreFrame DEF Prepare, KeyGoesIdle, runVars
<1>6. CASE ReapIdle
  BY <1>6, CoreEnds DEF ReapIdle, Sorts
<1>7. ASSUME NEW S \in SUBSET Slates, RestartOnAudioChange(S)
      PROVE  Core'
  BY <1>7, CoreEnds DEF RestartOnAudioChange
<1>8. CASE UNCHANGED vars
  BY <1>8, CoreFrame DEF vars, runVars
<1>9. ASSUME NEW x \in Runs, Exit(x) \/ Collect(x) \/ CloseSweeps(x)
      PROVE  Core'
  BY <1>9, CoreRun, CoreSweeps
<1>10. CASE Close
  BY <1>10, CoreClose
<1> QED
  BY <1>1, <1>2, <1>3, <1>4, <1>5, <1>6, <1>7, <1>8, <1>9, <1>10, Zenon DEF Next

-----------------------------------------------------------------------------
(* The sorts. *)

LEMMA SortsGetPath ==
  ASSUME SlateInv, NEW r \in Readers, NEW s \in Slates, NEW what, GetPath(r, s, what)
  PROVE  Sorts'
<1> USE DEF SlateInv, Sorts
<1>1. ASSUME NEW x \in Runs, Handed(r, s, x, what) \/ Returns(r)
      PROVE  req' \in [Readers -> Reqs]
  BY <1>1, ReqTypes DEF Handed, Returns
<1>2. ASSUME Returns(r)
      PROVE  req' \in [Readers -> Reqs]
  BY <1>2, ReqTypes DEF Returns
<1>3. CASE Serve(r, s, what)
  <2>1. sessions[s] \in Runs
    BY <1>3 DEF Serve
  <2> QED
    BY <1>1, <1>3, <2>1 DEF Serve, UseKey, runVars
<1>4. ASSUME Forget(s)
      PROVE  /\ keys' \subseteq Personal /\ idleKeys' \subseteq keys'
             /\ sessions' \in [Slates -> Runs \cup {None}]
             /\ phase' \in [Runs -> {"free", "live", "exited"}]
             /\ radio' \subseteq Runs /\ young' \subseteq Runs /\ cancelled' \subseteq Runs
             /\ index' \subseteq dir' /\ dir' \subseteq Runs /\ closing' \subseteq Runs
             /\ muted' \subseteq Slates /\ stopped' \in BOOLEAN
  BY <1>4 DEF Forget, UseKey, DropDir, MutedAfter, SessionsAfter
<1>5. FailedAfter(s) \subseteq Slates /\ MutedAfter(s) \subseteq Slates
  BY DEF FailedAfter, MutedAfter
<1>6. CASE Backoff(r, s, what)
  BY <1>2, <1>4, <1>5, <1>6 DEF Backoff
<1>7. CASE Full(r, s, what)
  BY <1>2, <1>4, <1>5, <1>7 DEF Full
<1>8. CASE StartFails(r, s, what)
  BY <1>2, <1>4, <1>5, <1>8 DEF StartFails
<1>9. ASSUME NEW t \in Generic, FallBack(r, s, what, t)
      PROVE  Sorts'
  <2>1. t \in Slates /\ sessions[t] \in Runs
    BY <1>9 DEF FallBack, Candidates, Slates
  <2> QED
    BY <1>1, <1>4, <1>5, <1>9, <2>1 DEF FallBack
<1>10. ASSUME NEW x \in Runs, NEW withRadio \in BOOLEAN, Start(r, s, what, x, withRadio)
       PROVE  Sorts'
  <2>1. req' \in [Readers -> Reqs]
    BY <1>1, <1>10 DEF Start
  <2>2. /\ sessions' \in [Slates -> Runs \cup {None}]
        /\ phase' \in [Runs -> {"free", "live", "exited"}]
        /\ radio' \subseteq Runs /\ young' \subseteq Runs
        /\ index' \subseteq dir' /\ dir' \subseteq Runs
    BY <1>10 DEF Start
  <2> QED
    BY <1>5, <1>10, <2>1, <2>2 DEF Start, UseKey
<1> QED
  BY <1>3, <1>6, <1>7, <1>8, <1>9, <1>10 DEF GetPath

LEMMA SortsNext ==
  ASSUME SlateInv, [Next]_vars
  PROVE  Sorts'
<1> USE DEF SlateInv, Sorts
<1>1. ASSUME NEW r \in Readers, NEW s \in Slates,
             Refuse(r, s) \/ \E what \in Kinds : GetPath(r, s, what)
      PROVE  Sorts'
  BY <1>1, SortsGetPath, ReqTypes DEF Refuse, Returns, runVars, keyVars
<1>2. ASSUME NEW r \in Readers, WaitServed(r) \/ WaitExited(r) \/ WaitTimesOut(r)
      PROVE  Sorts'
  <2>1. req[r] \in Reqs
    OBVIOUS
  <2>2. CASE WaitServed(r)
    BY <2>2, ReqTypes DEF WaitServed, Returns, runVars, keyVars
  <2>3. CASE WaitExited(r)
    <3>1. Again(req[r].slate) \in Reqs
      BY <2>1 DEF Again, Reqs
    <3> QED
      BY <2>3, <3>1, ReqTypes DEF WaitExited, runVars, keyVars
  <2>4. CASE WaitTimesOut(r)
    <3>1. Kill(req[r].slate, req[r].run) \in Reqs
      BY <2>1 DEF Kill, Reqs
    <3> QED
      BY <2>4, <3>1, ReqTypes DEF WaitTimesOut, Returns, keyVars
  <2> QED
    BY <1>2, <2>2, <2>3, <2>4
<1>3. ASSUME NEW x \in Runs,
             WritePlaylist(x) \/ Exit(x) \/ Collect(x) \/ CloseSweeps(x) \/ Ripen(x)
      PROVE  Sorts'
  <2>1. CASE WritePlaylist(x) \/ Ripen(x)
    BY <2>1 DEF WritePlaylist, Ripen, keyVars
  <2>2. CASE Exit(x) \/ Collect(x)
    BY <2>2 DEF Exit, Collect, keyVars
  <2>3. CASE CloseSweeps(x)
    BY <2>3 DEF CloseSweeps, DropDir, keyVars
  <2> QED
    BY <1>3, <2>1, <2>2, <2>3
<1>4. ASSUME NEW s \in Slates, BackoffOver(s) \/ MuteOver(s) \/ GoIdle(s)
      PROVE  Sorts'
  BY <1>4 DEF BackoffOver, MuteOver, GoIdle, runVars, keyVars
<1>5. ASSUME NEW k \in Personal, Prepare(k) \/ KeyGoesIdle(k)
      PROVE  Sorts'
  BY <1>5 DEF Prepare, KeyGoesIdle, runVars
<1>6. ASSUME NEW S \in SUBSET Slates, EndSessions(S),
             keys' \subseteq Personal /\ idleKeys' \subseteq keys'
      PROVE  Sorts'
  <2>1. phase' \in [Runs -> {"free", "live", "exited"}] /\ sessions' \in [Slates -> Runs \cup {None}]
    BY <1>6 DEF EndSessions
  <2>2. cancelled' \subseteq Runs /\ index' \subseteq dir' /\ dir' \subseteq Runs
    BY <1>6 DEF EndSessions, DropDir
  <2> QED
    BY <1>6, <2>1, <2>2 DEF EndSessions
<1>7. CASE ReapIdle
  BY <1>6, <1>7 DEF ReapIdle
<1>8. ASSUME NEW S \in SUBSET Slates, RestartOnAudioChange(S)
      PROVE  Sorts'
  BY <1>6, <1>8 DEF RestartOnAudioChange, keyVars
<1>9. CASE Close
  BY <1>9 DEF Close, keyVars
<1>10. CASE UNCHANGED vars
  BY <1>10 DEF vars, runVars, keyVars
<1> QED
  BY <1>1, <1>2, <1>3, <1>4, <1>5, <1>7, <1>8, <1>9, <1>10, Zenon DEF Next

LEMMA SlateInvInit == Init => SlateInv
<1> SUFFICES ASSUME Init PROVE SlateInv
  OBVIOUS
<1>1. Used = {}
  BY DEF Init, Used
<1>2. Sorts
  BY ReqTypes DEF Init, Sorts
<1>3. Budget
  BY <1>1, FS_EmptySet, LimitsAssumption DEF Init, Budget
<1> QED
  BY <1>1, <1>2, <1>3
     DEF SlateInv, Core, Init, Listed, Unshared, Swept, Housed, FreeClean, ClosedOnce

THEOREM SlateInvariant == Spec => []SlateInv
<1>1. SlateInv /\ [Next]_vars => SlateInv'
  BY CoreNext, SortsNext DEF SlateInv
<1> QED
  BY SlateInvInit, <1>1, PTL DEF Spec

-----------------------------------------------------------------------------
(* The manager's state keeps its shape, and what is registered was started
   and has its directory. *)
THEOREM TypesAlways == Spec => []TypeOK
<1>1. SlateInv => TypeOK
  BY DEF SlateInv, Core, Sorts, Listed, Used, TypeOK, Reqs
<1> QED
  BY <1>1, SlateInvariant, PTL

(* At no moment do more than maxProcesses encoders run: a live one has a
   directory, which belongs to a session before Close and to Close after. *)
THEOREM ProcessesCapped == Spec => []ProcessCap
<1>1. ASSUME SlateInv PROVE ProcessCap
  <2>1. CASE stopped
    <3>1. Live \subseteq closing
      BY <1>1, <2>1, NoneAssumption
         DEF SlateInv, Core, Sorts, Swept, Housed, ClosedOnce, Used, Live
    <3>2. IsFiniteSet(closing)
      BY <1>1, RunsAssumption, FS_Subset DEF SlateInv, Sorts
    <3>3. /\ Cardinality(Live) <= Cardinality(closing)
          /\ Cardinality(Live) \in Nat /\ Cardinality(closing) \in Nat
      BY <3>1, <3>2, FS_Subset, FS_CardinalityType
    <3> QED
      BY <1>1, <3>3, LimitsAssumption DEF SlateInv, Core, Budget, ProcessCap
  <2>2. CASE ~stopped
    <3> DEFINE f == [s \in Used |-> sessions[s]]
               R == {sessions[s] : s \in Used}
    <3>1. Live \subseteq R
      BY <1>1, <2>2, NoneAssumption
         DEF SlateInv, Core, Sorts, Swept, Housed, ClosedOnce, Used, Live
    <3>2. f \in Surjection(Used, R)
      BY DEF Surjection
    <3>3. IsFiniteSet(R) /\ Cardinality(R) <= Cardinality(Used)
      BY <3>2, UsedFinite, FS_Surjection
    <3>4. /\ Cardinality(Live) <= Cardinality(R)
          /\ Cardinality(Live) \in Nat /\ Cardinality(R) \in Nat
      BY <3>1, <3>3, FS_Subset, FS_CardinalityType
    <3> QED
      BY <1>1, <3>3, <3>4, UsedFinite, LimitsAssumption
         DEF SlateInv, Core, Budget, ProcessCap
  <2> QED
    BY <1>1, <2>1, <2>2 DEF SlateInv, Sorts
<1> QED
  BY <1>1, SlateInvariant, PTL

(* Every running encoder and every directory has somebody who will end it,
   and no two slates share an encoder. *)
THEOREM NothingLeaksAlways == Spec => []NothingLeaks
<1>1. ASSUME SlateInv PROVE NothingLeaks
  <2>1. dir \subseteq Registered \cup closing
    BY <1>1, NoneAssumption DEF SlateInv, Core, Sorts, Swept, Registered
  <2>2. Live \subseteq dir
    BY <1>1 DEF SlateInv, Core, Housed, Live
  <2>3. \A s, t \in Slates : sessions[s] = sessions[t] /\ sessions[s] # None => s = t
    BY <1>1 DEF SlateInv, Core, Unshared, Used
  <2> QED
    BY <2>1, <2>2, <2>3 DEF NothingLeaks
<1> QED
  BY <1>1, SlateInvariant, PTL

-----------------------------------------------------------------------------
(* Only Start gives a slate another run. *)
LEMMA OnlyStart ==
  ASSUME SlateInv, [Next]_vars, NEW s \in Slates,
         sessions'[s] # None, sessions'[s] # sessions[s]
  PROVE  \E r \in Readers, what \in Kinds, x \in Runs, withRadio \in BOOLEAN :
            Start(r, s, what, x, withRadio) /\ x = sessions'[s]
<1> USE DEF SlateInv, Sorts
<1>1. sessions' # sessions /\ \A S : sessions' # [t \in Slates |-> IF t \in S THEN None ELSE sessions[t]]
  OBVIOUS
<1>2. \A t \in Slates : sessions' # SessionsAfter(t)
  BY DEF SessionsAfter
<1>3. ASSUME NEW r \in Readers, NEW t \in Slates, NEW what \in Kinds, GetPath(r, t, what)
      PROVE  \E x \in Runs, withRadio \in BOOLEAN : Start(r, t, what, x, withRadio)
  <2>1. ~Serve(r, t, what)
    BY <1>1 DEF Serve
  <2>2. ~Forget(t)
    BY <1>2 DEF Forget
  <2>3. ~Backoff(r, t, what) /\ ~Full(r, t, what) /\ ~StartFails(r, t, what)
    BY <2>2 DEF Backoff, Full, StartFails
  <2>4. ~\E u \in Generic : FallBack(r, t, what, u)
    BY <2>2 DEF FallBack
  <2> QED
    BY <1>3, <2>1, <2>3, <2>4 DEF GetPath
<1>4. ASSUME NEW r \in Readers, NEW t \in Slates, NEW what \in Kinds, NEW x \in Runs,
             NEW withRadio \in BOOLEAN, Start(r, t, what, x, withRadio)
      PROVE  t = s /\ x = sessions'[s]
  BY <1>4 DEF Start
<1>5. \A r \in Readers, t \in Slates : ~Refuse(r, t)
  BY <1>1 DEF Refuse
<1>6. \A r \in Readers : ~WaitServed(r) /\ ~WaitExited(r) /\ ~WaitTimesOut(r)
  BY <1>1 DEF WaitServed, WaitExited, WaitTimesOut
<1>7. \A x \in Runs : /\ ~WritePlaylist(x) /\ ~Exit(x) /\ ~Collect(x) /\ ~CloseSweeps(x)
                     /\ ~Ripen(x)
  BY <1>1 DEF WritePlaylist, Exit, Collect, CloseSweeps, Ripen
<1>8. \A t \in Slates : ~BackoffOver(t) /\ ~MuteOver(t) /\ ~GoIdle(t)
  BY <1>1 DEF BackoffOver, MuteOver, GoIdle
<1>9. \A k \in Personal : ~Prepare(k) /\ ~KeyGoesIdle(k)
  BY <1>1 DEF Prepare, KeyGoesIdle
<1>10. \A S : ~EndSessions(S)
  BY <1>1 DEF EndSessions
<1>11. ~ReapIdle /\ (\A S : ~RestartOnAudioChange(S)) /\ ~Close
  BY <1>10 DEF ReapIdle, RestartOnAudioChange, Close
<1>12. ~UNCHANGED vars
  BY <1>1 DEF vars
<1>13. \E r \in Readers, t \in Slates, what \in Kinds : GetPath(r, t, what)
  BY <1>5, <1>6, <1>7, <1>8, <1>9, <1>11, <1>12, Zenon DEF Next
<1> QED
  BY <1>3, <1>4, <1>13

(* Every start of an encoder respects the backoff of a short-lived one and
   the mute of a failed radio session, whoever asks and however often. *)
THEOREM RestartsPacedAlways == Spec => RestartsPaced
<1>1. ASSUME SlateInv, [Next]_vars, NEW s \in Slates,
             sessions'[s] # None, sessions'[s] # sessions[s]
      PROVE  /\ s \notin failed \/ Dead(s) \cap radio # {}
             /\ Dead(s) \cap young \subseteq radio
             /\ sessions'[s] \in radio' => s \notin muted /\ Dead(s) \cap radio = {}
  <2>1. PICK r \in Readers, what \in Kinds, x \in Runs, withRadio \in BOOLEAN :
           Start(r, s, what, x, withRadio) /\ x = sessions'[s]
    BY <1>1, OnlyStart
  <2>2. s \notin FailedAfter(s) /\ phase[x] = "free"
        /\ (withRadio => s \notin MutedAfter(s))
        /\ radio' = IF withRadio THEN radio \cup {x} ELSE radio
    BY <2>1 DEF Start
  <2>3. \A y, z \in Dead(s) : y = z
    BY <1>1, DeadIs DEF SlateInv
  <2>4. s \notin failed \/ Dead(s) \cap radio # {}
    BY <2>2 DEF FailedAfter
  <2>5. Dead(s) \cap young \subseteq radio
    BY <2>2, <2>3 DEF FailedAfter
  <2>6. x \in radio' => s \notin muted /\ Dead(s) \cap radio = {}
    BY <1>1, <2>2 DEF MutedAfter, SlateInv, Core, FreeClean
  <2> QED
    BY <2>1, <2>4, <2>5, <2>6
<1>2. SlateInv /\ [Next]_vars =>
        [\A s \in Slates :
           LET x == sessions'[s] IN
           x # None /\ x # sessions[s] =>
              /\ s \notin failed \/ Dead(s) \cap radio # {}
              /\ Dead(s) \cap young \subseteq radio
              /\ x \in radio' => s \notin muted /\ Dead(s) \cap radio = {}]_vars
  BY <1>1
<1> QED
  BY <1>2, SlateInvariant, PTL DEF Spec, RestartsPaced
=============================================================================
