---------------------------- MODULE ScanProofs ----------------------------
(***************************************************************************)
(* Proofs about the leak checker: which scan runs (LeakScan), and how one  *)
(* scan paces its searches (GitHubScan).                                   *)
(***************************************************************************)
EXTENDS LeakScan, GitHubScan, FiniteSetTheorems, TLAPS

-----------------------------------------------------------------------------
(***************************************************************************)
(* LeakScan, for every number of processes, accounts, clicks and faults: no*)
(* two scans run at once as long as no scan outlives its deadline by the   *)
(* five minutes that lockStaleAfter adds.                                  *)
(***************************************************************************)
(* What the lock protocol looks at. *)
LockTypes ==
    /\ pc \in [Procs -> {"off"} \cup Before \cup Critical]
    /\ found \in [Procs -> Stamps \cup {None}]
    /\ lock \in Stamps \cup {None}
    /\ stale \in BOOLEAN

(* Whoever holds the lock is alone and its row is fresh; a process about to
   take the row over remembers a row that is stale, or gone. *)
Exclusive ==
    /\ \A p \in Locked : lock # None /\ ~stale
    /\ \A p, q \in Locked : p = q
    /\ \A p \in Procs : pc[p] = "steal" => found[p] # None /\ (found[p] = lock => stale)

LockInv == LockTypes /\ Exclusive

LEMMA LockInvInit == Init => LockInv
BY DEF Init, LockInv, LockTypes, Exclusive, Locked, Before, Critical

(* A process that moves on inside the critical section, or outside of it
   towards the lock, changes nothing the lock protocol looks at. *)
LEMMA MovesOn ==
  ASSUME LockInv, NEW p \in Procs, NEW l,
         \/ pc[p] \in Critical /\ l \in Critical
         \/ l \in (Before \ {"steal"}) \cup {"off"},
         pc' = [pc EXCEPT ![p] = l], UNCHANGED <<lock, stale>>,
         found' = found \/ found' = [found EXCEPT ![p] = None]
  PROVE  LockInv'
<1>1. LockTypes'
  BY DEF LockInv, LockTypes
<1>2. Locked' \subseteq Locked
  BY DEF LockInv, LockTypes, Locked, Before, Critical
<1>3. \A q \in Procs : pc'[q] = "steal" => pc[q] = "steal" /\ found'[q] = found[q]
  BY DEF LockInv, LockTypes, Before, Critical
<1>4. QED
  BY <1>1, <1>2, <1>3 DEF LockInv, Exclusive

LEMMA AcquiresAlone ==
  ASSUME LockInv, NEW p \in Procs, Locked = {}, Acquires(p)
  PROVE  LockInv'
<1>1. PICK t \in Unused : lock' = t
  BY DEF Acquires
<1>2. t \in Stamps /\ t # None /\ \A q \in Procs : found[q] # t
  BY <1>1, StampsAssumption DEF Unused
<1>3. /\ pc' = [pc EXCEPT ![p] = "locked"]
      /\ found' = [found EXCEPT ![p] = None]
      /\ stale' = FALSE
  BY DEF Acquires, Moves, Goto
<1>4. LockTypes'
  BY <1>1, <1>2, <1>3 DEF LockInv, LockTypes, Critical
<1>5. Locked' = {p}
  BY <1>3 DEF LockInv, LockTypes, Locked, Critical
<1>6. \A q \in Procs : pc'[q] = "steal" => found'[q] # None /\ found'[q] # lock'
  BY <1>1, <1>2, <1>3 DEF LockInv, LockTypes, Exclusive
<1>7. QED
  BY <1>1, <1>2, <1>3, <1>4, <1>5, <1>6 DEF LockInv, Exclusive

LEMMA AcquireLockExclusive ==
  ASSUME LockInv, NEW p \in Procs, AcquireLock(p)
  PROVE  LockInv'
<1>1. CASE Insert(p)
  <2>1. Locked = {}
    BY <1>1 DEF Insert, LockInv, Exclusive
  <2>2. QED
    BY <1>1, <2>1, AcquiresAlone DEF Insert
<1>2. CASE InsertFails(p)
  BY <1>2, MovesOn DEF InsertFails, Moves, Goto, Ends, Before, dbVars
<1>3. CASE Select(p)
  <2>1. CASE Ends(p)
    BY <1>3, <2>1, MovesOn DEF Select, Ends, Moves, Goto, Before, dbVars
  <2>2. CASE ~Ends(p)
    <3>1. /\ found' = [found EXCEPT ![p] = lock]
          /\ pc' = [pc EXCEPT ![p] = IF lock = None THEN "reinsert" ELSE "steal"]
          /\ lock = None \/ stale
          /\ UNCHANGED <<lock, stale>>
      BY <1>3, <2>2 DEF Select, Moves, Goto, dbVars
    <3>2. LockTypes'
      BY <3>1 DEF LockInv, LockTypes, Before
    <3>3. Locked' \subseteq Locked
      BY <3>1 DEF LockInv, LockTypes, Locked, Before, Critical
    <3>4. \A q \in Procs : pc'[q] = "steal" => found'[q] # None /\ (found'[q] = lock => stale)
      BY <3>1 DEF LockInv, LockTypes, Exclusive
    <3>5. QED
      BY <3>1, <3>2, <3>3, <3>4 DEF LockInv, Exclusive
  <2>3. QED
    BY <2>1, <2>2
<1>4. CASE Steal(p)
  <2>1. CASE lock = found[p] /\ Acquires(p)
    <3>1. Locked = {}
      BY <1>4, <2>1 DEF Steal, LockInv, Exclusive
    <3>2. QED
      BY <2>1, <3>1, AcquiresAlone
  <2>2. CASE Ends(p) /\ UNCHANGED <<dbVars, envVars>>
    BY <2>2, MovesOn DEF Ends, Moves, Goto, dbVars
  <2>3. QED
    BY <1>4, <2>1, <2>2 DEF Steal
<1>5. QED
  BY <1>1, <1>2, <1>3, <1>4 DEF AcquireLock

LEMMA ScanExclusive ==
  ASSUME LockInv, NEW p \in Procs, Scan(p)
  PROVE  LockInv'
<1>1. CASE StartGlobal(p)
  BY <1>1, MovesOn DEF StartGlobal, StartRun, StartRunFails, Moves, Goto, Critical, dbVars
<1>2. CASE EndScan(p)
  BY <1>2, MovesOn DEF EndScan, Moves, Goto, Critical, dbVars
<1>3. CASE Clear(p)
  BY <1>3, MovesOn DEF Clear, AfterClear, Moves, Goto, Critical
<1>4. CASE LoadAccounts(p)
  BY <1>4, MovesOn DEF LoadAccounts, Moves, Goto, Critical, dbVars
<1>5. CASE NextAccount(p)
  <2>1. CASE pc' = pc
    BY <1>5, <2>1 DEF NextAccount, dbVars, LockInv, LockTypes, Exclusive, Locked
  <2>2. CASE pc' # pc
    BY <1>5, <2>2, MovesOn DEF NextAccount, Moves, Goto, Critical, dbVars
  <2>3. QED
    BY <2>1, <2>2
<1>6. CASE StartUser(p)
  BY <1>6, MovesOn DEF StartUser, StartRun, StartRunFails, Moves, Goto, Critical, dbVars
<1>7. CASE Release(p)
  <2>1. /\ pc[p] = "release" /\ lock' = None /\ stale' = FALSE
        /\ pc' = [pc EXCEPT ![p] = "off"] /\ found' = [found EXCEPT ![p] = None]
    BY <1>7 DEF Release, Ends, Moves, Goto
  <2>2. LockTypes'
    BY <2>1 DEF LockInv, LockTypes
  <2>3. Locked' = {}
    BY <2>1 DEF LockInv, LockTypes, Exclusive, Locked, Critical
  <2>4. \A q \in Procs : pc'[q] = "steal" => pc[q] = "steal" /\ found'[q] = found[q]
    BY <2>1 DEF LockInv, LockTypes
  <2>5. QED
    BY <2>1, <2>2, <2>3, <2>4 DEF LockInv, Exclusive
<1>8. QED
  BY <1>1, <1>2, <1>3, <1>4, <1>5, <1>6, <1>7 DEF Scan

LEMMA LockInvNext == ASSUME ~Slow, LockInv, [Next]_vars PROVE LockInv'
<1>1. ASSUME NEW p \in Procs, Tick(p) PROVE LockInv'
  BY <1>1, MovesOn DEF Tick, Moves, Goto, Before, dbVars
<1>2. ASSUME NEW p \in Procs, Schedule(p) PROVE LockInv'
  BY <1>2, MovesOn DEF Schedule, ReadRequest, ReadLastRun, ReadUsers, Ends, Moves, Goto, Before, dbVars
<1>3. ASSUME NEW p \in Procs, Crash(p) PROVE LockInv'
  BY <1>3, MovesOn DEF Crash, Ends, Moves, Goto, dbVars
<1>4. CASE LockAges
  <2>1. Locked = {} /\ stale' = TRUE /\ UNCHANGED <<lock, pc, found>>
    BY <1>4 DEF LockAges, procVars
  <2>2. QED
    BY <2>1 DEF LockInv, LockTypes, Exclusive, Locked
<1>5. ASSUME UNCHANGED <<lock, stale, pc, found>> PROVE LockInv'
  BY <1>5 DEF LockInv, LockTypes, Exclusive, Locked
<1>6. ASSUME NEW p \in Procs, Deadline(p) PROVE LockInv'
  BY <1>5, <1>6 DEF Deadline, dbVars
<1>7. ASSUME NEW o \in Owners, IntervalOver(o) \/ Click(o) PROVE LockInv'
  BY <1>5, <1>7 DEF IntervalOver, Click, procVars
<1>8. ASSUME Configure \/ UNCHANGED vars PROVE LockInv'
  BY <1>5, <1>8 DEF Configure, procVars, dbVars, vars
<1>9. QED
  BY <1>1, <1>2, <1>3, <1>4, <1>6, <1>7, <1>8, AcquireLockExclusive, ScanExclusive DEF Next

LEMMA ExclusiveIsOne == LockInv => OneScanAtATime
<1>1. ASSUME LockInv, Locked # {} PROVE Cardinality(Locked) <= 1
  <2>1. PICK p \in Locked : TRUE
    BY <1>1
  <2>2. Locked = {p}
    BY <1>1, <2>1 DEF LockInv, Exclusive
  <2>3. QED
    BY <2>2, FS_Singleton
<1>2. ASSUME Locked = {} PROVE Cardinality(Locked) <= 1
  BY <1>2, FS_EmptySet
<1>3. QED
  BY <1>1, <1>2 DEF OneScanAtATime

(* "Two scans must not run at once" (ARCHITECTURE.md:389): for every number
   of invocations, crashes and takeovers of a stale lock (store.go:225-259),
   provided no scan outlives its deadline by five minutes. *)
THEOREM ScansExcludeEachOther == ASSUME ~Slow PROVE Spec => []OneScanAtATime
<1>1. [](LockInv => OneScanAtATime)
  BY ExclusiveIsOne, PTL
<1>2. LockInv /\ [Next]_vars => LockInv'
  BY LockInvNext
<1>3. QED
  BY <1>1, <1>2, LockInvInit, PTL DEF Spec

-----------------------------------------------------------------------------
(* Types: what the database and the world hold, what a process knows. *)
DbTypes ==
    /\ lock \in Stamps \cup {None} /\ stale \in BOOLEAN
    /\ request \in [Owners -> Nat] /\ recent \subseteq Owners
    /\ ready \in BOOLEAN /\ clicks \in Nat /\ faults \in Nat

ProcTypes ==
    /\ pc \in [Procs -> {"off"} \cup Before \cup Critical]
    /\ due \subseteq Procs /\ late \subseteq Procs /\ asked \subseteq Procs
    /\ seen \in [Procs -> [Owners -> Nat]]
    /\ found \in [Procs -> Stamps \cup {None}]
    /\ scope \in [Procs -> Owners \cup {None}]
    /\ \A p \in Procs : pc[p] \in {"scan", "clear", "start"} => scope[p] \in Owners
    /\ began \in [Procs -> Nat]
    /\ todo \in [Procs -> SUBSET Accounts]

LEMMA TypeParts == /\ TypeOK <=> (DbTypes /\ ProcTypes)
                   /\ TypeOK' <=> (DbTypes' /\ ProcTypes')
BY DEF TypeOK, DbTypes, ProcTypes

LEMMA UnseenType == Unseen \in [Owners -> Nat]
BY DEF Unseen

LEMMA TypesInit == Init => TypeOK
<1>1. ASSUME Init PROVE DbTypes
  BY <1>1, UnseenType DEF Init, DbTypes
<1>2. ASSUME Init PROVE ProcTypes
  BY <1>2, UnseenType DEF Init, ProcTypes, Before, Critical
<1>3. QED
  BY <1>1, <1>2, TypeParts

LEMMA MovesType ==
  ASSUME ProcTypes, NEW p \in Procs, NEW l \in Before \cup Critical,
         l \in {"scan", "clear", "start"} => scope[p] \in Owners, Moves(p, l)
  PROVE  ProcTypes'
BY DEF ProcTypes, Moves, Goto

LEMMA EndsType ==
  ASSUME ProcTypes, NEW p \in Procs, Ends(p)
  PROVE  ProcTypes'
<1>1. /\ pc' \in [Procs -> {"off"} \cup Before \cup Critical]
      /\ pc'[p] = "off" /\ \A q \in Procs \ {p} : pc'[q] = pc[q]
  BY DEF Ends, Goto, ProcTypes
<1>2. /\ seen' \in [Procs -> [Owners -> Nat]] /\ found' \in [Procs -> Stamps \cup {None}]
      /\ began' \in [Procs -> Nat] /\ todo' \in [Procs -> SUBSET Accounts]
  BY UnseenType DEF Ends, ProcTypes
<1>3. scope' \in [Procs -> Owners \cup {None}] /\ \A q \in Procs \ {p} : scope'[q] = scope[q]
  BY DEF Ends, ProcTypes
<1>4. due' \subseteq Procs /\ late' \subseteq Procs /\ asked' \subseteq Procs
  BY DEF Ends, ProcTypes
<1>5. QED
  BY <1>1, <1>2, <1>3, <1>4 DEF ProcTypes

LEMMA ScheduleType ==
  ASSUME TypeOK, NEW p \in Procs, Schedule(p)
  PROVE  TypeOK'
<1>. USE TypeParts
<1>1. DbTypes'
  BY DEF Schedule, ReadRequest, ReadLastRun, ReadUsers, dbVars, envVars, DbTypes
<1>2. CASE ReadRequest(p)
  <2>1. PICK s : s = [seen[p] EXCEPT ![Global] = request[Global]]
    OBVIOUS
  <2>2. s \in [Owners -> Nat]
    BY <2>1 DEF ProcTypes, DbTypes, Owners
  <2>3. seen' = [seen EXCEPT ![p] = s]
    BY <1>2, <2>1 DEF ReadRequest
  <2>4. ProcTypes'
    BY <1>2, <2>2, <2>3 DEF ReadRequest, Goto, ProcTypes, Before
  <2>5. QED
    BY <1>1, <2>4
<1>3. CASE ReadLastRun(p)
  BY <1>1, <1>3 DEF ReadLastRun, Goto, ProcTypes, Before
<1>4. CASE ReadUsers(p)
  BY <1>1, <1>4, MovesType, EndsType DEF ReadUsers, Before
<1>5. QED
  BY <1>2, <1>3, <1>4 DEF Schedule

LEMMA AcquiresType ==
  ASSUME TypeOK, NEW p \in Procs, Acquires(p)
  PROVE  TypeOK'
<1>1. DbTypes'
  BY TypeParts DEF Acquires, Unused, envVars, DbTypes
<1>2. ProcTypes'
  BY TypeParts DEF Acquires, Goto, ProcTypes, Critical
<1>3. QED
  BY <1>1, <1>2, TypeParts

LEMMA AcquireLockType ==
  ASSUME TypeOK, NEW p \in Procs, AcquireLock(p)
  PROVE  TypeOK'
<1>. USE TypeParts
<1>1. ASSUME UNCHANGED <<dbVars, envVars>> PROVE DbTypes'
  BY <1>1 DEF dbVars, envVars, DbTypes
<1>2. CASE Insert(p)
  BY <1>2, AcquiresType DEF Insert
<1>3. CASE InsertFails(p)
  BY <1>1, <1>3, MovesType, EndsType DEF InsertFails, Before
<1>4. CASE Select(p)
  <2>1. CASE Ends(p)
    BY <1>1, <1>4, <2>1, EndsType DEF Select
  <2>2. CASE ~Ends(p)
    BY <1>1, <1>4, <2>2 DEF Select, Goto, ProcTypes, DbTypes, Before
  <2>3. QED
    BY <2>1, <2>2
<1>5. CASE Steal(p)
  BY <1>1, <1>5, AcquiresType, EndsType DEF Steal
<1>6. QED
  BY <1>2, <1>3, <1>4, <1>5 DEF AcquireLock

LEMMA StartRunType ==
  ASSUME TypeOK, NEW p \in Procs, NEW o \in Owners, NEW l \in {"accounts", "next"},
         StartRun(p, o, l) \/ StartRunFails(p, l)
  PROVE  TypeOK'
<1>. USE TypeParts
<1>1. CASE StartRun(p, o, l)
  <2>1. DbTypes'
    BY <1>1 DEF StartRun, envVars, DbTypes
  <2>2. ProcTypes'
    BY <1>1 DEF StartRun, Goto, ProcTypes, DbTypes, Critical
  <2>3. QED
    BY <2>1, <2>2
<1>2. CASE StartRunFails(p, l)
  <2>1. DbTypes'
    BY <1>2 DEF StartRunFails, Fault, dbVars, DbTypes
  <2>2. ProcTypes'
    BY <1>2, MovesType DEF StartRunFails, Critical
  <2>3. QED
    BY <2>1, <2>2
<1>3. QED
  BY <1>1, <1>2

LEMMA ScanType ==
  ASSUME TypeOK, NEW p \in Procs, Scan(p)
  PROVE  TypeOK'
<1>. USE TypeParts
<1>0. Global \in Owners /\ Accounts \subseteq Owners
  BY DEF Owners
<1>1. ASSUME UNCHANGED <<dbVars, envVars>> PROVE DbTypes'
  BY <1>1 DEF dbVars, envVars, DbTypes
<1>2. CASE StartGlobal(p)
  BY <1>0, <1>1, <1>2, StartRunType, MovesType DEF StartGlobal, Critical
<1>3. CASE EndScan(p)
  BY <1>1, <1>3, MovesType DEF EndScan, ProcTypes, Critical
<1>4. CASE Clear(p)
  <2>1. scope[p] \in Owners
    BY <1>4 DEF Clear, ProcTypes
  <2>2. DbTypes'
    BY <1>4, <2>1 DEF Clear, Fault, DbTypes
  <2>3. ProcTypes'
    BY <1>4, MovesType DEF Clear, AfterClear, Critical
  <2>4. QED
    BY <2>2, <2>3
<1>5. CASE LoadAccounts(p)
  <2>1. DbTypes'
    BY <1>5 DEF LoadAccounts, Fault, dbVars, DbTypes
  <2>2. PICK s : s = [a \in Owners |-> IF a = Global THEN 0 ELSE request[a]]
    OBVIOUS
  <2>3. s \in [Owners -> Nat]
    BY <2>2 DEF DbTypes
  <2>4. ProcTypes'
    <3>1. /\ pc' \in [Procs -> {"off"} \cup Before \cup Critical]
          /\ \A q \in Procs : pc'[q] \in {"scan", "clear", "start"} => pc'[q] = pc[q]
      BY <1>5 DEF LoadAccounts, Goto, ProcTypes, Critical
    <3>2. seen' \in [Procs -> [Owners -> Nat]] /\ todo' \in [Procs -> SUBSET Accounts]
      BY <1>5, <2>2, <2>3 DEF LoadAccounts, ProcTypes
    <3>3. UNCHANGED <<due, found, late, scope, began, asked>>
      BY <1>5 DEF LoadAccounts
    <3>4. QED
      BY <3>1, <3>2, <3>3 DEF ProcTypes
  <2>5. QED
    BY <2>1, <2>4
<1>6. CASE NextAccount(p)
  <2>1. DbTypes'
    BY <1>1, <1>6 DEF NextAccount
  <2>2. CASE Goto(p, "release") /\ UNCHANGED <<scope, todo>>
    BY <1>6, <2>1, <2>2 DEF NextAccount, Goto, ProcTypes, Critical
  <2>3. CASE \E a \in todo[p] :
               /\ todo' = [todo EXCEPT ![p] = @ \ {a}]
               /\ \/ scope' = [scope EXCEPT ![p] = a] /\ Goto(p, "start")
                  \/ UNCHANGED <<scope, pc>>
    <3>1. PICK a \in todo[p] :
             /\ todo' = [todo EXCEPT ![p] = @ \ {a}]
             /\ \/ scope' = [scope EXCEPT ![p] = a] /\ Goto(p, "start")
                \/ UNCHANGED <<scope, pc>>
      BY <2>3
    <3>2. a \in Owners
      BY <1>0, <3>1 DEF ProcTypes
    <3>3. ProcTypes'
      <4>1. todo' \in [Procs -> SUBSET Accounts]
        BY <3>1 DEF ProcTypes
      <4>2. UNCHANGED <<due, seen, found, late, began, asked>>
        BY <1>6 DEF NextAccount
      <4>3. CASE scope' = [scope EXCEPT ![p] = a] /\ Goto(p, "start")
        <5>1. pc' \in [Procs -> {"off"} \cup Before \cup Critical] /\ pc' = [pc EXCEPT ![p] = "start"]
          BY <4>3 DEF Goto, ProcTypes, Critical
        <5>2. scope' \in [Procs -> Owners \cup {None}] /\ scope'[p] \in Owners
          BY <3>2, <4>3 DEF ProcTypes
        <5>3. \A q \in Procs \ {p} : scope'[q] = scope[q] /\ pc'[q] = pc[q]
          BY <4>3, <5>1 DEF ProcTypes
        <5>4. QED
          BY <4>1, <4>2, <5>1, <5>2, <5>3 DEF ProcTypes
      <4>4. CASE UNCHANGED <<scope, pc>>
        BY <4>1, <4>2, <4>4 DEF ProcTypes
      <4>5. QED
        BY <3>1, <4>3, <4>4
    <3>4. QED
      BY <2>1, <3>3
  <2>4. QED
    BY <1>6, <2>2, <2>3 DEF NextAccount
<1>7. CASE StartUser(p)
  <2>1. scope[p] \in Owners
    BY <1>7 DEF StartUser, ProcTypes
  <2>2. QED
    BY <1>7, <2>1, StartRunType DEF StartUser
<1>8. CASE Release(p)
  <2>1. DbTypes'
    BY <1>8 DEF Release, envVars, DbTypes
  <2>2. QED
    BY <1>8, <2>1, EndsType DEF Release
<1>9. QED
  BY <1>2, <1>3, <1>4, <1>5, <1>6, <1>7, <1>8 DEF Scan

LEMMA TypesNext == TypeOK /\ [Next]_vars => TypeOK'
<1>. SUFFICES ASSUME TypeOK, [Next]_vars PROVE TypeOK'
  OBVIOUS
<1>. USE TypeParts
<1>1. ASSUME UNCHANGED procVars PROVE ProcTypes'
  BY <1>1 DEF procVars, ProcTypes
<1>2. ASSUME NEW p \in Procs, Tick(p) PROVE TypeOK'
  BY <1>2, MovesType DEF Tick, Before, dbVars, envVars, DbTypes
<1>3. ASSUME NEW p \in Procs, Crash(p) PROVE TypeOK'
  BY <1>3, EndsType DEF Crash, Fault, dbVars, DbTypes
<1>4. ASSUME NEW p \in Procs, Deadline(p) PROVE TypeOK'
  BY <1>4 DEF Deadline, dbVars, envVars, DbTypes, ProcTypes
<1>5. ASSUME NEW o \in Owners, IntervalOver(o) PROVE TypeOK'
  BY <1>1, <1>5 DEF IntervalOver, envVars, DbTypes
<1>6. ASSUME NEW o \in Owners, Click(o) PROVE TypeOK'
  BY <1>1, <1>6 DEF Click, DbTypes
<1>7. CASE LockAges
  BY <1>1, <1>7 DEF LockAges, envVars, DbTypes
<1>8. CASE Configure
  BY <1>1, <1>8 DEF Configure, dbVars, DbTypes
<1>9. CASE UNCHANGED vars
  BY <1>1, <1>9 DEF vars, dbVars, envVars, DbTypes
<1>10. QED
  BY <1>2, <1>3, <1>4, <1>5, <1>6, <1>7, <1>8, <1>9, ScheduleType, AcquireLockType, ScanType DEF Next

(* The row, the requests and what each process remembers keep their types; a
   process that scans or clears a request knows for whom. *)
THEOREM TypesAlways == Spec => []TypeOK
BY TypesInit, TypesNext, PTL DEF Spec

-----------------------------------------------------------------------------
(* A process has read nothing from the future, and what it read of a request
   before its run is no newer than the run. *)
ClickInv ==
    /\ \A o \in Owners : request[o] <= clicks
    /\ \A p \in Procs, o \in Owners : seen[p][o] <= clicks
    /\ \A p \in Procs : pc[p] \in {"scan", "clear"} => seen[p][scope[p]] <= began[p]

LEMMA ClickTypes ==
  ASSUME TypeOK
  PROVE  /\ request \in [Owners -> Nat] /\ clicks \in Nat
         /\ seen \in [Procs -> [Owners -> Nat]] /\ began \in [Procs -> Nat]
         /\ pc \in [Procs -> {"off"} \cup Before \cup Critical]
         /\ scope \in [Procs -> Owners \cup {None}]
         /\ todo \in [Procs -> SUBSET Accounts]
         /\ \A p \in Procs : pc[p] \in {"scan", "clear", "start"} => scope[p] \in Owners
BY DEF TypeOK

(* A process moves on, and does not begin a run. *)
LEMMA ClickMoves ==
  ASSUME TypeOK, ClickInv, NEW p \in Procs, NEW l, l = "clear" => pc[p] = "scan", l # "scan", Goto(p, l),
         UNCHANGED <<clicks, seen, scope, began>>,
         \A o \in Owners : request'[o] <= clicks
  PROVE  ClickInv'
<1>1. \A q \in Procs : pc'[q] \in {"scan", "clear"} =>
         pc[q] \in {"scan", "clear"}
  BY ClickTypes DEF Goto
<1>2. QED
  BY <1>1 DEF ClickInv

LEMMA ClickEnds ==
  ASSUME TypeOK, ClickInv, NEW p \in Procs, Ends(p), UNCHANGED <<request, clicks>>
  PROVE  ClickInv'
<1>1. /\ pc'[p] = "off" /\ \A o \in Owners : seen'[p][o] = 0
      /\ \A q \in Procs \ {p} : /\ pc'[q] = pc[q] /\ seen'[q] = seen[q]
                                /\ scope'[q] = scope[q] /\ began'[q] = began[q]
  BY ClickTypes DEF Ends, Goto, Unseen
<1>2. \A q \in Procs, o \in Owners : seen'[q][o] <= clicks
  BY <1>1, ClickTypes DEF ClickInv
<1>3. QED
  BY <1>1, <1>2 DEF ClickInv

LEMMA ClickStarts ==
  ASSUME TypeOK, ClickInv, NEW p \in Procs, NEW o \in Owners, NEW l \in {"accounts", "next"},
         StartRun(p, o, l) \/ StartRunFails(p, l)
  PROVE  ClickInv'
<1>1. CASE StartRun(p, o, l)
  <2>1. /\ UNCHANGED <<request, clicks, seen>>
        /\ began'[p] = clicks /\ scope'[p] = o
        /\ \A q \in Procs \ {p} : pc'[q] = pc[q] /\ scope'[q] = scope[q] /\ began'[q] = began[q]
    BY <1>1, ClickTypes DEF StartRun, Goto, envVars
  <2>2. QED
    BY <2>1 DEF ClickInv
<1>2. CASE StartRunFails(p, l)
  <2>1. UNCHANGED <<request, clicks, seen, scope, began>> /\ Goto(p, l)
    BY <1>2 DEF StartRunFails, Moves, dbVars
  <2>2. QED
    BY <2>1, ClickMoves DEF ClickInv
<1>3. QED
  BY <1>1, <1>2

LEMMA ClickLock ==
  ASSUME TypeOK, ClickInv, NEW p \in Procs, Tick(p) \/ Schedule(p) \/ AcquireLock(p)
  PROVE  ClickInv'
<1>1. UNCHANGED <<request, clicks>>
  BY DEF Tick, Schedule, ReadRequest, ReadLastRun, ReadUsers, AcquireLock, Insert, InsertFails, Select,
         Steal, Acquires, dbVars, envVars
<1>2. CASE Ends(p)
  BY <1>1, <1>2, ClickEnds
<1>3. CASE ReadRequest(p)
  <2>1. /\ pc'[p] \notin {"scan", "clear"} /\ UNCHANGED <<scope, began>>
        /\ \A q \in Procs \ {p} : pc'[q] = pc[q] /\ seen'[q] = seen[q]
    BY <1>3, ClickTypes DEF ReadRequest, Goto
  <2>2. \A o \in Owners : seen'[p][o] \in {seen[p][o], request[o]}
    <3>1. Global \in Owners
      BY DEF Owners
    <3>2. QED
      BY <1>3, <3>1, ClickTypes DEF ReadRequest
  <2>3. \A o \in Owners : seen'[p][o] <= clicks
    BY <2>2 DEF ClickInv
  <2>4. QED
    BY <1>1, <2>1, <2>3 DEF ClickInv
<1>4. CASE ~Ends(p) /\ ~ReadRequest(p)
  <2>1. UNCHANGED <<seen, scope, began>> /\ \E l \in Before \cup {"locked"} : Goto(p, l)
    BY <1>4 DEF Tick, Schedule, ReadLastRun, ReadUsers, AcquireLock, Insert, InsertFails, Select, Steal,
                Acquires, Moves, Before
  <2>2. QED
    BY <1>1, <2>1, ClickMoves DEF ClickInv, Before
<1>5. QED
  BY <1>2, <1>3, <1>4

LEMMA ClickScan ==
  ASSUME TypeOK, ClickInv, NEW p \in Procs, Scan(p)
  PROVE  ClickInv'
<1>1. CASE StartGlobal(p)
  <2>1. CASE StartRun(p, Global, "accounts") \/ StartRunFails(p, "accounts")
    BY <2>1, ClickStarts DEF Owners
  <2>2. CASE Moves(p, "accounts") /\ UNCHANGED <<dbVars, envVars>>
    BY <2>2, ClickMoves DEF Moves, dbVars, envVars, ClickInv
  <2>3. QED
    BY <1>1, <2>1, <2>2 DEF StartGlobal
<1>2. CASE EndScan(p)
  BY <1>2, ClickMoves DEF EndScan, Moves, dbVars, envVars, ClickInv
<1>3. CASE Clear(p)
  <2>1. UNCHANGED <<clicks, seen, scope, began>> /\ \E l \in {"accounts", "next"} : Goto(p, l)
    BY <1>3 DEF Clear, AfterClear, Moves
  <2>2. \A o \in Owners : request'[o] \in {request[o], 0}
    BY <1>3, ClickTypes DEF Clear
  <2>3. \A o \in Owners : request'[o] <= clicks
    BY <2>2, ClickTypes DEF ClickInv
  <2>4. QED
    BY <2>1, <2>3, ClickMoves
<1>4. CASE LoadAccounts(p)
  <2>1. /\ UNCHANGED <<request, clicks, scope, began>> /\ pc'[p] \notin {"scan", "clear"}
        /\ \A q \in Procs \ {p} : pc'[q] = pc[q] /\ seen'[q] = seen[q]
    BY <1>4, ClickTypes DEF LoadAccounts, Goto, dbVars
  <2>2. \A o \in Owners : seen'[p][o] \in {0, request[o], seen[p][o]}
    BY <1>4, ClickTypes DEF LoadAccounts
  <2>3. \A o \in Owners : seen'[p][o] <= clicks
    BY <2>2, ClickTypes DEF ClickInv
  <2>4. QED
    BY <2>1, <2>3 DEF ClickInv
<1>5. CASE NextAccount(p)
  <2>1. UNCHANGED <<request, clicks, seen, began>> /\ pc[p] = "next"
    BY <1>5 DEF NextAccount, dbVars, envVars
  <2>2. /\ pc'[p] \notin {"scan", "clear"}
        /\ \A q \in Procs \ {p} : pc'[q] = pc[q] /\ scope'[q] = scope[q]
    BY <1>5, ClickTypes DEF NextAccount, Goto
  <2>3. QED
    BY <2>1, <2>2 DEF ClickInv
<1>6. CASE StartUser(p)
  BY <1>6, ClickTypes, ClickStarts DEF StartUser
<1>7. CASE Release(p)
  BY <1>7, ClickEnds DEF Release, envVars
<1>8. QED
  BY <1>1, <1>2, <1>3, <1>4, <1>5, <1>6, <1>7 DEF Scan

LEMMA ClickNext == ASSUME TypeOK, ClickInv, [Next]_vars PROVE ClickInv'
<1>1. ASSUME UNCHANGED <<request, clicks, seen, scope, began, pc>> PROVE ClickInv'
  BY <1>1 DEF ClickInv
<1>2. ASSUME NEW p \in Procs, Crash(p) PROVE ClickInv'
  BY <1>2, ClickEnds DEF Crash, dbVars
<1>3. ASSUME NEW o \in Owners, Click(o) PROVE ClickInv'
  <2>1. /\ clicks' = clicks + 1 /\ UNCHANGED <<seen, scope, began, pc>>
        /\ \A v \in Owners : request'[v] \in {request[v], clicks + 1}
    BY <1>3, ClickTypes DEF Click, procVars
  <2>2. QED
    BY <2>1, ClickTypes DEF ClickInv
<1>4. CASE \/ \E p \in Procs : Deadline(p)
           \/ \E o \in Owners : IntervalOver(o)
           \/ LockAges \/ Configure \/ UNCHANGED vars
  BY <1>1, <1>4 DEF Deadline, IntervalOver, LockAges, Configure, vars, dbVars, envVars, procVars
<1>5. QED
  BY <1>2, <1>3, <1>4, ClickLock, ClickScan DEF Next

LEMMA ClickInvAlways == Spec => []ClickInv
<1>1. Init => ClickInv
  BY DEF Init, ClickInv, Unseen
<1>2. QED
  BY <1>1, ClickNext, TypesAlways, PTL DEF Spec

(* A request is only cleared by a run of its owner that began when it was there
   already, also when scans overlap because one outlived its deadline
   (store.go:83-92). *)
THEOREM RequestsAreKept == Spec => RequestKept
<1>. DEFINE Step(o) ==
         request[o] # 0 /\ request'[o] = 0 =>
             \E p \in Procs : pc[p] = "clear" /\ scope[p] = o /\ began[p] >= request[o]
<1>1. ASSUME TypeOK, ClickInv, Next, NEW o \in Owners PROVE Step(o)
  <2>. SUFFICES ASSUME request[o] # 0, request'[o] = 0
                PROVE  \E p \in Procs : pc[p] = "clear" /\ scope[p] = o /\ began[p] >= request[o]
    OBVIOUS
  <2>1. ASSUME NEW u \in Owners, Click(u) PROVE FALSE
    <3>1. request'[o] \in {request[o], clicks + 1} /\ clicks \in Nat
      BY <1>1, <2>1, ClickTypes DEF Click
    <3>2. QED
      BY <3>1
  <2>2. PICK p \in Procs : Clear(p)
    BY <1>1, <2>1
    DEF Next, Tick, Schedule, ReadRequest, ReadLastRun, ReadUsers, AcquireLock, Insert, InsertFails, Select,
        Steal, Acquires, Scan, StartGlobal, StartRun, StartRunFails, EndScan, LoadAccounts, NextAccount,
        StartUser, Release, Crash, Deadline, IntervalOver, LockAges, Configure, dbVars
  <2>3. pc[p] = "clear" /\ scope[p] = o /\ seen[p][o] = request[o]
    <3>1. pc[p] = "clear" /\ scope[p] \in Owners
      BY <1>1, <2>2, ClickTypes DEF Clear
    <3>2. /\ request' = [request EXCEPT ![scope[p]] = 0]
          /\ seen[p][scope[p]] = request[scope[p]]
      BY <2>2 DEF Clear
    <3>3. QED
      BY <3>1, <3>2, ClickTypes
  <2>4. QED
    BY <1>1, <2>3 DEF ClickInv
<1>2. TypeOK /\ ClickInv /\ [Next]_vars => [\A o \in Owners : Step(o)]_vars
  BY <1>1
<1>3. QED
  BY <1>2, ClickInvAlways, TypesAlways, PTL DEF Spec, RequestKept

-----------------------------------------------------------------------------
(* What a process has yet to visit, and what it read of it, is only touched by
   the holder of the lock: an account it starts with is due at that moment. *)
DueFor(p) ==
    /\ pc[p] \notin Critical => todo[p] = {}
    /\ pc[p] \in {"start", "scan", "clear"} => scope[p] \notin todo[p]
    /\ pc[p] \in Critical => \A a \in todo[p] : seen[p][a] # 0 => request[a] # 0
    /\ pc[p] = "start" => scope[p] \notin recent \/ request[scope[p]] # 0

DueInv == \A p \in Procs : DueFor(p)

(* While the holder acts the others hold nothing; while others act requests
   and runs stay. *)
LEMMA Bystander ==
  ASSUME LockInv, NEW p \in Procs, NEW q \in Procs, p # q, DueFor(p),
         pc'[p] = pc[p], todo'[p] = todo[p], seen'[p] = seen[p], scope'[p] = scope[p],
         pc[q] \in Critical \/ UNCHANGED <<request, recent>>
  PROVE  DueFor(p)'
<1>1. CASE pc[q] \in Critical
  <2>1. pc[p] \notin Critical
    BY <1>1 DEF LockInv, Exclusive, Locked
  <2>2. QED
    BY <2>1 DEF DueFor, Critical
<1>2. CASE UNCHANGED <<request, recent>>
  BY <1>2 DEF DueFor
<1>3. QED
  BY <1>1, <1>2

LEMMA DueEnds ==
  ASSUME TypeOK, LockInv, DueInv, NEW q \in Procs, Ends(q),
         pc[q] \in Critical \/ UNCHANGED <<request, recent>>
  PROVE  DueInv'
<1>1. /\ pc'[q] = "off" /\ todo'[q] = {}
      /\ \A p \in Procs \ {q} : /\ pc'[p] = pc[p] /\ todo'[p] = todo[p]
                                /\ seen'[p] = seen[p] /\ scope'[p] = scope[p]
  BY ClickTypes DEF Ends, Goto
<1>2. DueFor(q)'
  BY <1>1 DEF DueFor, Critical
<1>3. ASSUME NEW p \in Procs, p # q PROVE DueFor(p)'
  BY <1>1, <1>3, Bystander DEF DueInv
<1>4. QED
  BY <1>2, <1>3 DEF DueInv

(* On the way to the lock. *)
LEMMA DueLock ==
  ASSUME TypeOK, LockInv, DueInv, NEW q \in Procs, Tick(q) \/ Schedule(q) \/ AcquireLock(q)
  PROVE  DueInv'
<1>1. UNCHANGED <<request, recent>> /\ pc[q] \notin Critical
  BY DEF Tick, Schedule, ReadRequest, ReadLastRun, ReadUsers, AcquireLock, Insert, InsertFails, Select,
         Steal, Acquires, dbVars, envVars, Critical
<1>2. CASE Ends(q)
  BY <1>1, <1>2, DueEnds
<1>3. CASE ~Ends(q)
  <2>1. UNCHANGED <<todo, scope>> /\ \E l \in Before \cup {"locked"} : Goto(q, l)
    BY <1>3 DEF Tick, Schedule, ReadRequest, ReadLastRun, ReadUsers, AcquireLock, Insert, InsertFails,
                Select, Steal, Acquires, Moves, Before
  <2>2. \A p \in Procs \ {q} : pc'[p] = pc[p] /\ seen'[p] = seen[p]
    BY <1>3, ClickTypes
    DEF Tick, Schedule, ReadRequest, ReadLastRun, ReadUsers, AcquireLock, Insert, InsertFails,
        Select, Steal, Acquires, Moves, Goto
  <2>3. pc'[q] \in Before \cup {"locked"}
    BY <2>1, ClickTypes DEF Goto
  <2>4. todo'[q] = {}
    BY <1>1, <2>1 DEF DueInv, DueFor
  <2>5. DueFor(q)'
    BY <2>3, <2>4 DEF DueFor, Before, Critical
  <2>6. ASSUME NEW p \in Procs, p # q PROVE DueFor(p)'
    BY <1>1, <2>1, <2>2, <2>6, Bystander DEF DueInv
  <2>7. QED
    BY <2>5, <2>6 DEF DueInv
<1>4. QED
  BY <1>2, <1>3

(* The holder's own part. *)
LEMMA DueStarts ==
  ASSUME TypeOK, NEW q \in Procs, DueFor(q), pc[q] \in Critical, NEW o \in Owners, o \notin todo[q],
         NEW l \in {"accounts", "next"}, StartRun(q, o, l) \/ StartRunFails(q, l)
  PROVE  DueFor(q)'
<1>1. UNCHANGED <<request, seen, todo>>
  BY DEF StartRun, StartRunFails, Moves, dbVars
<1>2. \/ pc'[q] \in {"accounts", "next"}
      \/ pc'[q] = "scan" /\ scope'[q] = o
  BY ClickTypes DEF StartRun, StartRunFails, Moves, Goto
<1>3. QED
  BY <1>1, <1>2 DEF DueFor, Critical

LEMMA DueScan ==
  ASSUME TypeOK, NEW q \in Procs, DueFor(q), Scan(q)
  PROVE  DueFor(q)' \/ Release(q)
<1>0. todo[q] \subseteq Accounts /\ Global \in Owners /\ Accounts \subseteq Owners
  BY ClickTypes DEF Owners
<1>1. CASE StartGlobal(q)
  <2>1. pc[q] \in Critical /\ Global \notin todo[q]
    BY <1>0, <1>1, AccountsAssumption DEF StartGlobal, Critical
  <2>2. CASE StartRun(q, Global, "accounts") \/ StartRunFails(q, "accounts")
    BY <1>0, <2>1, <2>2, DueStarts
  <2>3. CASE Moves(q, "accounts") /\ UNCHANGED <<dbVars, envVars>>
    <3>1. UNCHANGED <<request, seen, todo>> /\ pc'[q] = "accounts"
      BY <2>3, ClickTypes DEF Moves, Goto, dbVars
    <3>2. QED
      BY <2>1, <3>1 DEF DueFor, Critical
  <2>4. QED
    BY <1>1, <2>2, <2>3 DEF StartGlobal
<1>2. CASE EndScan(q)
  <2>1. UNCHANGED <<request, seen, todo, scope>> /\ pc[q] = "scan" /\ pc'[q] = "clear"
    BY <1>2, ClickTypes DEF EndScan, Moves, Goto, dbVars
  <2>2. QED
    BY <2>1 DEF DueFor, Critical
<1>3. CASE Clear(q)
  <2>1. UNCHANGED <<seen, todo>> /\ pc[q] = "clear" /\ pc'[q] \in {"accounts", "next"}
    BY <1>3, ClickTypes DEF Clear, AfterClear, Moves, Goto
  <2>2. \A a \in todo[q] : request'[a] = request[a]
    <3>1. scope[q] \notin todo[q]
      BY <2>1 DEF DueFor
    <3>2. request' = request \/ request' = [request EXCEPT ![scope[q]] = 0]
      BY <1>3 DEF Clear
    <3>3. QED
      BY <1>0, <3>1, <3>2, ClickTypes
  <2>3. QED
    BY <2>1, <2>2 DEF DueFor, Critical
<1>4. CASE LoadAccounts(q)
  <2>1. request' = request /\ pc[q] = "accounts"
    BY <1>4 DEF LoadAccounts, dbVars
  <2>2. CASE Goto(q, "next") /\ seen' = [seen EXCEPT ![q] = [a \in Owners |-> IF a = Global THEN 0 ELSE request[a]]]
             /\ todo' = [todo EXCEPT ![q] = Accounts]
    <3>1. pc'[q] = "next" /\ todo'[q] = Accounts /\ \A a \in Owners : seen'[q][a] \in {0, request[a]}
      BY <2>2, ClickTypes DEF Goto
    <3>2. QED
      BY <1>0, <2>1, <3>1 DEF DueFor, Critical
  <2>3. CASE Goto(q, "release") /\ UNCHANGED <<seen, todo>>
    <3>1. pc'[q] = "release"
      BY <2>3, ClickTypes DEF Goto
    <3>2. QED
      BY <2>1, <2>3, <3>1 DEF DueFor, Critical
  <2>4. QED
    BY <1>4, <2>2, <2>3 DEF LoadAccounts
<1>5. CASE NextAccount(q)
  <2>1. UNCHANGED <<request, recent, seen>> /\ pc[q] = "next"
    BY <1>5 DEF NextAccount, dbVars
  <2>2. CASE Goto(q, "release") /\ UNCHANGED <<scope, todo>>
    <3>1. pc'[q] = "release"
      BY <2>2, ClickTypes DEF Goto
    <3>2. QED
      BY <2>1, <2>2, <3>1 DEF DueFor, Critical
  <2>3. ASSUME NEW a \in todo[q], todo' = [todo EXCEPT ![q] = @ \ {a}], UserDue(q, a),
               scope' = [scope EXCEPT ![q] = a], Goto(q, "start")
        PROVE  DueFor(q)'
    <3>1. pc'[q] = "start" /\ scope'[q] = a /\ todo'[q] = todo[q] \ {a}
      BY <2>3, ClickTypes DEF Goto
    <3>2. a \notin recent \/ request[a] # 0
      BY <2>1, <2>3 DEF UserDue, DueFor, Critical
    <3>3. QED
      BY <2>1, <3>1, <3>2 DEF DueFor, Critical
  <2>4. ASSUME NEW a \in todo[q], todo' = [todo EXCEPT ![q] = @ \ {a}], UNCHANGED <<scope, pc>>
        PROVE  DueFor(q)'
    <3>1. todo'[q] = todo[q] \ {a}
      BY <2>4, ClickTypes
    <3>2. QED
      BY <2>1, <2>4, <3>1 DEF DueFor, Critical
  <2>5. QED
    BY <1>5, <2>2, <2>3, <2>4 DEF NextAccount
<1>6. CASE StartUser(q)
  <2>1. pc[q] \in Critical /\ scope[q] \in Owners /\ scope[q] \notin todo[q]
    BY <1>6, ClickTypes DEF StartUser, Critical, DueFor
  <2>2. QED
    BY <1>6, <2>1, DueStarts DEF StartUser
<1>7. QED
  BY <1>1, <1>2, <1>3, <1>4, <1>5, <1>6 DEF Scan

LEMMA DueNext == ASSUME TypeOK, LockInv, DueInv, [Next]_vars PROVE DueInv'
<1>1. ASSUME NEW q \in Procs, Crash(q) PROVE DueInv'
  BY <1>1, DueEnds DEF Crash, dbVars
<1>2. ASSUME NEW q \in Procs, Scan(q) PROVE DueInv'
  <2>1. pc[q] \in Critical
    BY <1>2 DEF Scan, StartGlobal, EndScan, Clear, LoadAccounts, NextAccount, StartUser, Release, Critical
  <2>2. CASE Release(q)
    BY <2>1, <2>2, DueEnds DEF Release
  <2>3. CASE ~Release(q)
    <3>1. DueFor(q)'
      BY <1>2, <2>3, DueScan DEF DueInv
    <3>2. \A p \in Procs \ {q} : /\ pc'[p] = pc[p] /\ todo'[p] = todo[p]
                                 /\ seen'[p] = seen[p] /\ scope'[p] = scope[p]
      BY <1>2, <2>3, ClickTypes
      DEF Scan, StartGlobal, StartRun, StartRunFails, EndScan, Clear, AfterClear, LoadAccounts, NextAccount,
          StartUser, Moves, Goto
    <3>3. ASSUME NEW p \in Procs, p # q PROVE DueFor(p)'
      BY <2>1, <3>2, <3>3, Bystander DEF DueInv
    <3>4. QED
      BY <3>1, <3>3 DEF DueInv
  <2>4. QED
    BY <2>2, <2>3
<1>3. ASSUME UNCHANGED <<pc, seen, scope, todo>>, recent' \subseteq recent,
             \A o \in Owners : request'[o] \in {request[o], clicks + 1}
      PROVE  DueInv'
  <2>. SUFFICES ASSUME NEW p \in Procs PROVE DueFor(p)'
    BY DEF DueInv
  <2>1. \A o \in Owners : request[o] # 0 => request'[o] # 0
    BY <1>3, ClickTypes
  <2>2. todo[p] \subseteq Owners /\ (pc[p] = "start" => scope[p] \in Owners)
    BY ClickTypes DEF Owners
  <2>3. QED
    BY <1>3, <2>1, <2>2 DEF DueInv, DueFor
<1>4. ASSUME NEW o \in Owners, Click(o) PROVE DueInv'
  BY <1>3, <1>4, ClickTypes DEF Click, procVars
<1>5. CASE \/ \E p \in Procs : Deadline(p)
           \/ \E o \in Owners : IntervalOver(o)
           \/ LockAges \/ Configure \/ UNCHANGED vars
  BY <1>3, <1>5 DEF Deadline, IntervalOver, LockAges, Configure, vars, dbVars, envVars, procVars
<1>6. QED
  BY <1>1, <1>2, <1>4, <1>5, DueLock DEF Next

(* An account is scanned because its interval is over or somebody asked, even
   if an earlier run served it between the tick and the lock: provided no scan
   outlives its deadline by five minutes (main.go:145-153). *)
THEOREM AccountsAreDue == ASSUME ~Slow PROVE Spec => AccountsScannedWhenDue
<1>1. Init => DueInv
  BY DEF Init, DueInv, DueFor, Critical
<1>2. DueInv /\ [Next]_vars
        => [\A a \in Accounts : (\E p \in Procs : StartUser(p) /\ scope[p] = a) =>
               a \notin recent \/ request[a] # 0]_vars
  BY DEF DueInv, DueFor, StartUser
<1>3. TypeOK /\ LockInv /\ DueInv /\ [Next]_vars => DueInv'
  BY DueNext
<1>4. LockInv /\ [Next]_vars => LockInv'
  BY LockInvNext
<1>5. QED
  BY <1>1, <1>2, <1>3, <1>4, LockInvInit, TypesAlways, PTL DEF Spec, AccountsScannedWhenDue

-----------------------------------------------------------------------------
(***************************************************************************)
(* GitHubScan: the pacing keeps a scan's own searches within the rate      *)
(* limit, and its summary is honest, for all limits, times and plans.      *)
(***************************************************************************)
(* A window that is over has everything left. *)
WindowInv == \A b \in Buckets : ends[b] = 0 => left[b] = Limit

(* A wait of t ticks is enough for a search in b. *)
Enough(b, t) == left[b] > 0 \/ ends[b] <= t

(* What the client remembers of a bucket, or is being told, is safe to go by. *)
Safe(r, b) == /\ r.left > 0 => left[b] > 0
              /\ r.left = 0 /\ r.in # Unset => Enough(b, r.in + Margin)

MemoryInv == \A b \in Buckets :
    ~shared[b] /\ (b # Bucket \/ call.at = "next") /\ call.at # "end" => Safe(limits[b], b)

CallInv == ~shared[Bucket] =>
    /\ call.at = "wait" => Enough(Bucket, call.timer)
    /\ call.at = "sent" /\ reply.kind = "none" => left[Bucket] > 0
    /\ call.at = "sent" /\ reply.kind # "none" => Safe(reply, Bucket)

ReplyInv == /\ reply.kind # "none" => call.at = "sent"
            /\ reply.kind = "refused" => reply.left = 0

PaceInv == SearchTypeOK /\ WindowInv /\ MemoryInv /\ CallInv /\ ReplyInv

(* Until a failure is tallied, every search before the present one was answered. *)
SummaryInv ==
    /\ call.at # "end" => result = "none" /\ (~failed => answered = k - 1)
    /\ HonestResult

-----------------------------------------------------------------------------
LEMMA Constants ==
  /\ Margin \in Nat /\ DefaultWait \in Nat /\ MaxRateWait \in Nat /\ HttpTimeout \in Nat /\ RunDeadline \in Nat
  /\ Window \in Nat /\ Window > 0 /\ Limit \in Nat /\ Limit > 0 /\ Skew \in 0..Margin /\ Window <= DefaultWait
  /\ Unset \notin Int
  BY ServerAssumption, ClientAssumption

LEMMA PlanType == Len(Plan) \in Nat /\ Len(Plan) > 0 /\ \A i \in 1..Len(Plan) : Plan[i] \in Buckets
  BY PlanAssumption

LEMMA BucketType == SearchTypeOK => Bucket \in Buckets
  BY PlanType DEF SearchTypeOK, Bucket

LEMMA LaterType ==
  ASSUME NEW r, r \in Rates \/ r \in Replies
  PROVE  /\ r \in Rates => Later(r) \in Rates
         /\ r \in Replies => Later(r) \in Replies /\ Later(r).kind = r.kind
         /\ Later(r).left = r.left
         /\ r.in # Unset => Later(r).in # Unset /\ (Later(r).in = r.in - 1 \/ (r.in = -Margin /\ Later(r).in = r.in))
         /\ r.in = Unset => Later(r).in = Unset
         /\ r.in \in Ins
  BY Constants DEF Later, Rates, Replies, Ins

(* Every way a call goes on keeps its type. *)
LEMMA GoesType ==
  ASSUME NEW at \in {"next", "wait", "sent", "end"}, NEW t \in Nat, NEW r \in BOOLEAN, Goes(at, t, r)
  PROVE  call' \in Calls /\ call'.at = at /\ call'.timer = t
  BY DEF Goes, Calls

LEMMA PaceEffect ==
  ASSUME SearchTypeOK, NEW r, r \in Rates \/ r \in Replies, NEW retry \in BOOLEAN, Pace(r, retry)
  PROVE  /\ call' \in Calls
         /\ \/ call'.at = "end" /\ result' = "limited"
            \/ call'.at = "sent" /\ WaitFor(r) <= 0 /\ result' = result
            \/ call'.at = "wait" /\ call'.timer = WaitFor(r) /\ result' = result
         /\ WaitFor(r) \in Int
<1>1. WaitFor(r) \in Int
  BY Constants DEF WaitFor, Rates, Replies, Ins
<1>2. CASE WaitFor(r) > MaxRateWait
  <2>1. Goes("end", 0, FALSE) /\ result' = "limited"
    BY <1>2 DEF Pace, Finishes
  <2> QED
    BY <1>1, <2>1, GoesType
<1>3. CASE ~(WaitFor(r) > MaxRateWait) /\ WaitFor(r) <= 0
  <2>1. Goes("sent", HttpTimeout, retry) /\ result' = result
    BY <1>3 DEF Pace
  <2> QED
    BY <1>1, <1>3, <2>1, GoesType, Constants
<1>4. CASE ~(WaitFor(r) > MaxRateWait) /\ ~(WaitFor(r) <= 0)
  <2>1. Goes("wait", WaitFor(r), retry) /\ result' = result
    BY <1>4 DEF Pace
  <2>2. WaitFor(r) \in Nat
    BY <1>1, <1>4
  <2> QED
    BY <1>1, <2>1, <2>2, GoesType
<1> QED
  BY <1>2, <1>3, <1>4

LEMMA AdvanceEffect ==
  ASSUME SearchTypeOK, Advance
  PROVE  /\ call' \in Calls
         /\ k' \in 1..Len(Plan)
         /\ \/ call'.at = "next" /\ k' = k + 1 /\ result' = result
            \/ call'.at = "end" /\ k' = k /\ k = Len(Plan) /\ result' = IF failed' THEN "partial" ELSE "complete"
<1>1. CASE k < Len(Plan)
  <2>1. Goes("next", 0, FALSE) /\ k' = k + 1 /\ result' = result
    BY <1>1 DEF Advance
  <2>2. call' \in Calls /\ call'.at = "next"
    BY <2>1, GoesType
  <2>3. k' \in 1..Len(Plan)
    BY <1>1, <2>1, PlanType DEF SearchTypeOK
  <2> QED
    BY <2>1, <2>2, <2>3
<1>2. CASE ~(k < Len(Plan))
  <2>1. Goes("end", 0, FALSE) /\ k' = k /\ result' = IF failed' THEN "partial" ELSE "complete"
    BY <1>2 DEF Advance, Finishes
  <2>2. call' \in Calls /\ call'.at = "end"
    BY <2>1, GoesType
  <2>3. k \in 1..Len(Plan) /\ k = Len(Plan)
    BY <1>2, PlanType DEF SearchTypeOK
  <2> QED
    BY <2>1, <2>2, <2>3
<1> QED
  BY <1>1, <1>2

(* What waitForReset computes is enough, whether or not the reset is known. *)
LEMMA WaitIsEnough ==
  ASSUME SearchTypeOK, WindowInv, NEW b \in Buckets, NEW r, r \in Rates \/ r \in Replies,
         r.left = 0, Safe(r, b)
  PROVE  /\ Enough(b, WaitFor(r))
         /\ WaitFor(r) <= 0 => left[b] > 0
<1>1. ends[b] \in 0..Window /\ left[b] \in 0..Limit
  BY DEF SearchTypeOK
<1>2. CASE r.in = Unset
  BY <1>1, <1>2, Constants DEF WaitFor, Enough
<1>3. CASE r.in # Unset
  <2>1. r.in \in Int /\ WaitFor(r) = r.in + Margin /\ Enough(b, r.in + Margin)
    BY <1>3, LaterType, Constants DEF WaitFor, Safe, Ins
  <2> QED
    BY <1>1, <2>1, Constants DEF Enough, WindowInv
<1> QED
  BY <1>2, <1>3

-----------------------------------------------------------------------------
(* The pacing invariant, action by action. *)
LEMMA PaceInit == SearchInit => PaceInv
<1> SUFFICES ASSUME SearchInit PROVE PaceInv
  OBVIOUS
<1>1. SearchTypeOK
  <2>1. call \in Calls /\ NoReply \in Replies
    BY Constants DEF SearchInit, Calls, Replies, NoReply, Ins
  <2>2. limits \in [Buckets -> Rates]
    BY Constants DEF SearchInit, Rates, Ins
  <2>3. left \in [Buckets -> 0..Limit] /\ ends \in [Buckets -> 0..Window] /\ k \in 1..Len(Plan)
    BY Constants, PlanType DEF SearchInit
  <2> QED
    BY <2>1, <2>2, <2>3 DEF SearchInit, SearchTypeOK
<1>2. WindowInv
  BY DEF SearchInit, WindowInv
<1>3. MemoryInv
  BY Constants DEF SearchInit, MemoryInv, Safe, Enough
<1>4. CallInv /\ ReplyInv
  BY DEF SearchInit, CallInv, ReplyInv, NoReply
<1> QED
  BY <1>1, <1>2, <1>3, <1>4 DEF PaceInv

LEMMA SearchKeeps ==
  ASSUME PaceInv, Search
  PROVE  PaceInv'
<1> USE DEF PaceInv
<1>1. UNCHANGED <<left, ends, shared, limits, k, failed, answered, reply, budget>> /\ call.at = "next"
  BY DEF Search, server
<1>2. Bucket \in Buckets /\ Bucket' = Bucket
  BY <1>1, BucketType DEF Bucket
<1>3. limits[Bucket] \in Rates /\ (~shared[Bucket] => Safe(limits[Bucket], Bucket))
  BY <1>1, <1>2 DEF SearchTypeOK, MemoryInv
<1>4. /\ call' \in Calls /\ (result' = result \/ result' \in {"limited", "deadline"})
      /\ \/ call'.at = "end"
         \/ call'.at = "sent" /\ (~shared[Bucket] => left[Bucket] > 0)
         \/ call'.at = "wait" /\ (~shared[Bucket] => Enough(Bucket, call'.timer))
  <2>1. CASE Finishes("deadline")
    <3>1. Goes("end", 0, FALSE) /\ result' = "deadline"
      BY <2>1 DEF Finishes
    <3> QED
      BY <3>1, GoesType
  <2>2. CASE limits[Bucket].left = 0 /\ Pace(limits[Bucket], FALSE)
    <3>1. /\ call' \in Calls
          /\ \/ call'.at = "end" /\ result' = "limited"
             \/ call'.at = "sent" /\ WaitFor(limits[Bucket]) <= 0 /\ result' = result
             \/ call'.at = "wait" /\ call'.timer = WaitFor(limits[Bucket]) /\ result' = result
      BY <1>3, <2>2, PaceEffect
    <3>2. ~shared[Bucket] => /\ Enough(Bucket, WaitFor(limits[Bucket]))
                             /\ WaitFor(limits[Bucket]) <= 0 => left[Bucket] > 0
      BY <1>2, <1>3, <2>2, WaitIsEnough
    <3> QED
      BY <3>1, <3>2
  <2>3. CASE limits[Bucket].left # 0 /\ Goes("sent", HttpTimeout, FALSE) /\ result' = result
    <3>1. call' \in Calls /\ call'.at = "sent"
      BY <2>3, GoesType, Constants
    <3>2. limits[Bucket].left > 0
      BY <1>3, <2>3, Constants DEF Rates
    <3> QED
      BY <1>3, <2>3, <3>1, <3>2 DEF Safe
  <2> QED
    BY <2>1, <2>2, <2>3 DEF Search
<1>5. SearchTypeOK'
  BY <1>1, <1>4 DEF SearchTypeOK
<1>6. WindowInv' /\ ReplyInv'
  BY <1>1, <1>4 DEF WindowInv, ReplyInv
<1>7. MemoryInv'
  BY <1>1, <1>2 DEF MemoryInv, Safe, Enough
<1>8. reply.kind = "none"
  BY <1>1 DEF ReplyInv
<1>9. CallInv'
  BY <1>1, <1>2, <1>4, <1>8 DEF CallInv, Enough
<1> QED
  BY <1>5, <1>6, <1>7, <1>9

LEMMA WaitEndKeeps ==
  ASSUME PaceInv, Wake \/ Cancel
  PROVE  PaceInv'
<1> USE DEF PaceInv
<1>1. UNCHANGED <<left, ends, shared, limits, k, failed, answered, reply, budget>> /\ call.at = "wait"
  BY DEF Wake, Cancel, server, scan
<1>2. Bucket \in Buckets /\ Bucket' = Bucket
  BY <1>1, BucketType DEF Bucket
<1>3. /\ call' \in Calls /\ (result' = result \/ result' = "limited")
      /\ call'.at = "end" \/ (call'.at = "sent" /\ call.timer = 0)
  <2>1. CASE Wake
    <3>1. Goes("sent", HttpTimeout, call.retry) /\ result' = result /\ call.timer = 0
      BY <2>1 DEF Wake, scan
    <3> QED
      BY <3>1, GoesType, Constants DEF SearchTypeOK, Calls
  <2>2. CASE Cancel
    <3>1. Goes("end", 0, FALSE) /\ result' = "limited"
      BY <2>2 DEF Cancel, Finishes
    <3> QED
      BY <3>1, GoesType
  <2> QED
    BY <2>1, <2>2
<1>4. call.timer = 0 /\ ~shared[Bucket] => left[Bucket] > 0
  <2>1. ends[Bucket] \in 0..Window /\ left[Bucket] \in 0..Limit
    BY <1>2 DEF SearchTypeOK
  <2> QED
    BY <1>1, <1>2, <2>1, Constants DEF CallInv, Enough, WindowInv
<1>5. SearchTypeOK'
  BY <1>1, <1>3 DEF SearchTypeOK
<1>6. WindowInv' /\ ReplyInv'
  BY <1>1, <1>3 DEF WindowInv, ReplyInv
<1>7. MemoryInv'
  BY <1>1, <1>2, <1>3 DEF MemoryInv, Safe, Enough
<1>8. reply.kind = "none"
  BY <1>1 DEF ReplyInv
<1>9. CallInv'
  BY <1>1, <1>2, <1>3, <1>4, <1>8 DEF CallInv
<1> QED
  BY <1>5, <1>6, <1>7, <1>9

(* The end of a call: what is remembered is safe, and so is the rest. *)
LEMMA CallEndKeeps ==
  ASSUME PaceInv, call.at = "sent", UNCHANGED <<left, ends, shared, budget>>,
         reply' = NoReply, NEW r \in Rates, limits' = [limits EXCEPT ![Bucket] = r],
         ~shared[Bucket] => Safe(r, Bucket),
         call' \in Calls, call'.at \in {"next", "end"}, k' \in 1..Len(Plan),
         answered' \in Nat, failed' \in BOOLEAN,
         result' \in {"none", "complete", "partial", "limited", "deadline"}
  PROVE  PaceInv'
<1> USE DEF PaceInv
<1>1. Bucket \in Buckets
  BY BucketType
<1>2. limits' \in [Buckets -> Rates] /\ limits'[Bucket] = r
      /\ \A b \in Buckets \ {Bucket} : limits'[b] = limits[b]
  BY <1>1 DEF SearchTypeOK
<1>3. NoReply \in Replies /\ NoReply.kind = "none"
  BY Constants DEF NoReply, Replies, Ins
<1>4. SearchTypeOK'
  BY <1>2, <1>3 DEF SearchTypeOK
<1>5. WindowInv' /\ ReplyInv' /\ CallInv'
  BY <1>3 DEF WindowInv, ReplyInv, CallInv
<1>6. ASSUME NEW b \in Buckets, ~shared[b] PROVE Safe(limits'[b], b)
  <2>1. CASE b = Bucket
    BY <1>2, <1>6, <2>1
  <2>2. CASE b # Bucket
    BY <1>2, <1>6, <2>2 DEF MemoryInv
  <2> QED
    BY <2>1, <2>2
<1>7. MemoryInv'
  BY <1>6 DEF MemoryInv, Safe, Enough
<1> QED
  BY <1>4, <1>5, <1>7

LEMMA BreakKeeps ==
  ASSUME PaceInv, Break
  PROVE  PaceInv'
<1>1. SearchTypeOK /\ Advance /\ failed' = TRUE /\ answered' = answered
  BY DEF PaceInv, Break, TallyFailure
<1>2. /\ call' \in Calls /\ k' \in 1..Len(Plan) /\ call'.at \in {"next", "end"}
      /\ result' \in {"none", "complete", "partial", "limited", "deadline"}
  BY <1>1, AdvanceEffect DEF SearchTypeOK
<1>3. Zero \in Rates /\ Safe(Zero, Bucket)
  BY Constants DEF Zero, Rates, Ins, Safe
<1>4. /\ call.at = "sent" /\ UNCHANGED <<left, ends, shared, budget>> /\ reply' = NoReply
      /\ limits' = [limits EXCEPT ![Bucket] = Zero]
  BY DEF Break, server
<1>5. answered' \in Nat /\ failed' \in BOOLEAN
  BY <1>1 DEF SearchTypeOK
<1> QED
  BY <1>2, <1>3, <1>4, <1>5, CallEndKeeps

LEMMA ReceiveKeeps ==
  ASSUME PaceInv, Receive
  PROVE  PaceInv'
<1> USE DEF PaceInv
<1>1. /\ call.at = "sent" /\ reply.kind # "none" /\ reply' = NoReply
      /\ UNCHANGED <<left, ends, shared, budget>> /\ reply \in Replies
      /\ ~shared[Bucket] => Safe(reply, Bucket)
  BY DEF Receive, server, SearchTypeOK, CallInv
<1>2. Bucket \in Buckets
  BY BucketType
<1>3. CASE Retried
  <2>1. Pace(reply, TRUE) /\ UNCHANGED <<limits, k, failed, answered>> /\ reply.left = 0
    BY <1>3 DEF Receive, Retried, ReplyInv
  <2>2. /\ call' \in Calls
        /\ \/ call'.at = "end" /\ result' = "limited"
           \/ call'.at = "sent" /\ WaitFor(reply) <= 0 /\ result' = result
           \/ call'.at = "wait" /\ call'.timer = WaitFor(reply) /\ result' = result
    BY <1>1, <2>1, PaceEffect
  <2>3. ~shared[Bucket] => /\ Enough(Bucket, WaitFor(reply))
                           /\ WaitFor(reply) <= 0 => left[Bucket] > 0
    BY <1>1, <1>2, <2>1, WaitIsEnough
  <2>4. NoReply \in Replies /\ NoReply.kind = "none"
    BY Constants DEF NoReply, Replies, Ins
  <2>5. SearchTypeOK'
    BY <1>1, <2>1, <2>2, <2>4 DEF SearchTypeOK
  <2>6. WindowInv' /\ ReplyInv'
    BY <1>1, <2>4 DEF WindowInv, ReplyInv
  <2>7. Bucket' = Bucket
    BY <2>1 DEF Bucket
  <2>8. MemoryInv'
    BY <1>1, <2>1, <2>2, <2>7 DEF MemoryInv, Safe, Enough
  <2>9. CallInv'
    BY <1>1, <2>2, <2>3, <2>4, <2>7 DEF CallInv, Enough
  <2> QED
    BY <2>5, <2>6, <2>8, <2>9
<1>4. CASE ~Retried
  <2> DEFINE r == [left |-> reply.left, in |-> reply.in]
  <2>1. r \in Rates /\ (~shared[Bucket] => Safe(r, Bucket))
    BY <1>1 DEF Rates, Replies, Safe
  <2>2. limits' = [limits EXCEPT ![Bucket] = r]
    BY <1>4 DEF Receive
  <2>3. /\ call' \in Calls /\ call'.at \in {"next", "end"} /\ k' \in 1..Len(Plan)
        /\ answered' \in Nat /\ failed' \in BOOLEAN
        /\ result' \in {"none", "complete", "partial", "limited", "deadline"}
    <3>1. CASE reply.kind = "refused"
      <4>1. Goes("end", 0, FALSE) /\ result' = "limited" /\ UNCHANGED <<k, failed, answered>>
        BY <1>4, <3>1 DEF Receive, Finishes
      <4> QED
        BY <4>1, GoesType DEF SearchTypeOK
    <3>2. CASE reply.kind = "error"
      <4>1. Advance /\ failed' = TRUE /\ answered' = answered
        BY <1>4, <3>2 DEF Receive, TallyFailure
      <4> QED
        BY <4>1, AdvanceEffect DEF SearchTypeOK
    <3>3. CASE reply.kind = "ok"
      <4>1. Advance /\ failed' = failed /\ answered' = answered + 1
        BY <1>4, <3>3 DEF Receive
      <4> QED
        BY <4>1, AdvanceEffect DEF SearchTypeOK
    <3> QED
      BY <1>1, <3>1, <3>2, <3>3 DEF Replies
  <2> HIDE DEF r
  <2> QED
    BY <1>1, <2>1, <2>2, <2>3, CallEndKeeps
<1> QED
  BY <1>3, <1>4

(* GitHub's answer announces at least as much as the window has left. *)
LEMMA ServeKeeps ==
  ASSUME PaceInv, Serve
  PROVE  PaceInv'
<1> USE DEF PaceInv
<1>1. /\ call.at = "sent" /\ reply.kind = "none"
      /\ UNCHANGED <<limits, k, failed, answered, result, call, budget>>
      /\ shared' = [shared EXCEPT ![Bucket] = FALSE]
  BY DEF Serve, scan
<1>2. Bucket \in Buckets /\ Bucket' = Bucket
  BY <1>1, BucketType DEF Bucket
<1>3. /\ left[Bucket] \in 0..Limit /\ ends[Bucket] \in 0..Window
      /\ ends[Bucket] = 0 => left[Bucket] = Limit
  BY <1>2 DEF SearchTypeOK, WindowInv
<1>4. /\ left' \in [Buckets -> 0..Limit] /\ ends' \in [Buckets -> 0..Window]
      /\ \A b \in Buckets \ {Bucket} : left'[b] = left[b] /\ ends'[b] = ends[b]
      /\ ends'[Bucket] > 0
      /\ left[Bucket] = 0 => left'[Bucket] = 0 /\ ends'[Bucket] = ends[Bucket]
  <2>1. CASE left[Bucket] > 0
    <3>1. Use(Bucket)
      BY <2>1 DEF Serve
    <3> QED
      BY <1>2, <1>3, <2>1, <3>1, Constants DEF Use, SearchTypeOK
  <2>2. CASE left[Bucket] = 0
    BY <1>2, <1>3, <2>2, Constants DEF Serve, SearchTypeOK
  <2> QED
    BY <1>3, <2>1, <2>2
<1>5. reply' \in Replies /\ ReplyInv' /\ Safe(reply, Bucket)'
  <2>1. left'[Bucket] \in 0..Limit /\ ends'[Bucket] \in 0..Window
    BY <1>2, <1>4
  <2>2. ASSUME NEW early \in 0..Skew
        PROVE  /\ ends'[Bucket] - early \in (-Margin)..Window
               /\ ends'[Bucket] <= ends'[Bucket] - early + Margin
    BY <2>1, <2>2, Constants
  <2>3. CASE \E early \in 0..Skew, kind \in {"ok", "error"} :
               left[Bucket] > 0 /\ Answer(kind, left'[Bucket], ends'[Bucket] - early)
    <3>1. PICK early \in 0..Skew, kind \in {"ok", "error"} :
            reply' = [kind |-> kind, left |-> left'[Bucket], in |-> ends'[Bucket] - early]
      BY <2>3 DEF Answer
    <3> QED
      BY <1>1, <1>2, <2>1, <2>2, <3>1 DEF Replies, Ins, ReplyInv, Safe, Enough
  <2>4. CASE \E early \in 0..Skew :
               left[Bucket] = 0 /\ Answer("refused", 0, ends[Bucket] - early)
    <3>1. PICK early \in 0..Skew :
            /\ reply' = [kind |-> "refused", left |-> 0, in |-> ends[Bucket] - early]
            /\ left[Bucket] = 0
      BY <2>4 DEF Answer
    <3>2. ends'[Bucket] = ends[Bucket]
      BY <1>4, <3>1
    <3>3. ends[Bucket] - early \in Ins /\ ends'[Bucket] <= ends[Bucket] - early + Margin
      BY <2>2, <3>2 DEF Ins
    <3> QED
      BY <1>1, <1>2, <3>1, <3>3, Constants DEF Replies, ReplyInv, Safe, Enough
  <2>5. CASE \E kind \in {"ok", "error", "refused"} : Answer(kind, 0, Unset)
    <3>1. PICK kind \in {"ok", "error", "refused"} : reply' = [kind |-> kind, left |-> 0, in |-> Unset]
      BY <2>5 DEF Answer
    <3> QED
      BY <1>1, <3>1, Constants DEF Replies, Ins, ReplyInv, Safe
  <2> QED
    BY <2>3, <2>4, <2>5 DEF Serve
<1>6. SearchTypeOK'
  BY <1>1, <1>2, <1>4, <1>5 DEF SearchTypeOK
<1>7. WindowInv'
  BY <1>2, <1>4 DEF WindowInv
<1>8. shared' \in [Buckets -> BOOLEAN] /\ \A b \in Buckets \ {Bucket} : shared'[b] = shared[b]
  BY <1>1, <1>2 DEF SearchTypeOK
<1>9. MemoryInv'
  BY <1>1, <1>2, <1>4, <1>8 DEF MemoryInv, Safe, Enough
<1>10. reply'.kind # "none"
  BY DEF Serve, Answer
<1>11. CallInv'
  BY <1>1, <1>2, <1>5, <1>10 DEF CallInv
<1> QED
  BY <1>5, <1>6, <1>7, <1>9, <1>11

LEMMA ShareKeeps ==
  ASSUME PaceInv, NEW b \in Buckets, Share(b)
  PROVE  PaceInv'
<1> USE DEF PaceInv
<1>1. /\ UNCHANGED <<limits, k, failed, answered, result, call, reply, budget>>
      /\ shared' = [shared EXCEPT ![b] = TRUE] /\ left[b] > 0 /\ Use(b)
  BY DEF Share, scan
<1>2. Bucket \in Buckets /\ Bucket' = Bucket
  BY <1>1, BucketType DEF Bucket
<1>3. /\ shared' \in [Buckets -> BOOLEAN] /\ shared'[b]
      /\ \A c \in Buckets \ {b} : shared'[c] = shared[c]
  BY <1>1 DEF SearchTypeOK
<1>4. /\ left' \in [Buckets -> 0..Limit] /\ ends' \in [Buckets -> 0..Window]
      /\ \A c \in Buckets \ {b} : left'[c] = left[c] /\ ends'[c] = ends[c]
      /\ ends'[b] > 0
  BY <1>1, Constants DEF Use, SearchTypeOK
<1>5. SearchTypeOK'
  BY <1>1, <1>3, <1>4 DEF SearchTypeOK
<1>6. WindowInv' /\ ReplyInv'
  BY <1>1, <1>4 DEF WindowInv, ReplyInv
<1>7. MemoryInv'
  BY <1>1, <1>2, <1>3, <1>4 DEF MemoryInv, Safe, Enough
<1>8. CallInv'
  BY <1>1, <1>2, <1>3, <1>4 DEF CallInv, Safe, Enough
<1> QED
  BY <1>5, <1>6, <1>7, <1>8

(* Enough and Safe after the step, of a wait and a rate known before it. *)
EnoughNext(b, t) == left'[b] > 0 \/ ends'[b] <= t
SafeNext(r, b) == /\ r.left > 0 => left'[b] > 0
                  /\ r.left = 0 /\ r.in # Unset => EnoughNext(b, r.in + Margin)

(* A tick shortens a wait no more than the window. *)
LEMMA TickEnough ==
  ASSUME SearchTypeOK, WindowInv, SearchTick, NEW b \in Buckets, NEW t \in Int
  PROVE  /\ left[b] > 0 => left'[b] > 0
         /\ Enough(b, t) => EnoughNext(b, t - 1)
         /\ t <= 0 /\ Enough(b, t) => left'[b] > 0
<1>1. /\ left[b] \in 0..Limit /\ ends[b] \in 0..Window
      /\ ends[b] = 0 => left[b] = Limit
  BY DEF SearchTypeOK, WindowInv
<1>2. /\ ends'[b] = IF ends[b] = 0 THEN 0 ELSE ends[b] - 1
      /\ left'[b] = IF ends[b] <= 1 THEN Limit ELSE left[b]
  BY DEF SearchTick
<1> QED
  BY <1>1, <1>2, Constants DEF Enough, EnoughNext

LEMMA TickSafe ==
  ASSUME SearchTypeOK, WindowInv, SearchTick, NEW b \in Buckets, NEW r, r \in Rates \/ r \in Replies, Safe(r, b)
  PROVE  SafeNext(Later(r), b)
<1>1. PICK s : s = Later(r)
  OBVIOUS
<1>2. /\ s.left = r.left
      /\ r.in # Unset => s.in # Unset /\ (s.in = r.in - 1 \/ (r.in = -Margin /\ s.in = r.in))
      /\ r.in = Unset => s.in = Unset
      /\ r.in \in Ins
  BY <1>1, LaterType
<1>3. s.left > 0 => left'[b] > 0
  BY <1>2, TickEnough DEF Safe
<1>4. ASSUME s.left = 0, s.in # Unset PROVE EnoughNext(b, s.in + Margin)
  <2>1. r.in \in Int /\ r.in # Unset /\ r.in + Margin \in Int /\ Enough(b, r.in + Margin)
    BY <1>2, <1>4, Constants DEF Safe, Ins
  <2>2. /\ EnoughNext(b, (r.in + Margin) - 1)
        /\ r.in + Margin <= 0 => left'[b] > 0
    BY <2>1, TickEnough
  <2>3. CASE s.in = r.in - 1
    <3>1. s.in + Margin = (r.in + Margin) - 1
      BY <2>1, <2>3, Constants
    <3> QED
      BY <2>2, <3>1
  <2>4. CASE r.in = -Margin /\ s.in = r.in
    BY <2>2, <2>4, Constants DEF EnoughNext
  <2> QED
    BY <1>2, <2>1, <2>3, <2>4
<1> QED
  BY <1>1, <1>3, <1>4 DEF SafeNext

LEMMA TickKeeps ==
  ASSUME PaceInv, SearchTick
  PROVE  PaceInv'
<1> USE DEF PaceInv
<1>1. /\ UNCHANGED <<shared, k, failed, answered, result>>
      /\ call.at \in {"wait", "sent"} /\ call.timer \in Nat \ {0} /\ budget \in Nat \ {0}
      /\ budget' = budget - 1
      /\ limits' = [b \in Buckets |-> Later(limits[b])] /\ reply' = Later(reply)
  BY Constants DEF SearchTick, Due, scan, SearchTypeOK, Calls
<1>2. Bucket \in Buckets /\ Bucket' = Bucket
  BY <1>1, BucketType DEF Bucket
<1>3. call' \in Calls /\ call'.at = call.at /\ call'.timer = call.timer - 1
  <2>1. call' = [call EXCEPT !.timer = @ - 1] /\ call \in Calls
    BY DEF SearchTick, SearchTypeOK
  <2>2. PICK t \in Nat : t = call.timer - 1
    BY <1>1
  <2>3. call' = [call EXCEPT !.timer = t]
    BY <2>1, <2>2
  <2> QED
    BY <2>1, <2>2, <2>3 DEF Calls
<1>4. reply \in Replies /\ reply' \in Replies /\ reply'.kind = reply.kind /\ reply'.left = reply.left
  BY <1>1, LaterType DEF SearchTypeOK
<1>5. limits' \in [Buckets -> Rates]
  BY <1>1, LaterType DEF SearchTypeOK
<1>6. /\ left' \in [Buckets -> 0..Limit] /\ ends' \in [Buckets -> 0..Window]
      /\ WindowInv'
  <2>1. /\ ends' = [b \in Buckets |-> IF ends[b] = 0 THEN 0 ELSE ends[b] - 1]
        /\ left' = [b \in Buckets |-> IF ends[b] <= 1 THEN Limit ELSE left[b]]
    BY DEF SearchTick
  <2>2. ASSUME NEW b \in Buckets
        PROVE  /\ ends'[b] \in 0..Window /\ left'[b] \in 0..Limit
               /\ ends'[b] = 0 => left'[b] = Limit
    BY <2>1, <2>2, Constants DEF SearchTypeOK
  <2> QED
    BY <2>1, <2>2 DEF WindowInv
<1>7. SearchTypeOK'
  <2>1. budget' \in 0..RunDeadline
    BY <1>1, Constants DEF SearchTypeOK
  <2> QED
    BY <1>1, <1>3, <1>4, <1>5, <1>6, <2>1 DEF SearchTypeOK
<1>8. ReplyInv'
  BY <1>3, <1>4 DEF ReplyInv
<1>9. MemoryInv'
  <2>1. ASSUME NEW b \in Buckets, ~shared[b], b # Bucket PROVE Safe(limits[b], b)'
    <3>1. Safe(limits[b], b) /\ limits[b] \in Rates
      BY <1>1, <2>1 DEF MemoryInv, SearchTypeOK
    <3>2. SafeNext(Later(limits[b]), b)
      BY <3>1, TickSafe
    <3>3. limits'[b] = Later(limits[b])
      BY <1>1
    <3> QED
      BY <3>2, <3>3 DEF Safe, Enough, SafeNext, EnoughNext
  <2> QED
    BY <1>1, <1>2, <1>3, <2>1 DEF MemoryInv
<1>10. CallInv'
  <2>1. CASE call.at = "wait"
    <3>1. ~shared[Bucket] => EnoughNext(Bucket, call.timer - 1)
      BY <1>1, <1>2, <2>1, TickEnough DEF CallInv
    <3> QED
      BY <1>1, <1>2, <1>3, <2>1, <3>1 DEF CallInv, Enough, EnoughNext
  <2>2. CASE call.at = "sent" /\ reply.kind = "none"
    BY <1>1, <1>2, <1>3, <1>4, <2>2, TickEnough DEF CallInv
  <2>3. CASE call.at = "sent" /\ reply.kind # "none" /\ ~shared[Bucket]
    <3>1. SafeNext(Later(reply), Bucket)
      BY <1>2, <1>4, <2>3, TickSafe DEF CallInv
    <3>2. Safe(reply, Bucket)'
      BY <1>1, <1>2, <3>1 DEF Safe, Enough, SafeNext, EnoughNext
    <3> QED
      BY <1>1, <1>3, <1>4, <2>3, <3>2 DEF CallInv
  <2>4. CASE shared[Bucket]
    BY <1>1, <1>2, <2>4 DEF CallInv
  <2> QED
    BY <1>1, <2>1, <2>2, <2>3, <2>4
<1> QED
  BY <1>6, <1>7, <1>8, <1>9, <1>10

LEMMA StepKeeps == PaceInv /\ [SearchNext]_searchVars => PaceInv'
<1> SUFFICES ASSUME PaceInv, [SearchNext]_searchVars PROVE PaceInv'
  OBVIOUS
<1>1. CASE UNCHANGED searchVars
  BY <1>1 DEF searchVars, server, scan, PaceInv, SearchTypeOK, WindowInv, MemoryInv, CallInv, ReplyInv,
              Bucket, Safe, Enough
<1>2. CASE Ended
  BY <1>2 DEF Ended, searchVars, server, scan, PaceInv, SearchTypeOK, WindowInv, MemoryInv, CallInv, ReplyInv,
              Bucket, Safe, Enough
<1> QED
  BY <1>1, <1>2, SearchKeeps, WaitEndKeeps, ReceiveKeeps, BreakKeeps, ServeKeeps, ShareKeeps,
     TickKeeps DEF SearchNext

LEMMA PaceAlways == SearchSpec => []PaceInv
  BY PaceInit, StepKeeps, PTL DEF SearchSpec

-----------------------------------------------------------------------------
(* The summary, action by action. *)
LEMMA SummaryInit == SearchInit => SummaryInv
  BY DEF SearchInit, SummaryInv, HonestResult

LEMMA SummaryAdvance ==
  ASSUME SearchTypeOK, SummaryInv, call.at = "sent", Advance, failed' \in BOOLEAN,
         ~failed' => ~failed /\ answered' = answered + 1
  PROVE  SummaryInv'
<1>1. /\ result = "none" /\ (~failed => answered = k - 1) /\ k \in 1..Len(Plan) /\ answered \in Nat
      /\ Len(Plan) \in Nat
  BY PlanType DEF SummaryInv, SearchTypeOK
<1>2. CASE call'.at = "next" /\ k' = k + 1 /\ result' = result
  BY <1>1, <1>2 DEF SummaryInv, HonestResult
<1>3. CASE call'.at = "end" /\ k = Len(Plan) /\ result' = IF failed' THEN "partial" ELSE "complete"
  BY <1>1, <1>3 DEF SummaryInv, HonestResult
<1> QED
  BY <1>2, <1>3, AdvanceEffect

(* A step that ends the scan early, or stays within the call. *)
LEMMA SummaryStays ==
  ASSUME SummaryInv, call.at # "end", UNCHANGED <<k, failed, answered>>,
         result' = result \/ (call'.at = "end" /\ result' \in {"limited", "deadline"})
  PROVE  SummaryInv'
  BY DEF SummaryInv, HonestResult

LEMMA SummaryKeeps == PaceInv /\ SummaryInv /\ [SearchNext]_searchVars => SummaryInv'
<1> SUFFICES ASSUME PaceInv, SummaryInv, [SearchNext]_searchVars PROVE SummaryInv'
  OBVIOUS
<1>1. SearchTypeOK
  BY DEF PaceInv
<1>2. CASE UNCHANGED searchVars \/ Ended
  BY <1>2 DEF Ended, searchVars, server, scan, SummaryInv, HonestResult
<1>3. CASE Search
  <2>1. CASE Finishes("deadline")
    BY <1>3, <2>1, SummaryStays DEF Search, Finishes, Goes
  <2>2. CASE limits[Bucket].left = 0 /\ Pace(limits[Bucket], FALSE)
    <3>1. limits[Bucket] \in Rates
      BY <1>1, BucketType DEF SearchTypeOK
    <3>2. result' = result \/ (call'.at = "end" /\ result' = "limited")
      BY <1>1, <2>2, <3>1, PaceEffect
    <3> QED
      BY <1>3, <3>2, SummaryStays DEF Search
  <2>3. CASE result' = result
    BY <1>3, <2>3, SummaryStays DEF Search
  <2> QED
    BY <1>3, <2>1, <2>2, <2>3 DEF Search
<1>4. CASE Wake \/ Cancel
  BY <1>4, SummaryStays DEF Wake, Cancel, Finishes, Goes, scan
<1>5. CASE Receive
  <2>1. call.at = "sent" /\ reply \in Replies
    BY <1>1, <1>5 DEF Receive, SearchTypeOK
  <2>2. CASE Retried
    <3>1. Pace(reply, TRUE) /\ UNCHANGED <<k, failed, answered>>
      BY <1>5, <2>2 DEF Receive
    <3>2. result' = result \/ (call'.at = "end" /\ result' = "limited")
      BY <1>1, <2>1, <3>1, PaceEffect
    <3> QED
      BY <2>1, <3>1, <3>2, SummaryStays
  <2>3. CASE ~Retried /\ reply.kind = "refused"
    <3>1. Finishes("limited") /\ UNCHANGED <<k, failed, answered>>
      BY <1>5, <2>3 DEF Receive
    <3> QED
      BY <2>1, <3>1, SummaryStays DEF Finishes, Goes
  <2>4. CASE ~Retried /\ reply.kind = "error"
    <3>1. failed' = TRUE /\ Advance
      BY <1>5, <2>4 DEF Receive, TallyFailure
    <3> QED
      BY <1>1, <2>1, <3>1, SummaryAdvance
  <2>5. CASE ~Retried /\ reply.kind = "ok"
    <3>1. failed' = failed /\ answered' = answered + 1 /\ Advance
      BY <1>5, <2>5 DEF Receive
    <3> QED
      BY <1>1, <2>1, <3>1, SummaryAdvance DEF SearchTypeOK
  <2>6. reply.kind # "none"
    BY <1>5 DEF Receive
  <2> QED
    BY <2>1, <2>2, <2>3, <2>4, <2>5, <2>6 DEF Replies
<1>6. CASE Break
  <2>1. failed' = TRUE /\ Advance /\ call.at = "sent"
    BY <1>6 DEF Break, TallyFailure
  <2> QED
    BY <1>1, <2>1, SummaryAdvance
<1>7. CASE Serve \/ (\E b \in Buckets : Share(b)) \/ SearchTick
  <2>1. call.at # "end" /\ UNCHANGED <<k, failed, answered, result>>
    BY <1>7 DEF Serve, Share, SearchTick, Due, scan
  <2> QED
    BY <2>1, SummaryStays
<1> QED
  BY <1>2, <1>3, <1>4, <1>5, <1>6, <1>7 DEF SearchNext

-----------------------------------------------------------------------------
(* Every state of the scan, the client and GitHub's windows has its type,
   whatever answers come and however long they take. *)
THEOREM SearchTypesAlways == SearchSpec => []SearchTypeOK
<1>1. PaceInv => SearchTypeOK
  BY DEF PaceInv
<1> QED
  BY <1>1, PaceAlways, PTL

(* A run's summary says "complete" only when each search of the plan was answered,
   however failures and rate limits fall (scanner.go, searchAndRecord). *)
THEOREM SummaryIsHonest == SearchSpec => []HonestResult
<1>1. SummaryInv => HonestResult
  BY DEF SummaryInv
<1> QED
  BY <1>1, PaceAlways, SummaryInit, SummaryKeeps, PTL DEF SearchSpec

(* The wait before a search, the second's margin included, is long enough unless
   somebody else uses the token: for every limit, window and clock skew within the
   margin (github.go, waitForReset). *)
THEOREM PacingSuffices == SearchSpec => RefusedOnlyIfShared
<1>1. ASSUME PaceInv, [SearchNext]_searchVars, reply.kind = "none", reply'.kind = "refused", reply'.in # Unset
      PROVE  shared[Bucket]
  <2>1. Serve \/ reply' = reply \/ reply' = NoReply \/ reply' = Later(reply)
    BY <1>1 DEF SearchNext, searchVars, scan, server, Search, Wake, Cancel, Receive, Break, Share, SearchTick, Ended
  <2>2. Serve
    <3>1. reply \in Replies
      BY <1>1 DEF PaceInv, SearchTypeOK
    <3>2. Later(reply).kind = reply.kind
      BY <3>1, LaterType
    <3> QED
      BY <1>1, <2>1, <3>2 DEF NoReply
  <2>3. left[Bucket] = 0
    BY <1>1, <2>2 DEF Serve, Answer
  <2> QED
    BY <1>1, <2>2, <2>3 DEF PaceInv, CallInv, Serve
<1>2. PaceInv /\ [SearchNext]_searchVars =>
        [reply.kind = "none" /\ reply'.kind = "refused" /\ reply'.in # Unset => shared[Bucket]]_searchVars
  BY <1>1
<1> QED
  BY <1>2, PaceAlways, PTL DEF SearchSpec, RefusedOnlyIfShared
=============================================================================
