---------------------------- MODULE RemuxProofs ----------------------------
(***************************************************************************)
(* Proofs about Remux, for every number of streams, signatures, jobs,      *)
(* callers and slots.  SlotInv (types and slot accounting) is inductive by *)
(* itself; OwnerInv, who owns what, is inductive relative to it.           *)
(***************************************************************************)
EXTENDS Remux, FiniteSetTheorems, TLAPS

-----------------------------------------------------------------------------
(* The constructors of phases and call records are well typed. *)
LEMMA CallTypes ==
  /\ Idle \in CallRecords
  /\ \A st \in Streams, g \in Sigs, j \in Jobs :
        InStart(st, g, j) \in CallRecords
  /\ \A st \in Streams \cup {None}, g \in Sigs \cup {None}, j \in Jobs \cup {None} :
        Waiting(st, g, j) \in CallRecords
  /\ \A r \in CallRecords, j \in Jobs : [r EXCEPT !.lost = j] \in CallRecords
  /\ \A r \in CallRecords : /\ r.st \in Streams \cup {None}
                            /\ r.g \in Sigs \cup {None}
                            /\ r.job \in Jobs \cup {None}
                            /\ r.lost \in Jobs \cup {None}
BY DEF Idle, InStart, Waiting, CallRecords

LEMMA PhaseTypes ==
  {"free", "failed", "admitted", "opening", "fetched", "live", "exited",
   "released", "done"} \subseteq Phases
BY DEF Phases, Opening, Running, Finished

(* The jobs that hold a slot are finitely many, and taking or returning a
   slot changes their number by one. *)
LEMMA HoldersFinite == IsFiniteSet(Holders) /\ Cardinality(Holders) \in Nat
BY JobsAssumption, FS_Subset, FS_CardinalityType DEF Holders

LEMMA HoldersGrow ==
  ASSUME TypeOK, NEW j \in Jobs, phase[j] = "free",
         phase' = [phase EXCEPT ![j] = "admitted"]
  PROVE  Cardinality(Holders') = Cardinality(Holders) + 1
<1>1. Holders' = Holders \cup {j} /\ j \notin Holders
  BY DEF TypeOK, Holders, Opening, Running, Phases, Finished
<1>2. QED
  BY <1>1, HoldersFinite, FS_AddElement

LEMMA HoldersShrink ==
  ASSUME TypeOK, NEW j \in Jobs, phase[j] \in {"failed", "exited"},
         NEW p \in {"free", "released"}, phase' = [phase EXCEPT ![j] = p]
  PROVE  /\ Cardinality(Holders') = Cardinality(Holders) - 1
         /\ Cardinality(Holders) > 0
<1>1. Holders' = Holders \ {j} /\ j \in Holders
  BY DEF TypeOK, Holders, Opening, Running, Phases, Finished
<1>2. Cardinality(Holders') = Cardinality(Holders) - 1
  BY <1>1, HoldersFinite, FS_RemoveElement
<1>3. Cardinality(Holders) # 0
  BY <1>1, HoldersFinite, FS_EmptySet
<1>4. QED
  BY <1>2, <1>3, HoldersFinite

-----------------------------------------------------------------------------
(* Types and slot accounting (remux.go:54-61, 204-209, 236, 318). *)
SlotInv == TypeOK /\ SlotAccounting

LEMMA SlotInit == Init => SlotInv
<1> SUFFICES ASSUME Init PROVE SlotInv
  OBVIOUS
<1>1. TypeOK
  BY CallTypes, PhaseTypes DEF Init, TypeOK
<1>2. Holders = {}
  BY DEF Init, Holders, Opening, Running
<1>3. used = Cardinality(Holders) /\ used <= Slots
  BY <1>2, FS_EmptySet, SlotsAssumption DEF Init
<1>4. QED
  BY <1>1, <1>3 DEF SlotInv, SlotAccounting

(* A step that leaves the semaphore alone and moves no job in or out of the
   holding phases keeps the accounting. *)
LEMMA SlotKept ==
  ASSUME SlotAccounting, used' = used, Holders' = Holders
  PROVE  SlotAccounting'
BY DEF SlotAccounting

LEMMA SlotCallerStep ==
  ASSUME SlotInv, NEW c \in Callers, CallerStep(c)
  PROVE  SlotInv'
<1> USE CallTypes, PhaseTypes DEF SlotInv
<1>1. ASSUME NEW st \in Streams, NEW g \in Sigs, StartReuse(c, st, g)
      PROVE  SlotInv'
  <2>1. TypeOK'
    BY <1>1 DEF TypeOK, StartReuse, Reusable, Registered, jobVars, resVars, regVars
  <2>2. QED
    BY <1>1, <2>1, SlotKept DEF StartReuse, jobVars, Holders
<1>2. ASSUME NEW st \in Streams, NEW g \in Sigs, StartRefused(c, st, g)
      PROVE  SlotInv'
  <2>1. TypeOK'
    BY <1>2 DEF TypeOK, StartRefused, StopLocked, Registered, jobVars, resVars, regVars
  <2>2. QED
    BY <1>2, <2>1, SlotKept DEF StartRefused, jobVars, Holders
<1>3. ASSUME NEW st \in Streams, NEW g \in Sigs, NEW j \in Jobs, StartAdmit(c, st, g, j)
      PROVE  SlotInv'
  <2>1. TypeOK'
    BY <1>3 DEF TypeOK, StartAdmit, StopLocked, Registered
  <2>2. Cardinality(Holders') = Cardinality(Holders) + 1
    BY <1>3, HoldersGrow DEF StartAdmit
  <2>3. used + 1 <= Slots
    BY <1>3, SlotsAssumption DEF StartAdmit, SlotAccounting, TypeOK
  <2>4. QED
    BY <1>3, <2>1, <2>2, <2>3 DEF StartAdmit, SlotAccounting
<1>4. ASSUME NEW j \in Jobs, StartLost(c, j)
      PROVE  SlotInv'
  <2>1. sessions[stream[j]] \in Jobs \cup {None}
    BY <1>4 DEF TypeOK, StartLost
  <2>2. call[c] \in CallRecords /\ call'[c] \in CallRecords
    BY <1>4, <2>1 DEF TypeOK, StartLost
  <2>3. TypeOK'
    BY <1>4, <2>1, <2>2 DEF TypeOK, StartLost, jobVars, resVars, regVars
  <2>4. Holders' = Holders
    BY <1>4 DEF TypeOK, StartLost, Holders, Opening, Running
  <2>5. QED
    BY <1>4, <2>3, <2>4, SlotKept DEF StartLost
<1>5. ASSUME NEW j \in Jobs, ForgetPending(c, j)
      PROVE  SlotInv'
  <2>1. call[c] \in CallRecords
    BY DEF TypeOK
  <2>2. TypeOK'
    BY <1>5, <2>1 DEF TypeOK, ForgetPending, resVars, regVars
  <2>3. QED
    BY <1>5, <2>2, SlotKept DEF ForgetPending, Holders
<1>6. ASSUME NEW j \in Jobs, Abandon(c, j)
      PROVE  SlotInv'
  <2>1. call[c] \in CallRecords
    BY DEF TypeOK
  <2>2. /\ Cardinality(Holders') = Cardinality(Holders) - 1
        /\ Cardinality(Holders) > 0
    BY <1>6, HoldersShrink DEF Abandon
  <2>3. used' \in Nat /\ used' = Cardinality(Holders') /\ used' <= Slots
    BY <1>6, <2>2, HoldersFinite, SlotsAssumption DEF Abandon, SlotAccounting
  <2>4. TypeOK'
    BY <1>6, <2>1, <2>3 DEF TypeOK, Abandon, resVars, regVars
  <2>5. QED
    BY <2>3, <2>4 DEF SlotAccounting
<1>7. CASE WaitServed(c) \/ WaitPoll(c) \/ WaitGivesUp(c)
  <2>1. TypeOK'
    BY <1>7 DEF TypeOK, WaitServed, WaitPoll, WaitGivesUp, jobVars, resVars, regVars
  <2>2. QED
    BY <1>7, <2>1, SlotKept DEF WaitServed, WaitPoll, WaitGivesUp, jobVars, Holders
<1>8. QED
  BY <1>1, <1>2, <1>3, <1>4, <1>5, <1>6, <1>7 DEF CallerStep

LEMMA SlotJobStep ==
  ASSUME SlotInv, NEW j \in Jobs, JobStep(j)
  PROVE  SlotInv'
<1> USE CallTypes, PhaseTypes DEF SlotInv
<1>1. CASE MakeDir(j) \/ OpenSource(j) \/ StartFails(j)
  <2>1. PICK p \in {"opening", "fetched", "failed"} :
           /\ phase[j] \in Opening
           /\ phase' = [phase EXCEPT ![j] = p]
           /\ UNCHANGED <<stream, sig, used>>
    BY <1>1 DEF MakeDir, OpenSource, StartFails, Opening
  <2>2. /\ phase' \in [Jobs -> Phases]
        /\ \A k \in Jobs : phase'[k] # "free" => stream'[k] \in Streams /\ sig'[k] \in Sigs
    BY <2>1 DEF TypeOK, Opening
  <2>3. TypeOK'
    BY <1>1, <2>2 DEF TypeOK, MakeDir, OpenSource, StartFails, resVars, regVars
  <2>4. Holders' = Holders
    BY <2>1 DEF TypeOK, Holders, Opening
  <2>5. QED
    BY <2>1, <2>3, <2>4, SlotKept
<1>2. CASE StartProcess(j) \/ Exit(j) \/ SignalDone(j)
  <2>1. PICK p \in {"live", "exited", "done"} :
           /\ \/ phase[j] \in Opening \cup Running /\ p \in Running
              \/ phase[j] = "released" /\ p = "done"
           /\ phase' = [phase EXCEPT ![j] = p]
           /\ UNCHANGED <<stream, sig, used>>
    BY <1>2 DEF StartProcess, Exit, SignalDone, Opening, Running
  <2>2. /\ phase' \in [Jobs -> Phases]
        /\ \A k \in Jobs : phase'[k] # "free" => stream'[k] \in Streams /\ sig'[k] \in Sigs
    BY <2>1 DEF TypeOK, Opening, Running
  <2>3. sessions' \in [Streams -> Jobs \cup {None}]
    BY <1>2 DEF TypeOK, StartProcess, Exit, SignalDone, regVars
  <2>4. TypeOK'
    BY <1>2, <2>2, <2>3 DEF TypeOK, StartProcess, Exit, SignalDone, resVars, regVars
  <2>5. Holders' = Holders
    BY <2>1 DEF TypeOK, Holders, Opening, Running
  <2>6. QED
    BY <2>1, <2>4, <2>5, SlotKept
<1>3. CASE Use(j) \/ Age(j) \/ WritePlaylist(j) \/ CloseBody(j) \/ RemoveDir(j)
  <2>1. TypeOK'
    BY <1>3 DEF TypeOK, Use, Age, WritePlaylist, CloseBody, RemoveDir,
                jobVars, resVars, regVars
  <2>2. QED
    BY <1>3, <2>1, SlotKept
    DEF Use, Age, WritePlaylist, CloseBody, RemoveDir, jobVars, Holders
<1>4. CASE ExistingDrops(j)
  <2>1. TypeOK'
    BY <1>4 DEF TypeOK, ExistingDrops, StopLocked, jobVars
  <2>2. QED
    BY <1>4, <2>1, SlotKept DEF ExistingDrops, jobVars, Holders
<1>5. CASE Release(j)
  <2>1. /\ Cardinality(Holders') = Cardinality(Holders) - 1
        /\ Cardinality(Holders) > 0
    BY <1>5, HoldersShrink DEF Release
  <2>2. used' \in Nat /\ used' = Cardinality(Holders') /\ used' <= Slots
    BY <1>5, <2>1, HoldersFinite, SlotsAssumption DEF Release, SlotAccounting
  <2>3. TypeOK'
    BY <1>5, <2>2 DEF TypeOK, Release, regVars
  <2>4. QED
    BY <2>2, <2>3 DEF SlotAccounting
<1>6. CASE Collect(j)
  <2>1. TypeOK'
    BY <1>6 DEF TypeOK, Collect, resVars, regVars
  <2>2. Holders' = Holders
    BY <1>6 DEF TypeOK, Collect, Holders, Opening, Running
  <2>3. QED
    BY <1>6, <2>1, <2>2, SlotKept DEF Collect
<1>7. QED
  BY <1>1, <1>2, <1>3, <1>4, <1>5, <1>6 DEF JobStep

LEMMA SlotNext == SlotInv /\ [Next]_vars => SlotInv'
<1> SUFFICES ASSUME SlotInv, [Next]_vars PROVE SlotInv'
  OBVIOUS
<1> USE DEF SlotInv
<1>1. ASSUME NEW st \in Streams, Stop(st) \/ \E b \in BOOLEAN : SetPinned(st, b)
      PROVE  SlotInv'
  <2>1. TypeOK'
    BY <1>1 DEF TypeOK, Stop, SetPinned, StopLocked, Registered, jobVars, resVars
  <2>2. QED
    BY <1>1, <2>1, SlotKept DEF Stop, SetPinned, jobVars, Holders
<1>2. CASE ReapIdle \/ Close
  <2>1. TypeOK'
    BY <1>2 DEF TypeOK, ReapIdle, Close, StopLocked, jobVars
  <2>2. QED
    BY <1>2, <2>1, SlotKept DEF ReapIdle, Close, jobVars, Holders
<1>3. CASE UNCHANGED vars
  <2>1. TypeOK'
    BY <1>3 DEF TypeOK, vars, jobVars, resVars, regVars
  <2>2. QED
    BY <1>3, <2>1, SlotKept DEF vars, jobVars, Holders
<1>4. QED
  BY <1>1, <1>2, <1>3, SlotCallerStep, SlotJobStep DEF Next

(* The manager's variables keep their types, and the slot semaphore always
   counts exactly the opens and processes that hold a slot (remux.go:204-238,
   314-319). *)
THEOREM SlotsAccountedFor == Spec => [](TypeOK /\ SlotAccounting)
<1>1. SlotInv <=> TypeOK /\ SlotAccounting
  BY DEF SlotInv
<1>2. QED
  BY <1>1, SlotInit, SlotNext, PTL DEF Spec

-----------------------------------------------------------------------------
(* Who owns a job's context, body and directory, and when a job is in the
   maps.  RegistryCoherent and the properties after it are consequences. *)
StreamOwned(st) ==
  sessions[st] # None =>
     /\ stream[sessions[st]] = st
     /\ sessions[st] \in byID

JobOwned(j) ==
  /\ j \in byID => /\ sessions[stream[j]] = j
                   /\ phase[j] \in Running \cup Finished
                   /\ j \in dir
                   /\ j \notin sweeping
                   /\ phase[j] = "live" => j \notin cancelled
  /\ phase[j] \in Running \cup Finished =>
        j \in byID \/ (j \in cancelled /\ (j \in sweeping \/ j \notin dir))
  /\ j \in sweeping => phase[j] \in Running \cup Finished /\ j \in dir
  /\ j \in pending => phase[j] # "free"
  /\ phase[j] \in Opening => j \in pending
  /\ phase[j] \in {"opening", "fetched"} => j \in dir
  /\ j \in dir => phase[j] \notin {"free", "admitted"}
  /\ j \in body => phase[j] \in {"fetched", "failed"} \cup Running
  /\ closed => /\ j \notin byID
               /\ phase[j] \in Opening \cup {"live"} => j \in cancelled

OwnerInv ==
  /\ \A st \in Streams : StreamOwned(st)
  /\ \A j \in Jobs : JobOwned(j)

LEMMA OwnerInit == Init => OwnerInv
BY DEF Init, OwnerInv, StreamOwned, JobOwned, Running, Finished, Opening

(* stopLocked withdraws any set of registered sessions, and cancels any set
   of pending opens of which it withdraws the session, if there is one. *)
LEMMA OwnerStopLocked ==
  ASSUME TypeOK, OwnerInv, NEW S \in SUBSET byID, NEW P \in SUBSET Jobs,
         P \cap byID \subseteq S,
         StopLocked(S, P), UNCHANGED <<jobVars, body, dir, index>>,
         closed' = closed \/ (S = byID /\ pending \subseteq P)
  PROVE  OwnerInv'
<1>1. ASSUME NEW st \in Streams PROVE StreamOwned(st)'
  BY <1>1, NoneAssumption DEF TypeOK, OwnerInv, StreamOwned, StopLocked, jobVars
<1>2. ASSUME NEW j \in Jobs PROVE JobOwned(j)'
  <2>1. JobOwned(j)
    BY DEF OwnerInv
  <2>2. j \in byID => stream[j] \in Streams
    BY <2>1 DEF JobOwned, TypeOK, Running, Finished
  <2>3. j \in byID' => sessions'[stream[j]] = j
    BY <2>1, <2>2 DEF JobOwned, StopLocked
  <2>4. closed' => /\ j \notin byID'
                   /\ phase'[j] \in Opening \cup {"live"} => j \in cancelled'
    BY <2>1 DEF JobOwned, StopLocked, jobVars, Opening, Running
  <2>5. QED
    BY <2>1, <2>3, <2>4 DEF JobOwned, StopLocked, jobVars
<1>3. QED
  BY <1>1, <1>2 DEF OwnerInv

(* A step that changes neither the maps, nor phases, contexts or
   directories keeps every owner. *)
LEMMA OwnerKept ==
  ASSUME OwnerInv, UNCHANGED <<phase, stream, pending, cancelled, body, dir,
                               sweeping, sessions, byID, closed>>
  PROVE  OwnerInv'
BY DEF OwnerInv, StreamOwned, JobOwned

(* A step of one job that is in no map: the other jobs and the streams do
   not notice. *)
LEMMA OwnerOneJob ==
  ASSUME TypeOK, OwnerInv, NEW j \in Jobs, j \notin byID, JobOwned(j)',
         UNCHANGED <<sessions, byID, closed>>,
         \A k \in Jobs \ {j} :
            /\ phase'[k] = phase[k]
            /\ stream'[k] = stream[k]
            /\ k \in pending' <=> k \in pending
            /\ k \in cancelled' <=> k \in cancelled
            /\ k \in body' <=> k \in body
            /\ k \in dir' <=> k \in dir
            /\ k \in sweeping' <=> k \in sweeping
  PROVE  OwnerInv'
<1>1. ASSUME NEW st \in Streams PROVE StreamOwned(st)'
  BY <1>1 DEF OwnerInv, StreamOwned, TypeOK
<1>2. ASSUME NEW k \in Jobs \ {j} PROVE JobOwned(k)'
  BY <1>2 DEF OwnerInv, JobOwned
<1>3. QED
  BY <1>1, <1>2 DEF OwnerInv

LEMMA OwnerAdmit ==
  ASSUME TypeOK, OwnerInv, NEW c \in Callers, NEW st \in Streams, NEW g \in Sigs,
         NEW j \in Jobs, StartAdmit(c, st, g, j)
  PROVE  OwnerInv'
<1> USE DEF Opening, Running, Finished
<1>1. /\ Registered(st) \subseteq byID
      /\ j \notin byID \cup dir \cup body \cup sweeping
  BY DEF OwnerInv, StreamOwned, JobOwned, Registered, TypeOK, StartAdmit
<1>2. ASSUME NEW x \in Streams PROVE StreamOwned(x)'
  BY <1>1, NoneAssumption
  DEF TypeOK, OwnerInv, StreamOwned, StartAdmit, StopLocked, Registered
<1>3. JobOwned(j)'
  BY <1>1 DEF StartAdmit, StopLocked, JobOwned, Registered, TypeOK
<1>4. ASSUME NEW k \in Jobs \ {j} PROVE JobOwned(k)'
  <2>1. JobOwned(k) /\ ~closed /\ closed' = closed
    BY DEF OwnerInv, StartAdmit
  <2>2. /\ phase'[k] = phase[k] /\ stream'[k] = stream[k]
        /\ k \in pending' <=> k \in pending
        /\ k \in dir' <=> k \in dir
        /\ k \in body' <=> k \in body
    BY DEF StartAdmit, TypeOK
  <2>3. k \in byID => stream[k] \in Streams
    BY <2>1 DEF JobOwned, TypeOK
  <2>4. k \in byID' => sessions'[stream[k]] = k
    BY <2>1, <2>3 DEF StartAdmit, StopLocked, JobOwned
  <2>5. /\ k \in byID' <=> k \in byID \ Registered(st)
        /\ k \in sweeping' <=> k \in sweeping \cup Registered(st)
        /\ k \in cancelled' <=> k \in cancelled \cup Registered(st)
    BY DEF StartAdmit, StopLocked
  <2>6. QED
    BY <1>1, <2>1, <2>2, <2>4, <2>5 DEF JobOwned
<1>5. QED
  BY <1>2, <1>3, <1>4 DEF OwnerInv

LEMMA OwnerCallerStep ==
  ASSUME TypeOK, OwnerInv, NEW c \in Callers, CallerStep(c)
  PROVE  OwnerInv'
<1>1. ASSUME NEW st \in Streams, NEW g \in Sigs, StartReuse(c, st, g)
      PROVE  OwnerInv'
  BY <1>1, OwnerKept DEF StartReuse, jobVars, resVars, regVars
<1>2. ASSUME NEW st \in Streams, NEW g \in Sigs, StartRefused(c, st, g)
      PROVE  OwnerInv'
  <2>1. Registered(st) \subseteq byID
    BY DEF OwnerInv, StreamOwned, Registered
  <2>2. QED
    BY <1>2, <2>1, OwnerStopLocked DEF StartRefused
<1>3. ASSUME NEW j \in Jobs, StartLost(c, j)
      PROVE  OwnerInv'
  <2>1. j \notin byID /\ JobOwned(j)'
    BY <1>3 DEF StartLost, OwnerInv, JobOwned, TypeOK, resVars, regVars,
                Opening, Running, Finished
  <2>2. QED
    BY <1>3, <2>1, OwnerOneJob DEF StartLost, TypeOK, resVars, regVars
<1>4. ASSUME NEW j \in Jobs, ForgetPending(c, j)
      PROVE  OwnerInv'
  <2>1. ASSUME NEW k \in Jobs PROVE JobOwned(k)'
    BY <1>4 DEF ForgetPending, OwnerInv, JobOwned, resVars, regVars,
                Started, Opening, Running, Finished
  <2>2. ASSUME NEW st \in Streams PROVE StreamOwned(st)'
    BY <1>4 DEF ForgetPending, OwnerInv, StreamOwned, regVars
  <2>3. QED
    BY <2>1, <2>2 DEF OwnerInv
<1>5. ASSUME NEW j \in Jobs, Abandon(c, j)
      PROVE  OwnerInv'
  <2>1. j \notin byID /\ JobOwned(j)'
    BY <1>5 DEF Abandon, OwnerInv, JobOwned, TypeOK, regVars,
                Opening, Running, Finished
  <2>2. QED
    BY <1>5, <2>1, OwnerOneJob DEF Abandon, TypeOK, regVars
<1>6. CASE WaitServed(c) \/ WaitPoll(c) \/ WaitGivesUp(c)
  BY <1>6, OwnerKept
  DEF WaitServed, WaitPoll, WaitGivesUp, jobVars, resVars, regVars
<1>7. QED
  BY <1>1, <1>2, <1>3, <1>4, <1>5, <1>6, OwnerAdmit DEF CallerStep

LEMMA OwnerStartProcess ==
  ASSUME TypeOK, OwnerInv, NEW j \in Jobs, StartProcess(j)
  PROVE  OwnerInv'
<1> USE DEF Opening, Running, Finished
<1>1. stream[j] \in Streams /\ j \notin byID /\ j \in dir /\ j \notin sweeping
  BY DEF StartProcess, TypeOK, OwnerInv, JobOwned
<1>2. ASSUME NEW st \in Streams PROVE StreamOwned(st)'
  BY <1>1 DEF StartProcess, TypeOK, OwnerInv, StreamOwned
<1>3. JobOwned(j)'
  BY <1>1 DEF StartProcess, TypeOK, OwnerInv, JobOwned, resVars
<1>4. ASSUME NEW k \in Jobs \ {j} PROVE JobOwned(k)'
  <2>1. JobOwned(k) /\ JobOwned(j)
    BY DEF OwnerInv
  <2>2. k \in byID => stream[k] # stream[j]
    BY <2>1, NoneAssumption DEF JobOwned, StartProcess
  <2>3. k \in byID => sessions'[stream[k]] = sessions[stream[k]]
    BY <2>1, <2>2 DEF JobOwned, TypeOK, StartProcess
  <2>4. QED
    BY <2>1, <2>3 DEF StartProcess, JobOwned, TypeOK, resVars
<1>5. QED
  BY <1>2, <1>3, <1>4 DEF OwnerInv

LEMMA OwnerProcessStep ==
  ASSUME TypeOK, OwnerInv, NEW j \in Jobs,
         \/ WritePlaylist(j) \/ CloseBody(j) \/ Exit(j) \/ Release(j)
         \/ SignalDone(j) \/ RemoveDir(j)
  PROVE  OwnerInv'
<1> USE DEF Opening, Running, Finished
<1>1. CASE WritePlaylist(j)
  BY <1>1, OwnerKept DEF WritePlaylist, jobVars, regVars
<1>2. CASE CloseBody(j) \/ Exit(j) \/ Release(j) \/ SignalDone(j) \/ RemoveDir(j)
  <2>1. /\ UNCHANGED <<sessions, byID, closed, stream, pending>>
        /\ \A k \in Jobs \ {j} :
              /\ phase'[k] = phase[k]
              /\ k \in cancelled' <=> k \in cancelled
              /\ k \in body' <=> k \in body
              /\ k \in dir' <=> k \in dir
              /\ k \in sweeping' <=> k \in sweeping
    BY <1>2 DEF CloseBody, Exit, Release, SignalDone, RemoveDir, TypeOK,
                jobVars, resVars, regVars
  <2>2. JobOwned(j)'
    <3> USE DEF OwnerInv, JobOwned, TypeOK
    <3>1. CASE CloseBody(j)
      BY <3>1 DEF CloseBody, jobVars, regVars
    <3>2. CASE Exit(j)
      BY <3>2 DEF Exit, resVars, regVars
    <3>3. CASE Release(j)
      BY <3>3 DEF Release, regVars
    <3>4. CASE SignalDone(j)
      BY <3>4 DEF SignalDone, resVars, regVars
    <3>5. CASE RemoveDir(j)
      BY <3>5 DEF RemoveDir, jobVars, regVars
    <3>6. QED
      BY <1>2, <3>1, <3>2, <3>3, <3>4, <3>5
  <2>3. ASSUME NEW k \in Jobs \ {j} PROVE JobOwned(k)'
    BY <2>1 DEF OwnerInv, JobOwned
  <2>4. ASSUME NEW st \in Streams PROVE StreamOwned(st)'
    BY <2>1 DEF OwnerInv, StreamOwned
  <2>5. QED
    BY <2>2, <2>3, <2>4 DEF OwnerInv
<1>3. QED
  BY <1>1, <1>2

LEMMA OwnerJobStep ==
  ASSUME TypeOK, OwnerInv, NEW j \in Jobs, JobStep(j)
  PROVE  OwnerInv'
<1> USE DEF Opening, Running, Finished
<1>1. CASE MakeDir(j) \/ OpenSource(j) \/ StartFails(j)
  <2>1. j \notin byID
    BY <1>1 DEF MakeDir, OpenSource, StartFails, OwnerInv, JobOwned
  <2>2. JobOwned(j)'
    <3> USE DEF OwnerInv, JobOwned, TypeOK, resVars, regVars
    <3>1. CASE MakeDir(j)
      BY <3>1 DEF MakeDir
    <3>2. CASE OpenSource(j)
      BY <3>2 DEF OpenSource
    <3>3. CASE StartFails(j)
      BY <3>3 DEF StartFails
    <3>4. QED
      BY <1>1, <3>1, <3>2, <3>3
  <2>3. QED
    BY <1>1, <2>1, <2>2, OwnerOneJob
    DEF MakeDir, OpenSource, StartFails, TypeOK, resVars, regVars
<1>2. CASE Use(j) \/ Age(j)
  BY <1>2, OwnerKept DEF Use, Age, jobVars, resVars, regVars
<1>3. CASE ExistingDrops(j)
  <2>1. {j} \in SUBSET byID /\ {} \in SUBSET Jobs
    BY <1>3 DEF ExistingDrops
  <2>2. QED
    BY <1>3, <2>1, OwnerStopLocked DEF ExistingDrops
<1>4. CASE Collect(j)
  <2>1. j \notin byID /\ JobOwned(j)'
    BY <1>4 DEF Collect, OwnerInv, JobOwned, TypeOK, resVars, regVars
  <2>2. QED
    BY <1>4, <2>1, OwnerOneJob DEF Collect, TypeOK, resVars, regVars
<1>5. QED
  BY <1>1, <1>2, <1>3, <1>4, OwnerStartProcess, OwnerProcessStep DEF JobStep

LEMMA OwnerNext == TypeOK /\ OwnerInv /\ [Next]_vars => OwnerInv'
<1> SUFFICES ASSUME TypeOK, OwnerInv, [Next]_vars PROVE OwnerInv'
  OBVIOUS
<1>1. ASSUME NEW st \in Streams, Stop(st) PROVE OwnerInv'
  <2> DEFINE P == {p \in pending : stream[p] = st}
  <2>1. Registered(st) \subseteq byID /\ P \in SUBSET Jobs
    BY DEF OwnerInv, StreamOwned, Registered, TypeOK
  <2>2. P \cap byID \subseteq Registered(st)
    BY NoneAssumption DEF OwnerInv, JobOwned, Registered, TypeOK
  <2>3. QED
    BY <1>1, <2>1, <2>2, OwnerStopLocked DEF Stop
<1>2. ASSUME NEW st \in Streams, NEW b \in BOOLEAN, SetPinned(st, b) PROVE OwnerInv'
  BY <1>2, OwnerKept DEF SetPinned, jobVars, resVars
<1>3. CASE ReapIdle
  BY <1>3, OwnerStopLocked DEF ReapIdle
<1>4. CASE Close
  <2>1. pending \in SUBSET Jobs /\ byID \in SUBSET byID
    BY DEF TypeOK
  <2>2. QED
    BY <1>4, <2>1, OwnerStopLocked DEF Close
<1>5. CASE UNCHANGED vars
  BY <1>5, OwnerKept DEF vars, jobVars, resVars, regVars
<1>6. QED
  BY <1>1, <1>2, <1>3, <1>4, <1>5, OwnerCallerStep, OwnerJobStep DEF Next

LEMMA OwnerAlways == Spec => [](TypeOK /\ OwnerInv)
BY SlotsAccountedFor, OwnerInit, OwnerNext, PTL DEF Spec

-----------------------------------------------------------------------------
(* The two maps agree, and a registered session has its directory and an
   uncancelled context as long as its process runs (remux.go:288-290,
   324-327). *)
THEOREM RegistryAlwaysCoherent == Spec => []RegistryCoherent
<1>1. TypeOK /\ OwnerInv => RegistryCoherent
  <2> SUFFICES ASSUME TypeOK, OwnerInv PROVE RegistryCoherent
    OBVIOUS
  <2>1. ASSUME NEW j \in byID PROVE stream[j] \in Streams /\ sessions[stream[j]] = j
    BY <2>1 DEF TypeOK, OwnerInv, JobOwned, Running, Finished
  <2>2. byID = {sessions[st] : st \in Streams} \ {None}
    BY <2>1, NoneAssumption DEF TypeOK, OwnerInv, StreamOwned
  <2>3. QED
    BY <2>2, NoneAssumption
    DEF RegistryCoherent, TypeOK, OwnerInv, StreamOwned, JobOwned, Started
<1>2. QED
  BY <1>1, OwnerAlways, PTL

(* Every process of a stream but the registered one is being killed, every
   directory and every body has an owner that will release it, and after
   Close nothing is left running on purpose (remux.go:174, 221-238, 296-332). *)
THEOREM NothingLeaks ==
  Spec => [](ResourcesOwned /\ ClosedIsFinal)
<1> USE DEF Opening, Running, Finished
<1>1. TypeOK /\ OwnerInv => ResourcesOwned
  BY DEF TypeOK, OwnerInv, JobOwned, Phases, ResourcesOwned, NoStrayProcess, NoLeakedDirectory, NoLeakedBody
<1>2. TypeOK /\ OwnerInv => ClosedIsFinal
  BY DEF TypeOK, OwnerInv, JobOwned, ClosedIsFinal
<1>3. QED
  BY <1>1, <1>2, OwnerAlways, PTL

(* A directory is removed only when its process has gone and no map leads to
   it (remux.go:328-331, 233). *)
THEOREM DirectoriesOutliveProcesses == Spec => DirectoryOutlivesProcess
<1> DEFINE A == \A j \in dir \ dir' : phase[j] \in {"done", "failed"} /\ j \notin byID
<1>1. TypeOK /\ OwnerInv /\ [Next]_vars => [A]_vars
  <2> SUFFICES ASSUME TypeOK, OwnerInv, Next, NEW j \in dir \ dir'
               PROVE  phase[j] \in {"done", "failed"} /\ j \notin byID
    OBVIOUS
  <2>1. j \in Jobs /\ JobOwned(j)
    BY DEF TypeOK, OwnerInv
  <2>2. ASSUME NEW c \in Callers, CallerStep(c)
        PROVE  phase[j] = "failed"
    BY <2>2 DEF CallerStep, StartReuse, StartRefused, StartAdmit, StartLost,
                ForgetPending, Abandon, WaitServed, WaitPoll, WaitGivesUp, resVars
  <2>3. ASSUME NEW k \in Jobs, JobStep(k)
        PROVE  phase[j] = "done" /\ j \in sweeping
    BY <2>3 DEF JobStep, MakeDir, OpenSource, StartFails, StartProcess, Use,
                ExistingDrops, Age, WritePlaylist, CloseBody, Exit, Release,
                SignalDone, RemoveDir, Collect, resVars
  <2>4. ~(ReapIdle \/ Close \/ \E st \in Streams : Stop(st) \/ \E b \in BOOLEAN : SetPinned(st, b))
    BY DEF ReapIdle, Close, Stop, SetPinned, resVars
  <2>5. QED
    BY <2>1, <2>2, <2>3, <2>4 DEF Next, JobOwned, Running, Finished
<1>2. QED
  BY <1>1, OwnerAlways, PTL DEF Spec, DirectoryOutlivesProcess

(* A session leaves the maps only because it is dead without a playlist, idle
   and not pinned, stopped, replaced for another signature, or the manager
   closes (remux.go:155-172, 185-203, 386-394).  A registered session that
   Start replaces is the one of the stream Start was called for, so the
   signature asked for is not its own, or it is dead without a playlist. *)
THEOREM LiveSessionsKept == Spec => LiveSessionKept
<1> DEFINE Dropped(j) ==
             \/ phase[j] = "done" /\ j \notin index
             \/ j \in stale \ pinned
             \/ closed'
             \/ Stop(stream[j])
             \/ \E c \in Callers, g \in Sigs \ {sig[j]} :
                   \/ StartRefused(c, stream[j], g)
                   \/ \E k \in Jobs : StartAdmit(c, stream[j], g, k)
<1>1. TypeOK /\ OwnerInv /\ [Next]_vars => [\A j \in byID \ byID' : Dropped(j)]_vars
  <2> SUFFICES ASSUME TypeOK, OwnerInv, Next, NEW j \in byID \ byID'
               PROVE  Dropped(j)
    OBVIOUS
  <2>1. j \in Jobs
    BY DEF TypeOK
  <2>2. ASSUME NEW st \in Streams, j \in Registered(st)
        PROVE  st = stream[j] /\ sessions[st] = j
    BY <2>2 DEF OwnerInv, StreamOwned, Registered
  <2>3. ASSUME NEW st \in Streams, NEW g \in Sigs,
               j \in Registered(st), Reusable(st, g) = {}
        PROVE  g # sig[j] \/ (phase[j] = "done" /\ j \notin index)
    BY <2>3 DEF Reusable
  <2>4. ASSUME NEW c \in Callers, CallerStep(c)
        PROVE  Dropped(j)
    <3>1. ASSUME NEW st \in Streams, NEW g \in Sigs, StartRefused(c, st, g)
          PROVE  Dropped(j)
      <4>1. j \in Registered(st) /\ Reusable(st, g) = {}
        BY <3>1 DEF StartRefused, StopLocked
      <4>2. CASE g # sig[j]
        BY <3>1, <4>1, <4>2, <2>2
      <4>3. CASE phase[j] = "done" /\ j \notin index
        BY <4>3
      <4>4. QED
        BY <4>1, <4>2, <4>3, <2>3
    <3>2. ASSUME NEW st \in Streams, NEW g \in Sigs, NEW k \in Jobs, StartAdmit(c, st, g, k)
          PROVE  Dropped(j)
      <4>1. j \in Registered(st) /\ Reusable(st, g) = {}
        BY <3>2 DEF StartAdmit, StopLocked
      <4>2. CASE g # sig[j]
        BY <3>2, <4>1, <4>2, <2>2
      <4>3. CASE phase[j] = "done" /\ j \notin index
        BY <4>3
      <4>4. QED
        BY <4>1, <4>2, <4>3, <2>3
    <3>3. ASSUME NEW st \in Streams, NEW g \in Sigs, StartReuse(c, st, g)
          PROVE  FALSE
      BY <3>3 DEF StartReuse, regVars
    <3>4. ASSUME NEW k \in Jobs, StartLost(c, k) \/ ForgetPending(c, k) \/ Abandon(c, k)
          PROVE  FALSE
      BY <3>4 DEF StartLost, ForgetPending, Abandon, regVars
    <3>5. ~(WaitServed(c) \/ WaitPoll(c) \/ WaitGivesUp(c))
      BY DEF WaitServed, WaitPoll, WaitGivesUp, regVars
    <3>6. QED
      BY <2>4, <3>1, <3>2, <3>3, <3>4, <3>5 DEF CallerStep
  <2>5. ASSUME NEW k \in Jobs, JobStep(k)
        PROVE  phase[j] = "done" /\ j \notin index
    BY <2>5 DEF JobStep, MakeDir, OpenSource, StartFails, StartProcess, Use,
                ExistingDrops, StopLocked, Age, WritePlaylist, CloseBody, Exit,
                Release, SignalDone, RemoveDir, Collect, regVars
  <2>6. ASSUME NEW st \in Streams, Stop(st)
        PROVE  Stop(stream[j])
    <3>1. j \in Registered(st)
      BY <2>6 DEF Stop, StopLocked
    <3>2. QED
      BY <2>6, <3>1, <2>2
  <2>7. ~ \E st \in Streams, b \in BOOLEAN : SetPinned(st, b)
    BY DEF SetPinned
  <2>8. ReapIdle => j \in stale \ pinned
    BY DEF ReapIdle, StopLocked
  <2>9. Close => closed'
    BY DEF Close
  <2>10. QED
    BY <2>4, <2>5, <2>6, <2>7, <2>8, <2>9 DEF Next
<1>2. QED
  BY <1>1, OwnerAlways, PTL DEF Spec, LiveSessionKept

-----------------------------------------------------------------------------
(* Every step of the manager is a step of RemuxPool or a stutter.  The slot
   accounting turns the code's test of the semaphore into a bound on the
   number of tickets. *)
LEMMA PoolCallerStep ==
  ASSUME TypeOK, SlotAccounting, NEW c \in Callers, CallerStep(c)
  PROVE  [Pool!Next]_(Pool!vars)
<1>1. ASSUME NEW st \in Streams, NEW g \in Sigs, StartReuse(c, st, g)
      PROVE  UNCHANGED Pool!vars
  BY <1>1 DEF StartReuse, Pool!vars, Holders, jobVars, regVars
<1>2. ASSUME NEW st \in Streams, NEW g \in Sigs, StartRefused(c, st, g)
      PROVE  Pool!Withdraw(Registered(st))
  BY <1>2 DEF StartRefused, StopLocked, Pool!Withdraw, Pool!Without, Holders, jobVars
<1>3. ASSUME NEW st \in Streams, NEW g \in Sigs, NEW j \in Jobs, StartAdmit(c, st, g, j)
      PROVE  Pool!Take(j, Registered(st))
  <2>1. Holders' = Holders \cup {j} /\ j \notin Holders
    BY <1>3 DEF StartAdmit, TypeOK, Holders, Opening, Running, Phases, Finished
  <2>2. Cardinality(Holders) < Slots
    BY <1>3, SlotsAssumption DEF StartAdmit, SlotAccounting, TypeOK
  <2>3. Pool!Cardinality(Holders) < Slots
    BY <2>2 DEF Pool!Cardinality, Cardinality
  <2>4. QED
    BY <1>3, <2>1, <2>3 DEF StartAdmit, StopLocked, Pool!Take, Pool!Without
<1>4. ASSUME NEW j \in Jobs, StartLost(c, j)
      PROVE  UNCHANGED Pool!vars
  <2>1. Holders' = Holders
    BY <1>4 DEF StartLost, TypeOK, Holders, Opening, Running
  <2>2. QED
    BY <1>4, <2>1 DEF StartLost, Pool!vars, regVars
<1>5. ASSUME NEW j \in Jobs, ForgetPending(c, j)
      PROVE  UNCHANGED Pool!vars
  BY <1>5 DEF ForgetPending, Pool!vars, Holders, regVars
<1>6. ASSUME NEW j \in Jobs, Abandon(c, j)
      PROVE  Pool!Give(j)
  <2>1. Holders' = Holders \ {j} /\ j \in Holders
    BY <1>6 DEF Abandon, TypeOK, Holders, Opening, Running
  <2>2. QED
    BY <1>6, <2>1 DEF Abandon, Pool!Give, regVars
<1>7. CASE WaitServed(c) \/ WaitPoll(c) \/ WaitGivesUp(c)
  BY <1>7 DEF WaitServed, WaitPoll, WaitGivesUp, Pool!vars, Holders, jobVars, regVars
<1>8. \A st \in Streams : Registered(st) \in SUBSET Jobs
  BY DEF Registered, TypeOK
<1>9. QED
  BY <1>1, <1>2, <1>3, <1>4, <1>5, <1>6, <1>7, <1>8 DEF CallerStep, Pool!Next

LEMMA PoolJobStep ==
  ASSUME TypeOK, OwnerInv, NEW j \in Jobs, JobStep(j)
  PROVE  [Pool!Next]_(Pool!vars)
<1>1. CASE MakeDir(j) \/ OpenSource(j) \/ StartFails(j)
  <2>1. PICK p \in {"opening", "fetched", "failed"} :
           /\ phase[j] \in Opening
           /\ phase' = [phase EXCEPT ![j] = p]
           /\ UNCHANGED <<sessions, closed>>
    BY <1>1 DEF MakeDir, OpenSource, StartFails, Opening, regVars
  <2>2. Holders' = Holders
    BY <2>1 DEF TypeOK, Holders, Opening
  <2>3. QED
    BY <2>1, <2>2 DEF Pool!vars
<1>2. CASE StartProcess(j)
  <2>1. stream[j] \in Streams /\ j \in Holders
    BY <1>2 DEF StartProcess, TypeOK, Holders, Opening
  <2>2. Holders' = Holders
    BY <1>2 DEF StartProcess, TypeOK, Holders, Opening, Running
  <2>3. Pool!Serve(stream[j], j)
    BY <1>2, <2>1, <2>2 DEF StartProcess, Pool!Serve
  <2>4. QED
    BY <2>1, <2>3 DEF Pool!Next
<1>3. CASE Use(j) \/ Age(j) \/ WritePlaylist(j) \/ CloseBody(j) \/ RemoveDir(j)
  BY <1>3 DEF Use, Age, WritePlaylist, CloseBody, RemoveDir, Pool!vars, Holders,
              jobVars, regVars
<1>4. CASE Exit(j) \/ SignalDone(j) \/ Collect(j)
  <2>1. Holders' = Holders
    BY <1>4 DEF Exit, SignalDone, Collect, TypeOK, Holders, Opening, Running
  <2>2. QED
    BY <1>4, <2>1 DEF Exit, SignalDone, Collect, Pool!vars, regVars
<1>5. CASE Release(j)
  <2>1. Holders' = Holders \ {j} /\ j \in Holders
    BY <1>5 DEF Release, TypeOK, Holders, Opening, Running
  <2>2. Pool!Give(j)
    BY <1>5, <2>1 DEF Release, Pool!Give, regVars
  <2>3. QED
    BY <2>2 DEF Pool!Next
<1>6. CASE ExistingDrops(j)
  <2>1. Pool!Withdraw({j})
    BY <1>6 DEF ExistingDrops, StopLocked, Pool!Withdraw, Pool!Without, Holders, jobVars
  <2>2. QED
    BY <2>1 DEF Pool!Next
<1>7. QED
  BY <1>1, <1>2, <1>3, <1>4, <1>5, <1>6 DEF JobStep

LEMMA PoolNext ==
  TypeOK /\ SlotAccounting /\ OwnerInv /\ [Next]_vars => [Pool!Next]_(Pool!vars)
<1> SUFFICES ASSUME TypeOK, SlotAccounting, OwnerInv, [Next]_vars
             PROVE  [Pool!Next]_(Pool!vars)
  OBVIOUS
<1>1. ASSUME NEW st \in Streams, Stop(st)
      PROVE  Pool!Withdraw(Registered(st)) /\ Registered(st) \in SUBSET Jobs
  BY <1>1 DEF Stop, StopLocked, Registered, TypeOK, Pool!Withdraw, Pool!Without,
              Holders, jobVars
<1>2. ASSUME NEW st \in Streams, NEW b \in BOOLEAN, SetPinned(st, b)
      PROVE  UNCHANGED Pool!vars
  BY <1>2 DEF SetPinned, Pool!vars, Holders, jobVars
<1>3. CASE ReapIdle
  <2>1. Pool!Withdraw(byID \cap (stale \ pinned))
    BY <1>3 DEF ReapIdle, StopLocked, Pool!Withdraw, Pool!Without, Holders, jobVars
  <2>2. QED
    BY <2>1 DEF Pool!Next, TypeOK
<1>4. CASE Close
  <2>1. sessions' = [st \in Streams |-> None]
    BY <1>4 DEF Close, StopLocked, OwnerInv, StreamOwned
  <2>2. Pool!End
    BY <1>4, <2>1 DEF Close, Pool!End, Holders, jobVars
  <2>3. QED
    BY <2>2 DEF Pool!Next
<1>5. CASE UNCHANGED vars
  BY <1>5 DEF vars, Pool!vars, Holders, jobVars, regVars
<1>6. QED
  BY <1>1, <1>2, <1>3, <1>4, <1>5, PoolCallerStep, PoolJobStep DEF Next, Pool!Next

(* The remux manager implements the pool of RemuxPool: at most Slots sources
   are open at any moment, a stream has at most one session and gets one only
   from a job that holds a slot, and nothing is served after Close
   (remux.go:174-332). *)
THEOREM RemuxImplementsPool == Spec => ImplementsPool
<1>1. Init => Pool!Init
  <2>1. Init => Holders = {}
    BY DEF Init, Holders, Opening, Running
  <2>2. QED
    BY <2>1 DEF Init, Pool!Init
<1>2. QED
  BY <1>1, PoolNext, SlotsAccountedFor, OwnerAlways, PTL DEF Spec, Pool!Spec, ImplementsPool
=============================================================================
