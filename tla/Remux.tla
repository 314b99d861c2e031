-------------------------------- MODULE Remux --------------------------------
(***************************************************************************)
(* The remux manager of the gateway (internal/remux/remux.go): it turns an *)
(* MPEG-TS source into HLS with one ffmpeg process per stream, on a        *)
(* semaphore of Slots.  A *job* is one call of Start that obtained a slot: *)
(* first its pendingOpen (context, source body, directory), later, when    *)
(* ffmpeg starts, the Session with the same context, body and directory.   *)
(* A *caller* is a goroutine that calls Start and then WaitPlaylist: a     *)
(* viewer's request or the always-on supervisor.                           *)
(*                                                                         *)
(* Everything done under Manager.mu is one step; what happens outside it   *)
(* (mkdir, the source open, the deferred cleanup, watch, the cleanup       *)
(* goroutine of stopLocked) is a step of its own.  Time is abstracted: a   *)
(* session is "stale" when it has not been used for idleTime.              *)
(***************************************************************************)
EXTENDS Naturals, FiniteSets

CONSTANTS
    Streams,    \* stream ids
    Sigs,       \* source signatures: URL and credentials of a source
    Jobs,       \* Start attempts and the sessions they become
    Callers,    \* goroutines that call Start and WaitPlaylist
    Slots,      \* capacity of the slot semaphore
    None        \* no stream, no signature, no job

ASSUME SlotsAssumption == Slots \in Nat \ {0}
ASSUME JobsAssumption  == IsFiniteSet(Jobs)
ASSUME NoneAssumption  == None \notin Jobs \cup Streams \cup Sigs

VARIABLES
    phase,      \* where a job is between Start and the end of its process
    stream,     \* stream of a job
    sig,        \* source signature of a job
    pending,    \* Manager.pending: jobs Stop and Close can cancel
    cancelled,  \* jobs whose context is cancelled
    body,       \* jobs whose source body is open
    dir,        \* jobs whose temporary directory exists
    index,      \* jobs whose index.m3u8 exists
    sweeping,   \* sessions with a stopLocked goroutine waiting to remove dir
    sessions,   \* Manager.sessions: the stream's registered session
    byID,       \* Manager.byID: the sessions GetPath finds
    pinned,     \* always-on sessions, never idle-reaped
    stale,      \* sessions not used for idleTime
    used,       \* tokens in the slot semaphore
    closed,     \* Manager.closed
    call        \* what each caller is doing

jobVars  == <<phase, stream, sig, pending>>
resVars  == <<body, dir, index, sweeping>>
regVars  == <<sessions, byID, pinned>>
vars     == <<jobVars, cancelled, resVars, regVars, stale, used, closed, call>>

(* Phases.  The context, the source body and the slot belong to Start until
   the process is started, then to watch. *)
Opening  == {"admitted", "opening", "fetched"}
Running  == {"live", "exited"}              \* holds the slot as a session
Finished == {"released", "done"}            \* slot given back
Phases   == {"free", "failed"} \cup Opening \cup Running \cup Finished

Started  == {j \in Jobs : phase[j] \in Running \cup Finished}
Holders  == {j \in Jobs : phase[j] \in Opening \cup Running \cup {"failed"}}

(* What a caller is doing: nothing, inside Start for its own job (lost is
   the session another opener registered meanwhile), or waiting for the
   playlist of the session Start returned.  It asked for <<st, g>>. *)
Idle          == [pc |-> "idle", st |-> None, g |-> None, job |-> None, lost |-> None]
InStart(st, g, j) == [pc |-> "start", st |-> st, g |-> g, job |-> j, lost |-> None]
Waiting(st, g, j) == [pc |-> "wait", st |-> st, g |-> g, job |-> j, lost |-> None]

CallRecords ==
    [pc : {"idle", "start", "wait"}, st : Streams \cup {None}, g : Sigs \cup {None},
     job : Jobs \cup {None}, lost : Jobs \cup {None}]

TypeOK ==
    /\ phase \in [Jobs -> Phases]
    /\ stream \in [Jobs -> Streams \cup {None}]
    /\ sig \in [Jobs -> Sigs \cup {None}]
    /\ \A j \in Jobs : phase[j] # "free" => stream[j] \in Streams /\ sig[j] \in Sigs
    /\ sessions \in [Streams -> Jobs \cup {None}]
    /\ call \in [Callers -> CallRecords]
    /\ pending \subseteq Jobs /\ cancelled \subseteq Jobs
    /\ body \subseteq Jobs /\ dir \subseteq Jobs /\ index \subseteq Jobs
    /\ sweeping \subseteq Jobs /\ byID \subseteq Jobs
    /\ pinned \subseteq Jobs /\ stale \subseteq Jobs
    /\ used \in Nat
    /\ closed \in BOOLEAN

Init ==
    /\ phase = [j \in Jobs |-> "free"]
    /\ stream = [j \in Jobs |-> None]
    /\ sig = [j \in Jobs |-> None]
    /\ sessions = [st \in Streams |-> None]
    /\ call = [c \in Callers |-> Idle]
    /\ pending = {} /\ cancelled = {} /\ body = {} /\ dir = {} /\ index = {}
    /\ sweeping = {} /\ byID = {} /\ pinned = {} /\ stale = {}
    /\ used = 0
    /\ closed = FALSE

-----------------------------------------------------------------------------
(* Mutants of StopLocked, for the check only: byID keeps the session; the
   directory is left behind; the context is not cancelled. *)
StopKeepsID(S, others) ==
    /\ sessions' = [st \in Streams |-> IF sessions[st] \in S THEN None ELSE sessions[st]]
    /\ cancelled' = cancelled \cup S \cup others
    /\ sweeping' = sweeping \cup S
    /\ UNCHANGED <<byID, pinned, stale>>

StopWithoutSweep(S, others) ==
    /\ sessions' = [st \in Streams |-> IF sessions[st] \in S THEN None ELSE sessions[st]]
    /\ byID' = byID \ S /\ pinned' = pinned \ S /\ stale' = stale \ S
    /\ cancelled' = cancelled \cup S \cup others
    /\ UNCHANGED sweeping

StopWithoutCancel(S, others) ==
    /\ sessions' = [st \in Streams |-> IF sessions[st] \in S THEN None ELSE sessions[st]]
    /\ byID' = byID \ S /\ pinned' = pinned \ S /\ stale' = stale \ S
    /\ sweeping' = sweeping \cup S
    /\ cancelled' = cancelled \cup others

(* stopLocked for every session of S: it leaves both maps at once; the
   cleanup goroutine removes its directory when the process has gone.
   others are pending opens cancelled in the same critical section.  pinned
   and lastUsed of a session in no map are never read again. *)
StopLocked(S, others) ==
    /\ sessions' = [st \in Streams |-> IF sessions[st] \in S THEN None ELSE sessions[st]]
    /\ byID' = byID \ S
    /\ pinned' = pinned \ S
    /\ stale' = stale \ S
    /\ sweeping' = sweeping \cup S
    /\ cancelled' = cancelled \cup S \cup others

Registered(st) == {sessions[st]} \ {None}

(* The session Start reuses for <<st, g>>: same signature, and either a
   playlist on disk or a process that has not been collected yet. *)
Reusable(st, g) ==
    {s \in Registered(st) : sig[s] = g /\ (s \in index \/ phase[s] # "done")}

(* Start finds a session to reuse: it only refreshes lastUsed. *)
StartReuse(c, st, g) ==
    /\ call[c] = Idle
    /\ ~closed
    /\ \E s \in Reusable(st, g) :
          /\ stale' = stale \ {s}
          /\ call' = [call EXCEPT ![c] = Waiting(st, g, s)]
    /\ UNCHANGED <<jobVars, cancelled, resVars, regVars, used, closed>>

(* Start stops a session with another signature, or a dead one without a
   playlist, then takes a slot without waiting and registers its context in
   pending.  The slot of the session it just stopped is not free yet. *)
StartAdmit(c, st, g, j) ==
    /\ call[c] = Idle
    /\ ~closed
    /\ Reusable(st, g) = {}
    /\ used < Slots
    /\ phase[j] = "free"
    /\ StopLocked(Registered(st), {})
    /\ used' = used + 1
    /\ phase' = [phase EXCEPT ![j] = "admitted"]
    /\ stream' = [stream EXCEPT ![j] = st]
    /\ sig' = [sig EXCEPT ![j] = g]
    /\ pending' = pending \cup {j}
    /\ call' = [call EXCEPT ![c] = InStart(st, g, j)]
    /\ UNCHANGED <<body, dir, index, closed>>

(* "remux session limit reached": the old session is stopped all the same. *)
StartRefused(c, st, g) ==
    /\ call[c] = Idle
    /\ ~closed
    /\ Reusable(st, g) = {}
    /\ used = Slots
    /\ StopLocked(Registered(st), {})
    /\ UNCHANGED <<jobVars, body, dir, index, used, closed, call>>

(* The session id and the temporary directory, outside the lock. *)
MakeDir(j) ==
    /\ phase[j] = "admitted"
    /\ \/ /\ phase' = [phase EXCEPT ![j] = "opening"]
          /\ dir' = dir \cup {j}
       \/ /\ phase' = [phase EXCEPT ![j] = "failed"]
          /\ UNCHANGED dir
    /\ UNCHANGED <<stream, sig, pending, cancelled, body, index, sweeping, regVars,
                   stale, used, closed, call>>

(* open(ctx) returns a body, or an error (also no body at all). *)
OpenSource(j) ==
    /\ phase[j] = "opening"
    /\ \/ /\ phase' = [phase EXCEPT ![j] = "fetched"]
          /\ body' = body \cup {j}
       \/ /\ phase' = [phase EXCEPT ![j] = "failed"]
          /\ UNCHANGED body
    /\ UNCHANGED <<stream, sig, pending, cancelled, dir, index, sweeping, regVars,
                   stale, used, closed, call>>

(* Back under the lock: cancelled meanwhile, the manager closed, or ffmpeg
   does not start. *)
StartFails(j) ==
    /\ phase[j] = "fetched"
    /\ j \in cancelled \/ closed \/ sessions[stream[j]] = None
    /\ phase' = [phase EXCEPT ![j] = "failed"]
    /\ UNCHANGED <<stream, sig, pending, cancelled, resVars, regVars, stale, used, closed, call>>

(* Another opener registered a session for this stream while this one was
   fetching: Start returns that session, whatever its signature. *)
StartLost(c, j) ==
    /\ call[c].pc = "start" /\ call[c].job = j
    /\ phase[j] = "fetched"
    /\ j \notin cancelled /\ ~closed
    /\ sessions[stream[j]] # None
    /\ LET winner == sessions[stream[j]] IN
          /\ stale' = stale \ {winner}
          /\ call' = [call EXCEPT ![c].lost = winner]
    /\ phase' = [phase EXCEPT ![j] = "failed"]
    /\ UNCHANGED <<stream, sig, pending, cancelled, resVars, regVars, used, closed>>

(* Mutant: the session map is not looked at again after the open. *)
StartProcessUnchecked(j) ==
    /\ phase[j] = "fetched"
    /\ j \notin cancelled /\ ~closed
    /\ phase' = [phase EXCEPT ![j] = "live"]
    /\ sessions' = [sessions EXCEPT ![stream[j]] = j]
    /\ byID' = byID \cup {j}
    /\ UNCHANGED <<stream, sig, pending, cancelled, resVars, pinned, stale, used, closed, call>>

(* ffmpeg is started and the session registered in one critical section. *)
StartProcess(j) ==
    /\ phase[j] = "fetched"
    /\ j \notin cancelled /\ ~closed
    /\ sessions[stream[j]] = None
    /\ phase' = [phase EXCEPT ![j] = "live"]
    /\ sessions' = [sessions EXCEPT ![stream[j]] = j]
    /\ byID' = byID \cup {j}
    /\ UNCHANGED <<stream, sig, pending, cancelled, resVars, pinned, stale, used, closed, call>>

(* The deferred function, first half, under the lock: forget the pending
   open.  After a successful start there is nothing else to do and the
   caller goes on to WaitPlaylist. *)
ForgetPending(c, j) ==
    /\ call[c].pc = "start" /\ call[c].job = j
    /\ j \in pending
    /\ phase[j] = "failed" \/ j \in Started
    /\ pending' = pending \ {j}
    /\ call' = IF j \in Started
               THEN [call EXCEPT ![c] = Waiting(@.st, @.g, j)]
               ELSE call
    /\ UNCHANGED <<phase, stream, sig, cancelled, resVars, regVars, stale, used, closed>>

(* Mutant: a failed Start keeps its slot. *)
AbandonKeepsSlot(c, j) ==
    /\ call[c].pc = "start" /\ call[c].job = j
    /\ phase[j] = "failed"
    /\ j \notin pending
    /\ phase' = [phase EXCEPT ![j] = "free"]
    /\ stream' = [stream EXCEPT ![j] = None]
    /\ sig' = [sig EXCEPT ![j] = None]
    /\ cancelled' = cancelled \ {j}
    /\ body' = body \ {j}
    /\ dir' = dir \ {j}
    /\ call' = [call EXCEPT ![c] = IF @.lost = None THEN Idle
                                   ELSE Waiting(@.st, @.g, @.lost)]
    /\ UNCHANGED <<pending, index, sweeping, regVars, stale, used, closed>>

(* The deferred function, second half, when nothing was started: cancel the
   context, close the body, remove the directory, give the slot back.  No
   other goroutine knows this job any more. *)
Abandon(c, j) ==
    /\ call[c].pc = "start" /\ call[c].job = j
    /\ phase[j] = "failed"
    /\ j \notin pending
    /\ phase' = [phase EXCEPT ![j] = "free"]
    /\ stream' = [stream EXCEPT ![j] = None]
    /\ sig' = [sig EXCEPT ![j] = None]
    /\ cancelled' = cancelled \ {j}
    /\ body' = body \ {j}
    /\ dir' = dir \ {j}
    /\ used' = used - 1
    /\ call' = [call EXCEPT ![c] = IF @.lost = None THEN Idle
                                   ELSE Waiting(@.st, @.g, @.lost)]
    /\ UNCHANGED <<pending, index, sweeping, regVars, stale, closed>>

-----------------------------------------------------------------------------
(* WaitPlaylist.  GetPath finds the session by id and refreshes it; the
   os.Stat right after it is part of the step: if the playlist is removed
   in between, the answer is only "not there yet". *)
WaitServed(c) ==
    /\ call[c].pc = "wait"
    /\ call[c].job \in byID \cap index
    /\ stale' = stale \ {call[c].job}
    /\ call' = [call EXCEPT ![c] = Idle]
    /\ UNCHANGED <<jobVars, cancelled, resVars, regVars, used, closed>>

WaitPoll(c) ==
    /\ call[c].pc = "wait"
    /\ call[c].job \in byID \ index
    /\ stale' = stale \ {call[c].job}
    /\ UNCHANGED <<jobVars, cancelled, resVars, regVars, used, closed, call>>

(* Mutant: WaitPlaylist has no deadline, it only ends with the process. *)
WaitGivesUpWhenDone(c) ==
    /\ call[c].pc = "wait"
    /\ phase[call[c].job] = "done"
    /\ call[c].job \notin byID \cap index
    /\ call' = [call EXCEPT ![c] = Idle]
    /\ UNCHANGED <<jobVars, cancelled, resVars, regVars, stale, used, closed>>

(* The process exited without a playlist, the session was dropped, or
   firstSegmentTimeout ran out. *)
WaitGivesUp(c) ==
    /\ call[c].pc = "wait"
    /\ call[c].job \notin byID \cap index
    /\ call' = [call EXCEPT ![c] = Idle]
    /\ UNCHANGED <<jobVars, cancelled, resVars, regVars, stale, used, closed>>

(* GetPath for a viewer's playlist or segment, and Existing for a session
   that it returns: both refresh lastUsed. *)
Use(j) ==
    /\ j \in byID
    /\ stale' = stale \ {j}
    /\ UNCHANGED <<jobVars, cancelled, resVars, regVars, used, closed, call>>

(* Existing finds a dead session that never wrote a playlist. *)
ExistingDrops(j) ==
    /\ j \in byID /\ phase[j] = "done" /\ j \notin index
    /\ StopLocked({j}, {})
    /\ UNCHANGED <<jobVars, body, dir, index, used, closed, call>>

SetPinned(st, b) ==
    /\ sessions[st] # None
    /\ pinned' = IF b THEN pinned \cup {sessions[st]} ELSE pinned \ {sessions[st]}
    /\ stale' = stale \ {sessions[st]}
    /\ UNCHANGED <<jobVars, cancelled, resVars, sessions, byID, used, closed, call>>

(* Stop cancels the opens of the stream that are still pending as well. *)
Stop(st) ==
    /\ StopLocked(Registered(st), {p \in pending : stream[p] = st})
    /\ UNCHANGED <<jobVars, body, dir, index, used, closed, call>>

(* Mutant: always-on sessions are reaped like the others. *)
ReapPinnedToo ==
    /\ \E s \in byID : s \in stale
    /\ StopLocked(byID \cap stale, {})
    /\ UNCHANGED <<jobVars, body, dir, index, used, closed, call>>

(* ReapIdle, run by the manager's ticker. *)
ReapIdle ==
    /\ \E s \in byID : s \in stale \ pinned
    /\ StopLocked(byID \cap (stale \ pinned), {})
    /\ UNCHANGED <<jobVars, body, dir, index, used, closed, call>>

(* Mutant: Close forgets the sessions. *)
CloseForgetsSessions ==
    /\ ~closed
    /\ closed' = TRUE
    /\ StopLocked({}, pending)
    /\ UNCHANGED <<jobVars, body, dir, index, used, call>>

Close ==
    /\ ~closed
    /\ closed' = TRUE
    /\ StopLocked(byID, pending)
    /\ UNCHANGED <<jobVars, body, dir, index, used, call>>

-----------------------------------------------------------------------------
(* The ffmpeg process and its watch goroutine. *)

WritePlaylist(j) ==
    /\ phase[j] = "live" /\ j \in dir
    /\ index' = index \cup {j}
    /\ UNCHANGED <<jobVars, cancelled, body, dir, sweeping, regVars, stale, used, closed, call>>

(* context.AfterFunc: a cancelled context closes the source body. *)
CloseBody(j) ==
    /\ j \in Started \cap cancelled \cap body
    /\ body' = body \ {j}
    /\ UNCHANGED <<jobVars, cancelled, dir, index, sweeping, regVars, stale, used, closed, call>>

(* The process ends: killed, at the end of its input, or by itself. *)
Exit(j) ==
    /\ phase[j] = "live"
    /\ phase' = [phase EXCEPT ![j] = "exited"]
    /\ UNCHANGED <<stream, sig, pending, cancelled, resVars, regVars, stale, used, closed, call>>

(* watch after Wait: cancel, close the body, give the slot back ... *)
Release(j) ==
    /\ phase[j] = "exited"
    /\ phase' = [phase EXCEPT ![j] = "released"]
    /\ cancelled' = cancelled \cup {j}
    /\ body' = body \ {j}
    /\ used' = used - 1
    /\ UNCHANGED <<stream, sig, pending, dir, index, sweeping, regVars, stale, closed, call>>

(* ... and only then close done. *)
SignalDone(j) ==
    /\ phase[j] = "released"
    /\ phase' = [phase EXCEPT ![j] = "done"]
    /\ UNCHANGED <<stream, sig, pending, cancelled, resVars, regVars, stale, used, closed, call>>

(* Mutant: the directory is removed without waiting for the process. *)
RemoveDirAtOnce(j) ==
    /\ j \in sweeping
    /\ sweeping' = sweeping \ {j}
    /\ dir' = dir \ {j}
    /\ index' = index \ {j}
    /\ UNCHANGED <<jobVars, cancelled, body, regVars, stale, used, closed, call>>

(* The cleanup goroutine of stopLocked waits for done. *)
RemoveDir(j) ==
    /\ j \in sweeping /\ phase[j] = "done"
    /\ sweeping' = sweeping \ {j}
    /\ dir' = dir \ {j}
    /\ index' = index \ {j}
    /\ UNCHANGED <<jobVars, cancelled, body, regVars, stale, used, closed, call>>

(* A registered session is not used for idleTime. *)
Age(j) ==
    /\ j \in byID
    /\ stale' = stale \cup {j}
    /\ UNCHANGED <<jobVars, cancelled, resVars, regVars, used, closed, call>>

(* Nothing in the program refers to the session any more: its name can
   stand for another one (ids are 128 random bits, never repeated). *)
Collect(j) ==
    /\ phase[j] = "done"
    /\ j \notin byID \cup dir \cup pending
    /\ \A c \in Callers : j \notin {call[c].job, call[c].lost}
    /\ phase' = [phase EXCEPT ![j] = "free"]
    /\ stream' = [stream EXCEPT ![j] = None]
    /\ sig' = [sig EXCEPT ![j] = None]
    /\ cancelled' = cancelled \ {j}
    /\ UNCHANGED <<pending, resVars, regVars, stale, used, closed, call>>

-----------------------------------------------------------------------------
CallerStep(c) ==
    \/ \E st \in Streams, g \in Sigs :
          \/ StartReuse(c, st, g)
          \/ StartRefused(c, st, g)
          \/ \E j \in Jobs : StartAdmit(c, st, g, j)
    \/ \E j \in Jobs : StartLost(c, j) \/ ForgetPending(c, j) \/ Abandon(c, j)
    \/ WaitServed(c) \/ WaitPoll(c) \/ WaitGivesUp(c)

JobStep(j) ==
    \/ MakeDir(j) \/ OpenSource(j) \/ StartFails(j) \/ StartProcess(j)
    \/ Use(j) \/ ExistingDrops(j) \/ Age(j)
    \/ WritePlaylist(j) \/ CloseBody(j) \/ Exit(j) \/ Release(j) \/ SignalDone(j)
    \/ RemoveDir(j) \/ Collect(j)

Next ==
    \/ \E c \in Callers : CallerStep(c)
    \/ \E j \in Jobs : JobStep(j)
    \/ \E st \in Streams : Stop(st) \/ \E b \in BOOLEAN : SetPinned(st, b)
    \/ ReapIdle
    \/ Close

Spec == Init /\ [][Next]_vars

(* What the code's own scheduling guarantees.  A goroutine that can take its
   next step takes it; open and WaitPlaylist end by their own timeouts; a
   killed process exits (SIGKILL, and WaitDelay bounds the wait for its
   pipes); the housekeeping ticker keeps firing.  Nothing is assumed of
   viewers, of Stop and Close, or of a process nobody cancelled. *)
Fairness ==
    /\ \A j \in Jobs :
          /\ WF_vars(MakeDir(j)) /\ WF_vars(OpenSource(j))
          /\ WF_vars(StartFails(j) \/ StartProcess(j) \/ \E c \in Callers : StartLost(c, j))
          /\ WF_vars(\E c \in Callers : ForgetPending(c, j) \/ Abandon(c, j))
          /\ WF_vars(j \in cancelled /\ Exit(j))
          /\ WF_vars(Release(j)) /\ WF_vars(SignalDone(j)) /\ WF_vars(RemoveDir(j))
    /\ \A c \in Callers : WF_vars(WaitServed(c) \/ WaitGivesUp(c))
    /\ WF_vars(ReapIdle)

FairSpec == Spec /\ Fairness

-----------------------------------------------------------------------------
(* The slot semaphore holds exactly one token for every Start that is still
   opening or cleaning up and every process that watch has not collected:
   no path of Start, stop, exit or close loses a slot or returns it twice
   (remux.go:204-209, 221-238, 318). *)
SlotAccounting ==
    /\ used = Cardinality(Holders)
    /\ used <= Slots

(* The two maps name the same sessions, one per stream, and a session in the
   maps was started for that stream, still has its directory, and has not
   been cancelled while its process runs (remux.go:288-290, 324-327). *)
RegistryCoherent ==
    /\ byID = {sessions[st] : st \in Streams} \ {None}
    /\ \A st \in Streams : sessions[st] # None =>
          LET s == sessions[st] IN
             /\ s \in Started \cap dir
             /\ stream[s] = st
             /\ s \notin sweeping
             /\ phase[s] = "live" => s \notin cancelled

(* Start creates at most one process per stream (remux.go:174): a process
   whose context is not cancelled is the registered session of its stream.
   A replaced process may only live on while it is being killed. *)
NoStrayProcess ==
    \A j \in Jobs : phase[j] = "live" /\ j \notin cancelled => sessions[stream[j]] = j

(* Every directory on disk has an owner that will remove it: a Start that
   has not returned, a registered session, or a cleanup goroutine of
   stopLocked (remux.go:233, 328-331). *)
NoLeakedDirectory ==
    \A j \in dir : phase[j] \in Opening \cup {"failed"} \/ j \in byID \/ j \in sweeping

(* Every open source body has an owner that will close it, and done is only
   signalled once the body is closed and the slot returned (remux.go:230,
   286, 316-319). *)
NoLeakedBody ==
    \A j \in body : phase[j] \in {"fetched", "failed"} \cup Running

(* Processes, directories and bodies all have somebody who will end, remove or
   close them (remux.go:174, 221-238, 286, 316-331). *)
ResourcesOwned == NoStrayProcess /\ NoLeakedDirectory /\ NoLeakedBody

(* After Close nothing is registered, and every open and every process that
   is still there has a cancelled context (remux.go:296-312, 262). *)
ClosedIsFinal ==
    closed => /\ byID = {}
              /\ \A j \in Jobs : phase[j] \in Opening \cup {"live"} => j \in cancelled

(* A directory disappears only when no process can write to it any more and
   no map leads a request to it (remux.go:328-331, 233). *)
DirectoryOutlivesProcess ==
    [][\A j \in dir \ dir' : phase[j] \in {"done", "failed"} /\ j \notin byID]_vars

(* A running session that is pinned or in use is dropped only because it was
   stopped, replaced for another signature, or the manager closed: neither
   idle reaping nor a concurrent Start or Existing for the same source drops
   it (remux.go:386-394, 155-172, 185-203). *)
LiveSessionKept ==
    [][\A j \in byID \ byID' :
          \/ phase[j] = "done" /\ j \notin index
          \/ j \in stale \ pinned
          \/ closed'
          \/ Stop(stream[j])
          \/ \E c \in Callers, g \in Sigs \ {sig[j]} :
                \/ StartRefused(c, stream[j], g)
                \/ \E k \in Jobs : StartAdmit(c, stream[j], g, k)]_vars

(* Every call of Start and WaitPlaylist returns (remux.go:359-383). *)
CallsReturn == \A c \in Callers : call[c].pc # "idle" ~> call[c].pc = "idle"

(* A stopped session is cleaned up completely: its process ends, and its
   directory goes (remux.go:314-332). *)
StoppedIsCleanedUp == \A j \in Jobs : j \in sweeping ~> j \notin dir

(* After Close everything is given back (remux.go:296-312). *)
CloseDrains == closed ~> [](used = 0 /\ body = {} /\ dir = {})

(* The manager keeps the promise of RemuxPool (remux.go:174-312): the jobs
   that hold a slot are the tickets, m.sessions says who serves a stream. *)
Pool == INSTANCE RemuxPool WITH tickets <- Holders, serving <- sessions, over <- closed

ImplementsPool == Pool!Spec
=============================================================================
