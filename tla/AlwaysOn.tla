------------------------------ MODULE AlwaysOn ------------------------------
(***************************************************************************)
(* The always-on supervisor (internal/gatewayhttp/alwayson.go): one        *)
(* goroutine keeps a pinned remux session per flagged stream, restarts the *)
(* dead ones with a backoff and leaves the rest of the slots to viewers.   *)
(* It runs on the control gateway and, with RelayOnly, on a relay node.    *)
(*                                                                         *)
(* The remux manager appears here at the granularity of its API: what      *)
(* module Remux shows of it (one session per stream, slots accounted for)  *)
(* lets every call be one step.  The supervisor's pass is not atomic: each *)
(* of its calls interleaves with viewers, idle reaping, admin edits and    *)
(* dying sources.  Time: a backoff is pending or over, and a relay has run *)
(* for less ("short") or more ("long") than alwaysOnMinHealthy.  The       *)
(* failure count only sets the length of a backoff and is left out, and so *)
(* are the runtime rows, which only report.                                *)
(***************************************************************************)
EXTENDS Naturals, FiniteSets

CONSTANTS
    Streams,        \* stream ids, in the order AlwaysOnStreams returns them
    Sigs,           \* source signatures
    Slots,          \* remux slots
    RelayOnly,      \* a relay node has no on-demand viewers
    None

ASSUME StreamsAssumption == Streams \subseteq Nat /\ IsFiniteSet(Streams)
ASSUME SlotsAssumption   == Slots \in Nat \ {0}
ASSUME FlagAssumption    == RelayOnly \in BOOLEAN

(* A registered session: alive until its process ends; playlist once it has
   one; awaited while the supervisor waits for that playlist. *)
Sessions ==
    [sig : Sigs, alive : BOOLEAN, playlist : BOOLEAN, pinned : BOOLEAN, awaited : BOOLEAN]

ASSUME NoneAssumption    == None \notin Streams \cup Sigs \cup Sessions

VARIABLES
    flagged,    \* store: streams with always_on
    source,     \* store: signature of a stream's source
    calm,       \* the environment has settled (only liveness depends on it)
    sess,       \* remux: a stream's registered session
    lingering,  \* remux: slots of stopped processes that have not exited yet
    pc,         \* supervisor: where it is in reconcileAlwaysOn
    cur,        \* supervisor: the stream it is working on
    want,       \* supervisor: signatures, as loaded, of the streams to relay
    wasDead,    \* supervisor: streams whose pinned session was dead
    todo,       \* supervisor: wanted streams not visited yet
    states      \* supervisor: backoff state of a stream

envVars  == <<flagged, source, calm>>
poolVars == <<sess, lingering>>
supVars  == <<pc, cur, want, wasDead, todo, states>>
vars     == <<envVars, poolVars, supVars>>

(* alwaysOnState: nextTry is in the future; how long since runningSince. *)
States  == [backoff : BOOLEAN, ran : {"none", "short", "long"}]
NoState == [backoff |-> FALSE, ran |-> "none"]
Failed  == [backoff |-> TRUE, ran |-> "none"]

Wanted == {st \in Streams : want[st] # None}

TypeOK ==
    /\ flagged \subseteq Streams
    /\ source \in [Streams -> Sigs]
    /\ calm \in BOOLEAN
    /\ sess \in [Streams -> Sessions \cup {None}]
    /\ lingering \in Nat
    /\ pc \in {"idle", "loaded", "loop", "probe", "adopt", "start", "opening", "wait", "pin"}
    /\ cur \in Streams \cup {None}
    /\ want \in [Streams -> Sigs \cup {None}]
    /\ wasDead \subseteq Streams /\ todo \subseteq Wanted
    /\ states \in [Streams -> States]

Init ==
    /\ flagged \in SUBSET Streams
    /\ source \in [Streams -> Sigs]
    /\ calm = FALSE
    /\ sess = [st \in Streams |-> None]
    /\ lingering = 0
    /\ pc = "idle"
    /\ cur = None
    /\ want = [st \in Streams |-> None]
    /\ wasDead = {} /\ todo = {}
    /\ states = [st \in Streams |-> NoState]

-----------------------------------------------------------------------------
(* The remux manager. *)

Has(st)    == sess[st] # None
Pinned     == {st \in Streams : Has(st) /\ sess[st].pinned}
Opening    == IF pc = "opening" THEN 1 ELSE 0
Used       == Cardinality({st \in Streams : Has(st) /\ sess[st].alive}) + lingering + Opening

(* stopLocked: the slot stays taken until the process has exited. *)
Lingers(st) == IF Has(st) /\ sess[st].alive THEN 1 ELSE 0

Drop(st) ==
    /\ sess' = [sess EXCEPT ![st] = None]
    /\ lingering' = lingering + Lingers(st)

NewSession(g) == [sig |-> g, alive |-> TRUE, playlist |-> FALSE, pinned |-> FALSE, awaited |-> FALSE]

(* Start reuses a session with the same signature unless it died without a
   playlist; Existing agrees. *)
Reusable(st, g) == Has(st) /\ sess[st].sig = g /\ (sess[st].alive \/ sess[st].playlist)

(* A viewer's request, with the signature of the source as it read it. *)
ViewerStart(st, g) ==
    /\ ~RelayOnly /\ ~calm
    /\ ~Reusable(st, g)
    /\ IF Used < Slots
       THEN /\ sess' = [sess EXCEPT ![st] = NewSession(g)]
            /\ lingering' = lingering + Lingers(st)
       ELSE Drop(st)
    /\ UNCHANGED <<envVars, supVars>>

(* Mutant: pinned relays are reaped like other sessions. *)
ReapPinnedToo(st) ==
    /\ Has(st) /\ ~sess[st].awaited
    /\ ~(pc = "adopt" /\ cur = st)
    /\ Drop(st)
    /\ UNCHANGED <<envVars, supVars>>

(* ReapIdle drops a session nobody used for idleTime, unless it is pinned.
   The one WaitPlaylist polls, or Existing has just returned, was used. *)
Reap(st) ==
    /\ Has(st) /\ ~sess[st].pinned /\ ~sess[st].awaited
    /\ ~(pc = "adopt" /\ cur = st)
    /\ Drop(st)
    /\ UNCHANGED <<envVars, supVars>>

WritePlaylist(st) ==
    /\ Has(st) /\ sess[st].alive /\ ~sess[st].playlist
    /\ sess' = [sess EXCEPT ![st].playlist = TRUE]
    /\ UNCHANGED <<envVars, lingering, supVars>>

SourceDies(st) ==
    /\ ~calm
    /\ Has(st) /\ sess[st].alive
    /\ sess' = [sess EXCEPT ![st].alive = FALSE]
    /\ UNCHANGED <<envVars, lingering, supVars>>

ProcessExits ==
    /\ lingering > 0
    /\ lingering' = lingering - 1
    /\ UNCHANGED <<envVars, sess, supVars>>

-----------------------------------------------------------------------------
(* The admin interface. *)

Flag(st) ==
    /\ ~calm
    /\ flagged' = IF st \in flagged THEN flagged \ {st} ELSE flagged \cup {st}
    /\ UNCHANGED <<source, calm, poolVars, supVars>>

EditSource(st, g) ==
    /\ ~calm
    /\ g # source[st]
    /\ source' = [source EXCEPT ![st] = g]
    /\ UNCHANGED <<flagged, calm, poolVars, supVars>>

(* From here on nobody edits, no viewer comes and every source works. *)
Settle ==
    /\ ~calm
    /\ calm' = TRUE
    /\ UNCHANGED <<flagged, source, poolVars, supVars>>

-----------------------------------------------------------------------------
(* reconcileAlwaysOn. *)

(* At least one slot is left to viewers, but at least one relay is allowed. *)
MaxRelays == IF RelayOnly THEN Slots ELSE IF Slots > 1 THEN Slots - 1 ELSE 1

FirstRelays(F) == {st \in F : Cardinality({x \in F : x < st}) < MaxRelays}

(* One reading of the store; an error there ends the pass. *)
Load ==
    /\ pc = "idle"
    /\ want' = [st \in Streams |-> IF st \in FirstRelays(flagged) THEN source[st] ELSE None]
    /\ pc' = "loaded"
    /\ UNCHANGED <<envVars, poolVars, cur, wasDead, todo, states>>

(* Mutant: sessions no longer wanted stay pinned. *)
SnapshotKeepsPins ==
    /\ pc = "loaded"
    /\ wasDead' = {st \in Pinned : ~sess[st].alive}
    /\ todo' = Wanted
    /\ pc' = "loop"
    /\ UNCHANGED <<envVars, poolVars, cur, want, states>>

(* Pinned(), and sessions no longer wanted go back to idle handling.  Only
   the supervisor pins, so unpinning right after the snapshot is one step. *)
Snapshot ==
    /\ pc = "loaded"
    /\ LET unwanted == Pinned \ Wanted IN
          /\ sess' = [st \in Streams |-> IF st \in unwanted
                                         THEN [sess[st] EXCEPT !.pinned = FALSE]
                                         ELSE sess[st]]
          /\ states' = [st \in Streams |-> IF st \in unwanted THEN NoState ELSE states[st]]
    /\ wasDead' = {st \in Pinned : ~sess[st].alive}
    /\ todo' = Wanted
    /\ pc' = "loop"
    /\ UNCHANGED <<envVars, lingering, cur, want>>

(* The loop's continue. *)
NextStream ==
    /\ todo' = todo \ {cur}
    /\ pc' = "loop"
    /\ UNCHANGED <<cur, want, wasDead>>

Take(st) ==
    /\ pc = "loop" /\ st \in todo
    /\ st \notin wasDead
    /\ cur' = st
    /\ pc' = "probe"
    /\ UNCHANGED <<envVars, poolVars, want, wasDead, todo, states>>

(* Mutant: the dead relay is not stopped, so it is found again. *)
StopDeadForgets(st) ==
    /\ pc = "loop" /\ st \in todo
    /\ st \in wasDead
    /\ cur' = st
    /\ states' = [states EXCEPT ![st] = Failed]
    /\ todo' = todo \ {st}
    /\ UNCHANGED <<envVars, poolVars, pc, want, wasDead>>

(* The snapshot said the relay had died: stop what is there now. *)
StopDead(st) ==
    /\ pc = "loop" /\ st \in todo
    /\ st \in wasDead
    /\ Drop(st)
    /\ cur' = st
    /\ IF states[st].ran = "short"
       THEN /\ states' = [states EXCEPT ![st] = Failed]
            /\ todo' = todo \ {st}
            /\ UNCHANGED pc
       ELSE /\ states' = [states EXCEPT ![st].ran = "none"]
            /\ pc' = "probe"
            /\ UNCHANGED todo
    /\ UNCHANGED <<envVars, want, wasDead>>

(* Existing: found (then it is pinned), or not; a dead session that never
   wrote a playlist is dropped on the way. *)
ProbeFound ==
    /\ pc = "probe"
    /\ Reusable(cur, want[cur])
    /\ pc' = "adopt"
    /\ UNCHANGED <<envVars, poolVars, cur, want, wasDead, todo, states>>

ProbeMissing ==
    /\ pc = "probe"
    /\ ~Reusable(cur, want[cur])
    /\ IF Has(cur) /\ sess[cur].sig = want[cur] THEN Drop(cur) ELSE UNCHANGED poolVars
    /\ IF states[cur].backoff
       THEN NextStream
       ELSE /\ pc' = "start"
            /\ UNCHANGED <<cur, want, wasDead, todo>>
    /\ UNCHANGED <<envVars, states>>

(* SetPinned(id, true) pins the session that is registered now, if any. *)
PinCurrent ==
    sess' = IF Has(cur) THEN [sess EXCEPT ![cur].pinned = TRUE, ![cur].awaited = FALSE]
                        ELSE sess

Adopt ==
    /\ pc = "adopt"
    /\ PinCurrent
    /\ NextStream
    /\ UNCHANGED <<envVars, lingering, states>>

(* startRelay: Start returns a session a viewer started meanwhile ... *)
StartFinds ==
    /\ pc = "start"
    /\ Reusable(cur, want[cur])
    /\ sess' = [sess EXCEPT ![cur].awaited = TRUE]
    /\ pc' = "wait"
    /\ UNCHANGED <<envVars, lingering, cur, want, wasDead, todo, states>>

(* ... or drops what is there and takes a slot to open the source ... *)
StartOpens ==
    /\ pc = "start"
    /\ ~Reusable(cur, want[cur])
    /\ Used < Slots
    /\ Drop(cur)
    /\ pc' = "opening"
    /\ UNCHANGED <<envVars, cur, want, wasDead, todo, states>>

(* ... or finds none: the dropped session's slot is not free yet. *)
StartRefused ==
    /\ pc = "start"
    /\ ~Reusable(cur, want[cur])
    /\ Used >= Slots
    /\ Drop(cur)
    /\ states' = [states EXCEPT ![cur] = Failed]
    /\ NextStream
    /\ UNCHANGED envVars

(* openRelaySource returned an error. *)
OpenFails ==
    /\ pc = "opening" /\ ~calm
    /\ states' = [states EXCEPT ![cur] = Failed]
    /\ NextStream
    /\ UNCHANGED <<envVars, poolVars>>

(* The process starts, unless a viewer's session was there first: Start then
   returns that one, whatever its signature. *)
OpenSucceeds ==
    /\ pc = "opening"
    /\ sess' = IF Has(cur) THEN [sess EXCEPT ![cur].awaited = TRUE]
               ELSE [sess EXCEPT ![cur] = [NewSession(want[cur]) EXCEPT !.awaited = TRUE]]
    /\ pc' = "wait"
    /\ UNCHANGED <<envVars, lingering, cur, want, wasDead, todo, states>>

Awaited == Has(cur) /\ sess[cur].awaited

WaitServed ==
    /\ pc = "wait"
    /\ Awaited /\ sess[cur].playlist
    /\ pc' = "pin"
    /\ UNCHANGED <<envVars, poolVars, cur, want, wasDead, todo, states>>

(* No playlist in time, the process died without one, or the session was
   replaced: the stream's session is stopped, whichever it is now. *)
WaitFails ==
    /\ pc = "wait"
    /\ ~(Awaited /\ sess[cur].playlist)
    /\ ~(calm /\ Awaited /\ sess[cur].alive)
    /\ Drop(cur)
    /\ states' = [states EXCEPT ![cur] = Failed]
    /\ NextStream
    /\ UNCHANGED envVars

Pin ==
    /\ pc = "pin"
    /\ PinCurrent
    /\ states' = [states EXCEPT ![cur] = [backoff |-> FALSE, ran |-> "short"]]
    /\ NextStream
    /\ UNCHANGED <<envVars, lingering>>

(* Mutant: the pass ends before every wanted stream was visited. *)
EndPassEarly ==
    /\ pc = "loop"
    /\ pc' = "idle"
    /\ cur' = None
    /\ want' = [st \in Streams |-> None]
    /\ wasDead' = {}
    /\ UNCHANGED <<envVars, poolVars, todo, states>>

(* The pass's local variables are gone. *)
EndPass ==
    /\ pc = "loop" /\ todo = {}
    /\ pc' = "idle"
    /\ cur' = None
    /\ want' = [st \in Streams |-> None]
    /\ wasDead' = {}
    /\ UNCHANGED <<envVars, poolVars, todo, states>>

(* Time passes: nextTry is reached; a relay has run alwaysOnMinHealthy. *)
BackoffElapses(st) ==
    /\ states[st].backoff
    /\ states' = [states EXCEPT ![st].backoff = FALSE]
    /\ UNCHANGED <<envVars, poolVars, pc, cur, want, wasDead, todo>>

Ripens(st) ==
    /\ states[st].ran = "short"
    /\ states' = [states EXCEPT ![st].ran = "long"]
    /\ UNCHANGED <<envVars, poolVars, pc, cur, want, wasDead, todo>>

-----------------------------------------------------------------------------
Supervisor ==
    \/ Load \/ Snapshot \/ EndPass
    \/ \E st \in Streams : Take(st) \/ StopDead(st)
    \/ ProbeFound \/ ProbeMissing \/ Adopt
    \/ StartFinds \/ StartOpens \/ StartRefused
    \/ OpenFails \/ OpenSucceeds \/ WaitServed \/ WaitFails \/ Pin

Next ==
    \/ Supervisor
    \/ \E st \in Streams :
          \/ Reap(st) \/ WritePlaylist(st) \/ SourceDies(st)
          \/ Flag(st) \/ BackoffElapses(st) \/ Ripens(st)
          \/ \E g \in Sigs : ViewerStart(st, g) \/ EditSource(st, g)
    \/ ProcessExits
    \/ Settle

Spec == Init /\ [][Next]_vars

(* The supervisor's goroutine keeps going: its ticker fires, and its calls
   end by their own timeouts.  The reaper's ticker fires, killed processes
   exit, time passes; once the environment is calm a process that runs
   writes its playlist.  Nothing is assumed of viewers or edits. *)
Fairness ==
    /\ WF_vars(Supervisor)
    /\ WF_vars(ProcessExits)
    /\ \A st \in Streams :
          WF_vars(Reap(st)) /\ WF_vars(WritePlaylist(st)) /\ WF_vars(BackoffElapses(st))

FairSpec == Spec /\ Fairness

-----------------------------------------------------------------------------
Live(st) == Has(st) /\ sess[st].alive

(* However often flags change and sessions are swapped under the
   supervisor, no more sessions are pinned than it may relay, so the rest
   can be reaped (alwayson.go:91-117, 141, 187). *)
PinBudget == Cardinality(Pinned) <= MaxRelays

(* A live pinned relay loses its place or its pin only when somebody asked
   for the stream with another source, or when the supervisor no longer
   wants it: acting on an outdated snapshot or on a failed wait never stops
   one (alwayson.go:111-117, 128-132, 183-185). *)
HealthyRelayKept ==
    [][\A st \in Pinned : Live(st) /\ ~(sess'[st] # None /\ sess'[st].pinned) =>
          \/ \E g \in Sigs \ {sess[st].sig} :
                \/ ViewerStart(st, g)
                \/ pc = "start" /\ cur = st /\ want[st] = g
          \/ pc = "loaded" /\ st \notin Wanted]_vars

(* Once the sources work and nothing changes any more, every flagged stream
   within the budget gets a pinned, live relay of its current source and
   keeps it, whatever dead, outdated or foreign sessions the trouble left
   behind (alwayson.go:85-168). *)
RelaysConverge ==
    calm ~> [](\A st \in FirstRelays(flagged) :
                  Live(st) /\ sess[st].pinned /\ sess[st].sig = source[st])
=============================================================================
