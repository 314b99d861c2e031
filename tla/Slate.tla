-------------------------------- MODULE Slate --------------------------------
(***************************************************************************)
(* The slate manager (internal/slate/slate.go): lazily started encoders    *)
(* that show "stream unavailable" instead of a stream.  A *slate* is the   *)
(* key of Manager.sessions: a generic variant, or a personal variant/key.  *)
(* A *run* is one encoder process with its directory.  A *reader* is a     *)
(* request inside GetPath.                                                 *)
(*                                                                         *)
(* What is done under Manager.mu is one step: also ReapIdle and            *)
(* RestartOnAudioChange, which hold it until the killed process has        *)
(* exited.  Time: "young" runs started less than shortLived ago, "failed"  *)
(* slates failed less than restartBackoff ago, "muted" ones may not use    *)
(* the radio yet, "idle" ones were not used for idleTime.                  *)
(*                                                                         *)
(* The fallbacks map is left out: it is only followed when there are six   *)
(* sessions, and there are never more than maxProcesses = 4 (ProcessCap).  *)
(***************************************************************************)
EXTENDS Naturals, FiniteSets

CONSTANTS
    Generic,        \* generic slates
    Personal,       \* personal slates
    Temporary,      \* the slates of the temporarily-unavailable base
    Runs,
    Readers,
    MaxProcesses,
    MaxPersonal,
    None

Slates == Generic \cup Personal

ASSUME SlatesAssumption == /\ Generic \cap Personal = {} /\ Temporary \subseteq Slates
                           /\ IsFiniteSet(Slates)
ASSUME RunsAssumption   == IsFiniteSet(Runs)
ASSUME LimitsAssumption == MaxProcesses \in Nat \ {0} /\ MaxPersonal \in Nat
ASSUME NoneAssumption   == None \notin Slates \cup Runs

VARIABLES
    keys,       \* Manager.personal
    idleKeys,   \* its entries not used for idleTime
    sessions,   \* Manager.sessions
    phase,      \* whether a run is free, live or exited (done is closed)
    radio,      \* runs that read the radio
    young, index, dir, cancelled,   \* of runs
    closing,    \* runs Close waits for
    idle,       \* slates whose session was not used for idleTime
    failed,     \* Manager.failedAt, not yet restartBackoff ago
    muted,      \* Manager.radioMuted, not yet over
    stopped,
    req         \* what each reader is doing

keyVars == <<keys, idleKeys>>
runVars == <<phase, radio, young, index, dir, cancelled>>
vars == <<keyVars, sessions, runVars, closing, idle, failed, muted, stopped, req>>

Idle       == [pc |-> "idle", slate |-> None, run |-> None]
Again(s)   == [pc |-> "again", slate |-> s, run |-> None]
Wait(s, x) == [pc |-> "wait", slate |-> s, run |-> x]
Kill(s, x) == [pc |-> "kill", slate |-> s, run |-> x]

TypeOK ==
    /\ keys \subseteq Personal /\ idleKeys \subseteq keys
    /\ sessions \in [Slates -> Runs \cup {None}]
    /\ phase \in [Runs -> {"free", "live", "exited"}]
    /\ \A x \in {sessions[s] : s \in Slates} \ {None} : phase[x] # "free" /\ x \in dir
    /\ radio \subseteq Runs /\ young \subseteq Runs /\ cancelled \subseteq Runs
    /\ index \subseteq dir /\ dir \subseteq Runs /\ closing \subseteq Runs
    /\ idle \subseteq Slates /\ failed \subseteq Slates /\ muted \subseteq Slates
    /\ stopped \in BOOLEAN
    /\ req \in [Readers -> [pc : {"idle", "again", "wait", "kill"},
                            slate : Slates \cup {None}, run : Runs \cup {None}]]

Init ==
    /\ keys = {} /\ idleKeys = {}
    /\ sessions = [s \in Slates |-> None]
    /\ phase = [x \in Runs |-> "free"]
    /\ radio = {} /\ young = {} /\ index = {} /\ dir = {} /\ cancelled = {}
    /\ closing = {} /\ idle = {} /\ failed = {} /\ muted = {}
    /\ stopped = FALSE
    /\ req = [r \in Readers |-> Idle]

-----------------------------------------------------------------------------
(* Prepare: a viewer's cut-off gets a personal slate while there is room. *)
Prepare(k) ==
    /\ ~stopped
    /\ k \in keys \/ Cardinality(keys) < MaxPersonal
    /\ keys' = keys \cup {k}
    /\ idleKeys' = idleKeys \ {k}
    /\ UNCHANGED <<sessions, runVars, closing, idle, failed, muted, stopped, req>>

(* A reader in GetPath: a new request, for the playlist or for a segment,
   or the playlist request that starts over after its radio session ended. *)
Enters(r, s, what) ==
    /\ \/ req[r] = Idle
       \/ req[r] = Again(s) /\ what = "playlist"
    /\ ~stopped
    /\ s \in Generic \cup keys

(* Using a personal slate refreshes its descriptor, whatever comes of it. *)
UseKey(s) == idleKeys' = idleKeys \ {s} /\ UNCHANGED <<keys, closing, stopped>>

(* A segment's path is returned at once; a playlist is waited for. *)
Handed(r, s, x, what) ==
    req' = [req EXCEPT ![r] = IF what = "playlist" THEN Wait(s, x) ELSE Idle]

Returns(r) == req' = [req EXCEPT ![r] = Idle]

Refuse(r, s) ==
    /\ req[r] = Again(s)
    /\ stopped \/ s \notin Generic \cup keys
    /\ Returns(r)
    /\ UNCHANGED <<keyVars, sessions, runVars, closing, idle, failed, muted, stopped>>

Serve(r, s, what) ==
    /\ Enters(r, s, what)
    /\ sessions[s] # None /\ phase[sessions[s]] = "live"
    /\ idle' = idle \ {s}
    /\ Handed(r, s, sessions[s], what)
    /\ UseKey(s)
    /\ UNCHANGED <<sessions, runVars, failed, muted>>

(* The slate has no live session.  A dead one is forgotten first: a radio
   session is to restart at once, but silently; a short-lived one makes the
   slate back off.  FailedAfter and MutedAfter say what is left of that. *)
Dead(s) == IF sessions[s] = None THEN {} ELSE {sessions[s]} \cap {x \in Runs : phase[x] = "exited"}
Down(s) == sessions[s] = None \/ Dead(s) # {}

(* Mutant: a short-lived session does not make the slate back off. *)
FailedAfterForgotten(s) ==
    IF Dead(s) \cap radio # {} THEN failed \ {s} ELSE failed

FailedAfter(s) ==
    IF Dead(s) \cap radio # {} THEN failed \ {s}
    ELSE IF Dead(s) \cap young # {} THEN failed \cup {s}
    ELSE failed

MutedAfter(s) == IF Dead(s) \cap radio # {} THEN muted \cup {s} ELSE muted

SessionsAfter(s) == [sessions EXCEPT ![s] = None]

(* Mutant: one session too many. *)
RoomForOneMore(s) == Cardinality({t \in Slates \ {s} : sessions[t] # None}) <= MaxProcesses

Room(s) == Cardinality({t \in Slates \ {s} : sessions[t] # None}) < MaxProcesses

DropDir(X) == dir' = dir \ X /\ index' = index \ X

(* Mutant: the files of a dead session are removed, but it stays listed. *)
ForgetFilesOnly(s) ==
    /\ muted' = MutedAfter(s)
    /\ DropDir(Dead(s))
    /\ UseKey(s)
    /\ UNCHANGED <<sessions, phase, radio, young, cancelled>>

(* The dead session is gone and no other one takes its place. *)
Forget(s) ==
    /\ sessions' = SessionsAfter(s)
    /\ muted' = MutedAfter(s)
    /\ DropDir(Dead(s))
    /\ UseKey(s)
    /\ UNCHANGED <<phase, radio, young, cancelled>>

(* The slate backs off: no session, and an error. *)
Backoff(r, s, what) ==
    /\ Enters(r, s, what) /\ Down(s)
    /\ s \in FailedAfter(s)
    /\ Forget(s)
    /\ failed' = FailedAfter(s)
    /\ Returns(r)
    /\ UNCHANGED idle

(* At the cap, another slate is shown: a generic one, preferably of the same
   base.  Whether its encoder still runs is not looked at. *)
Candidates(s) ==
    LET generic == {t \in Generic \ {s} : sessions[t] # None}
        same    == {t \in generic : (t \in Temporary) = (s \in Temporary)}
    IN  IF same # {} THEN same ELSE generic

FallBack(r, s, what, t) ==
    /\ Enters(r, s, what) /\ Down(s)
    /\ s \notin FailedAfter(s)
    /\ ~Room(s) /\ t \in Candidates(s)
    /\ Forget(s)
    /\ failed' = FailedAfter(s)
    /\ idle' = idle \ {t}
    /\ Handed(r, s, sessions[t], what)

(* "slate session cap reached" *)
Full(r, s, what) ==
    /\ Enters(r, s, what) /\ Down(s)
    /\ s \notin FailedAfter(s)
    /\ ~Room(s) /\ Candidates(s) = {}
    /\ Forget(s)
    /\ failed' = FailedAfter(s)
    /\ Returns(r)
    /\ UNCHANGED idle

(* startLocked fails: no font, no asset, no ffmpeg. *)
StartFails(r, s, what) ==
    /\ Enters(r, s, what) /\ Down(s)
    /\ s \notin FailedAfter(s)
    /\ Room(s)
    /\ Forget(s)
    /\ failed' = FailedAfter(s) \cup {s}
    /\ Returns(r)
    /\ UNCHANGED idle

Start(r, s, what, x, withRadio) ==
    /\ Enters(r, s, what) /\ Down(s)
    /\ s \notin FailedAfter(s)
    /\ Room(s)
    /\ phase[x] = "free"
    /\ withRadio => s \notin MutedAfter(s)
    /\ sessions' = [sessions EXCEPT ![s] = x]
    /\ phase' = [phase EXCEPT ![x] = "live"]
    /\ radio' = IF withRadio THEN radio \cup {x} ELSE radio
    /\ young' = young \cup {x}
    /\ dir' = (dir \ Dead(s)) \cup {x}
    /\ index' = index \ Dead(s)
    /\ failed' = FailedAfter(s)
    /\ muted' = MutedAfter(s)
    /\ idle' = idle \ {s}
    /\ Handed(r, s, x, what)
    /\ UseKey(s)
    /\ UNCHANGED cancelled

-----------------------------------------------------------------------------
(* GetPath waits for the playlist, outside the lock. *)

WaitServed(r) ==
    /\ req[r].pc = "wait" /\ req[r].run \in index
    /\ Returns(r)
    /\ UNCHANGED <<keyVars, sessions, runVars, closing, idle, failed, muted, stopped>>

(* The encoder exited first: an error, but after a radio session GetPath
   calls itself. *)
WaitExited(r) ==
    /\ req[r].pc \in {"wait", "kill"}
    /\ phase[req[r].run] = "exited"
    /\ req[r].pc = "wait" => req[r].run \notin index
    /\ req' = [req EXCEPT ![r] = IF req[r].run \in radio THEN Again(req[r].slate) ELSE Idle]
    /\ UNCHANGED <<keyVars, sessions, runVars, closing, idle, failed, muted, stopped>>

(* Twelve seconds without a playlist: an error, but a radio session is
   killed first and GetPath calls itself. *)
WaitTimesOut(r) ==
    /\ req[r].pc = "wait" /\ req[r].run \notin index
    /\ IF req[r].run \in radio
       THEN /\ req' = [req EXCEPT ![r] = Kill(req[r].slate, req[r].run)]
            /\ cancelled' = cancelled \cup {req[r].run}
       ELSE Returns(r) /\ UNCHANGED cancelled
    /\ UNCHANGED <<keyVars, sessions, phase, radio, young, index, dir, closing, idle,
                   failed, muted, stopped>>

-----------------------------------------------------------------------------
(* The encoders. *)

WritePlaylist(x) ==
    /\ phase[x] = "live" /\ x \in dir \ index
    /\ index' = index \cup {x}
    /\ UNCHANGED <<keyVars, sessions, phase, radio, young, dir, cancelled, closing, idle,
                   failed, muted, stopped, req>>

Exit(x) ==
    /\ phase[x] = "live"
    /\ phase' = [phase EXCEPT ![x] = "exited"]
    /\ UNCHANGED <<keyVars, sessions, radio, young, index, dir, cancelled, closing, idle,
                   failed, muted, stopped, req>>

(* Nothing refers to the run any more: its name can stand for another. *)
Collect(x) ==
    /\ phase[x] = "exited"
    /\ x \notin dir \cup closing \cup {sessions[s] : s \in Slates}
    /\ \A r \in Readers : req[r].run # x
    /\ phase' = [phase EXCEPT ![x] = "free"]
    /\ radio' = radio \ {x} /\ young' = young \ {x} /\ cancelled' = cancelled \ {x}
    /\ UNCHANGED <<keyVars, sessions, index, dir, closing, idle, failed, muted, stopped, req>>

-----------------------------------------------------------------------------
(* Maintenance: the manager's ticker, and Close. *)

(* The processes of these slates are killed and have exited when the
   sessions are forgotten. *)
EndSessions(S) ==
    LET X == {sessions[s] : s \in S} \ {None} IN
    /\ phase' = [x \in Runs |-> IF x \in X THEN "exited" ELSE phase[x]]
    /\ cancelled' = cancelled \cup X
    /\ sessions' = [s \in Slates |-> IF s \in S THEN None ELSE sessions[s]]
    /\ idle' = idle \ S
    /\ DropDir(X)
    /\ UNCHANGED <<radio, young, closing, failed, muted, stopped, req>>

ReapIdle ==
    /\ idle \cup idleKeys # {}
    /\ EndSessions(idle)
    /\ keys' = keys \ idleKeys
    /\ idleKeys' = {}

(* The configured audio or text is not what these sessions started with. *)
RestartOnAudioChange(S) ==
    /\ S # {} /\ \A s \in S : sessions[s] # None
    /\ EndSessions(S)
    /\ UNCHANGED keyVars

(* Mutants: Close does not wait for the encoders to remove their files;
   Close does not kill them. *)
CloseForgetsRuns ==
    /\ ~stopped
    /\ stopped' = TRUE
    /\ cancelled' = cancelled \cup ({sessions[s] : s \in Slates} \ {None})
    /\ sessions' = [s \in Slates |-> None]
    /\ idle' = {}
    /\ UNCHANGED <<keyVars, phase, radio, young, index, dir, closing, failed, muted, req>>

CloseWithoutCancel ==
    /\ ~stopped
    /\ stopped' = TRUE
    /\ closing' = {sessions[s] : s \in Slates} \ {None}
    /\ sessions' = [s \in Slates |-> None]
    /\ idle' = {}
    /\ UNCHANGED <<keyVars, phase, radio, young, index, dir, cancelled, failed, muted, req>>

Close ==
    /\ ~stopped
    /\ stopped' = TRUE
    /\ closing' = {sessions[s] : s \in Slates} \ {None}
    /\ cancelled' = cancelled \cup closing'
    /\ sessions' = [s \in Slates |-> None]
    /\ idle' = {}
    /\ UNCHANGED <<keyVars, phase, radio, young, index, dir, failed, muted, req>>

CloseSweeps(x) ==
    /\ x \in closing /\ phase[x] = "exited"
    /\ closing' = closing \ {x}
    /\ DropDir({x})
    /\ UNCHANGED <<keyVars, sessions, phase, radio, young, cancelled, idle, failed, muted,
                   stopped, req>>

-----------------------------------------------------------------------------
(* Time passes.  GetPath uses the descriptor together with the session, so
   an idle descriptor's session is idle, too.  idleTime and the five minutes
   of a mute are longer than the twelve seconds of a request's wait. *)

Ripen(x) ==
    /\ x \in young /\ phase[x] # "free"
    /\ young' = young \ {x}
    /\ UNCHANGED <<keyVars, sessions, phase, radio, index, dir, cancelled, closing, idle,
                   failed, muted, stopped, req>>

BackoffOver(s) ==
    /\ s \in failed
    /\ failed' = failed \ {s}
    /\ UNCHANGED <<keyVars, sessions, runVars, closing, idle, muted, stopped, req>>

MuteOver(s) ==
    /\ s \in muted /\ \A r \in Readers : req[r].slate # s
    /\ muted' = muted \ {s}
    /\ UNCHANGED <<keyVars, sessions, runVars, closing, idle, failed, stopped, req>>

GoIdle(s) ==
    /\ sessions[s] # None /\ s \notin idle
    /\ \A r \in Readers : req[r].run # sessions[s]
    /\ idle' = idle \cup {s}
    /\ UNCHANGED <<keyVars, sessions, runVars, closing, failed, muted, stopped, req>>

KeyGoesIdle(k) ==
    /\ k \in keys \ idleKeys
    /\ sessions[k] = None \/ k \in idle
    /\ idleKeys' = idleKeys \cup {k}
    /\ UNCHANGED <<keys, sessions, runVars, closing, idle, failed, muted, stopped, req>>

-----------------------------------------------------------------------------
GetPath(r, s, what) ==
    \/ Serve(r, s, what) \/ Backoff(r, s, what) \/ Full(r, s, what)
    \/ StartFails(r, s, what)
    \/ \E t \in Generic : FallBack(r, s, what, t)
    \/ \E x \in Runs, withRadio \in BOOLEAN : Start(r, s, what, x, withRadio)

Kinds == {"playlist", "segment"}

Next ==
    \/ \E r \in Readers :
          \/ \E s \in Slates : Refuse(r, s) \/ \E what \in Kinds : GetPath(r, s, what)
          \/ WaitServed(r) \/ WaitExited(r) \/ WaitTimesOut(r)
    \/ \E x \in Runs : WritePlaylist(x) \/ Exit(x) \/ Collect(x) \/ CloseSweeps(x) \/ Ripen(x)
    \/ \E s \in Slates : BackoffOver(s) \/ MuteOver(s) \/ GoIdle(s)
    \/ \E k \in Personal : Prepare(k) \/ KeyGoesIdle(k)
    \/ ReapIdle
    \/ \E S \in SUBSET Slates : RestartOnAudioChange(S)
    \/ Close

Spec == Init /\ [][Next]_vars

(* A request goes on by itself: it starts over at once, and its wait ends by
   its deadline.  A killed process exits; Close goes on to its end; the
   ticker keeps firing and backoffs end.  Nobody has to make a request. *)
Fairness ==
    /\ \A r \in Readers :
          /\ WF_vars(WaitServed(r) \/ WaitExited(r) \/ WaitTimesOut(r))
          /\ WF_vars(req[r].pc = "again"
                     /\ \E s \in Slates : Refuse(r, s) \/ GetPath(r, s, "playlist"))
    /\ \A x \in Runs : WF_vars(x \in cancelled /\ Exit(x)) /\ WF_vars(CloseSweeps(x))
                       /\ WF_vars(Collect(x))
    /\ \A s \in Slates : WF_vars(BackoffOver(s))
    /\ WF_vars(ReapIdle)

FairSpec == Spec /\ Fairness

-----------------------------------------------------------------------------
Live       == {x \in Runs : phase[x] = "live"}
Registered == {sessions[s] : s \in Slates} \ {None}

(* The memory budget: at no moment do more than maxProcesses encoders run,
   not even while sessions are replaced, reaped, restarted for new audio or
   closed (slate.go:33-35, 232, 448, 493). *)
ProcessCap == Cardinality(Live) <= MaxProcesses

(* A running encoder is a slate's session or Close waits for it, no two
   slates share one, and a directory stays until its encoder is gone and no
   longer than its session (slate.go:222, 440-451, 506-516). *)
NothingLeaks ==
    /\ Live \cup dir \subseteq Registered \cup closing
    /\ Live \subseteq dir
    /\ \A s, t \in Slates : sessions[s] = sessions[t] /\ sessions[s] # None => s = t

(* Requests cannot respawn a broken encoder in a loop: a slate whose silent
   encoder died young is not started again before its backoff is over, and
   one whose radio session ended is started without the radio until the
   mute is over (slate.go:213-219, 228-231, 258). *)
RestartsPaced ==
    [][\A s \in Slates :
         LET x == sessions'[s] IN
         x # None /\ x # sessions[s] =>
            /\ s \notin failed \/ Dead(s) \cap radio # {}
            /\ Dead(s) \cap young \subseteq radio
            /\ x \in radio' => s \notin muted /\ Dead(s) \cap radio = {}]_vars

(* After Close all encoders end and all directories go (slate.go:498-517). *)
CloseDrains == stopped ~> [](Live = {} /\ dir = {})

(* "A failed radio session restarts promptly with silence"
   (ARCHITECTURE.md:460-461): a request that meets one gets an answer, if
   the audio settings are not changed again and again. *)
RadioFailureAnswered ==
    <>[][\A S \in SUBSET Slates : ~RestartOnAudioChange(S)]_vars =>
       \A r \in Readers : req[r].pc = "again" ~> req[r].pc = "idle"
=============================================================================
