------------------------------ MODULE LeakScan ------------------------------
(***************************************************************************)
(* Scheduling of the leak checker (cmd/leakchecker/main.go and the lock,   *)
(* schedule and request statements of internal/leakcheck/store.go).  Every *)
(* timer tick, or an operator by hand, runs the one-shot program: it looks *)
(* whether a scan is due, takes the lock row, scans globally, then once    *)
(* for every account, and deletes the lock row.                            *)
(*                                                                         *)
(* One step per SQL statement; what a scan searches and records is not     *)
(* looked at here.  Time: the lock is "stale" after lockStaleAfter, an     *)
(* owner is "recent" until minInterval after its last run, a process is    *)
(* "late" once its ten minutes are over.  Clicks on "Scan now" are         *)
(* numbered, so that a request's timestamp is the number of its click.     *)
(* The set of active accounts does not change.                             *)
(***************************************************************************)
EXTENDS Naturals, FiniteSets

CONSTANTS
    Procs,      \* invocations of the program that may overlap
    Accounts,   \* ids of active user accounts with a GitHub token
    Global,     \* the owner of the global scan
    Stamps,     \* acquired_at values of the lock row
    Slow,       \* posting notices may outlast the deadline by five minutes
    MaxClicks,  \* bound on "Scan now"
    MaxFaults,  \* bound on crashes and failing statements
    None

Owners == {Global} \cup Accounts

ASSUME AccountsAssumption == Accounts \subseteq Nat /\ IsFiniteSet(Accounts) /\ Global \notin Accounts
ASSUME StampsAssumption   == Stamps \subseteq Nat /\ None \notin Stamps \cup Owners
ASSUME BoundsAssumption   == MaxClicks \in Nat /\ MaxFaults \in Nat /\ Slow \in BOOLEAN

VARIABLES
    lock,       \* leak_checker_lock: acquired_at of its row
    stale,      \* the row is older than lockStaleAfter
    request,    \* leak_scan_requested_at of an owner, 0 when there is none
    recent,     \* owners whose last run started less than minInterval ago
    ready,      \* base URL and tokens are configured
    clicks, faults,
    pc,         \* where a process is
    due,        \* processes that found the global scan due
    seen,       \* the requests a process read
    found,      \* the stale acquired_at a process read
    late,       \* processes whose context has expired
    scope,      \* the owner a process scans for
    began,      \* clicks when a process's current run started
    asked,      \* processes whose current run had time for a search
    todo        \* accounts a process has not visited yet

dbVars   == <<lock, stale, request, recent>>
envVars  == <<ready, clicks, faults>>
procVars == <<pc, due, seen, found, late, scope, began, asked, todo>>
vars     == <<dbVars, envVars, procVars>>

Before   == {"request", "last", "users", "insert", "select", "reinsert", "steal"}
Critical == {"locked", "scan", "clear", "accounts", "next", "start", "release"}
Locked   == {p \in Procs : pc[p] \in Critical}

Unseen == [o \in Owners |-> 0]

TypeOK ==
    /\ lock \in Stamps \cup {None} /\ stale \in BOOLEAN
    /\ request \in [Owners -> Nat] /\ recent \subseteq Owners
    /\ ready \in BOOLEAN /\ clicks \in Nat /\ faults \in Nat
    /\ pc \in [Procs -> {"off"} \cup Before \cup Critical]
    /\ due \subseteq Procs /\ late \subseteq Procs /\ asked \subseteq Procs
    /\ seen \in [Procs -> [Owners -> Nat]]
    /\ found \in [Procs -> Stamps \cup {None}]
    /\ scope \in [Procs -> Owners \cup {None}]
    /\ \A p \in Procs : pc[p] \in {"scan", "clear", "start"} => scope[p] \in Owners
    /\ began \in [Procs -> Nat]
    /\ todo \in [Procs -> SUBSET Accounts]

Init ==
    /\ lock = None /\ stale = FALSE
    /\ request = Unseen /\ recent = {}
    /\ ready \in BOOLEAN /\ clicks = 0 /\ faults = 0
    /\ pc = [p \in Procs |-> "off"]
    /\ due = {} /\ late = {} /\ asked = {}
    /\ seen = [p \in Procs |-> Unseen]
    /\ found = [p \in Procs |-> None]
    /\ scope = [p \in Procs |-> None]
    /\ began = [p \in Procs |-> 0]
    /\ todo = [p \in Procs |-> {}]

-----------------------------------------------------------------------------
Goto(p, l) == pc' = [pc EXCEPT ![p] = l]

(* The process goes on and remembers nothing new. *)
Moves(p, l) == Goto(p, l) /\ UNCHANGED <<due, seen, found, late, scope, began, asked, todo>>

(* The process ends; what it knew is gone. *)
Ends(p) ==
    /\ Goto(p, "off")
    /\ due' = due \ {p} /\ late' = late \ {p} /\ asked' = asked \ {p}
    /\ seen' = [seen EXCEPT ![p] = Unseen]
    /\ found' = [found EXCEPT ![p] = None]
    /\ scope' = [scope EXCEPT ![p] = None]
    /\ began' = [began EXCEPT ![p] = 0]
    /\ todo' = [todo EXCEPT ![p] = {}]

(* A tick of the timer, or an invocation by hand. *)
Tick(p) ==
    /\ pc[p] = "off"
    /\ Moves(p, "request")
    /\ UNCHANGED <<dbVars, envVars>>

(* ShouldRun, first statement: a pending request decides. *)
ReadRequest(p) ==
    /\ pc[p] = "request"
    /\ seen' = [seen EXCEPT ![p][Global] = request[Global]]
    /\ due' = IF request[Global] # 0 THEN due \cup {p} ELSE due
    /\ Goto(p, IF request[Global] # 0 THEN "users" ELSE "last")
    /\ UNCHANGED <<dbVars, envVars, found, late, scope, began, asked, todo>>

(* ShouldRun, second statement: otherwise the last run does. *)
ReadLastRun(p) ==
    /\ pc[p] = "last"
    /\ due' = IF Global \in recent THEN due ELSE due \cup {p}
    /\ Goto(p, "users")
    /\ UNCHANGED <<dbVars, envVars, seen, found, late, scope, began, asked, todo>>

AnyUserScanDue == \E a \in Accounts : request[a] # 0 \/ a \notin recent

ReadUsers(p) ==
    /\ pc[p] = "users"
    /\ IF p \in due \/ AnyUserScanDue
       THEN Moves(p, "insert")
       ELSE Ends(p)
    /\ UNCHANGED <<dbVars, envVars>>

-----------------------------------------------------------------------------
(* AcquireLock.  Its timestamps are all different: a new one is one that is
   neither in the row nor remembered by a process. *)
Unused == {t \in Stamps : t # lock /\ \A p \in Procs : found[p] # t}

Acquires(p) ==
    /\ \E t \in Unused : lock' = t /\ \A u \in Unused : t <= u
    /\ stale' = FALSE
    /\ Goto(p, "locked")
    /\ found' = [found EXCEPT ![p] = None]
    /\ UNCHANGED <<request, recent, envVars, due, seen, late, scope, began, asked, todo>>

(* INSERT, and the second INSERT after the row was gone again. *)
Insert(p) ==
    /\ pc[p] \in {"insert", "reinsert"} /\ lock = None
    /\ Acquires(p)

InsertFails(p) ==
    /\ pc[p] \in {"insert", "reinsert"} /\ lock # None
    /\ IF pc[p] = "insert"
       THEN Moves(p, "select")
       ELSE Ends(p)
    /\ UNCHANGED <<dbVars, envVars>>

(* As Select, but a row is honoured however old it is. *)
SelectHonoursAnyAge(p) ==
    /\ pc[p] = "select"
    /\ \/ lock # None /\ Ends(p)
       \/ /\ lock = None
          /\ Moves(p, "reinsert")
    /\ UNCHANGED <<dbVars, envVars>>

(* SELECT acquired_at: gone, stale, or held by a running scan. *)
Select(p) ==
    /\ pc[p] = "select"
    /\ \/ lock # None /\ ~stale /\ Ends(p)
       \/ /\ lock = None \/ stale
          /\ found' = [found EXCEPT ![p] = lock]
          /\ Goto(p, IF lock = None THEN "reinsert" ELSE "steal")
          /\ UNCHANGED <<due, seen, late, scope, began, asked, todo>>
    /\ UNCHANGED <<dbVars, envVars>>

(* As Steal without "AND acquired_at = ?": whoever saw a stale row takes it. *)
StealBlindly(p) ==
    /\ pc[p] = "steal"
    /\ \/ lock # None /\ Acquires(p)
       \/ lock = None /\ Ends(p) /\ UNCHANGED <<dbVars, envVars>>

(* UPDATE ... WHERE acquired_at = ?: only one of several takes it over. *)
Steal(p) ==
    /\ pc[p] = "steal"
    /\ \/ lock = found[p] /\ Acquires(p)
       \/ lock # found[p] /\ Ends(p) /\ UNCHANGED <<dbVars, envVars>>

(* ReleaseLock deletes the row, whoever has written it. *)
Release(p) ==
    /\ pc[p] = "release"
    /\ lock' = None /\ stale' = FALSE
    /\ Ends(p)
    /\ UNCHANGED <<request, recent, envVars>>

-----------------------------------------------------------------------------
Fault == faults < MaxFaults /\ faults' = faults + 1

(* StartRunForOwner: the run is on record.  Without configuration it is
   finished with an error at once, and its request stays. *)
StartRun(p, o, otherwise) ==
    /\ recent' = recent \cup {o}
    /\ began' = [began EXCEPT ![p] = clicks]
    /\ scope' = [scope EXCEPT ![p] = o]
    /\ asked' = IF p \in late THEN asked \ {p} ELSE asked \cup {p}
    /\ Goto(p, IF ready THEN "scan" ELSE otherwise)
    /\ UNCHANGED <<lock, stale, request, envVars, due, seen, found, late, todo>>

(* The run cannot be recorded: no scan. *)
StartRunFails(p, otherwise) ==
    /\ Fault
    /\ Moves(p, otherwise)
    /\ UNCHANGED <<dbVars, ready, clicks>>

StartGlobal(p) ==
    /\ pc[p] = "locked"
    /\ \/ p \in due /\ (StartRun(p, Global, "accounts") \/ StartRunFails(p, "accounts"))
       \/ /\ p \notin due
          /\ Moves(p, "accounts")
          /\ UNCHANGED <<dbVars, envVars>>

(* Scanner.Run returns: done, partial, rate limited or out of time. *)
EndScan(p) ==
    /\ pc[p] = "scan"
    /\ Moves(p, "clear")
    /\ UNCHANGED <<dbVars, envVars>>

AfterClear(p) == Moves(p, IF scope[p] = Global THEN "accounts" ELSE "next")

(* As Clear without "AND value = ?": the flag goes, whatever it says now. *)
ClearBlindly(p) ==
    /\ pc[p] = "clear"
    /\ request' = IF seen[p][scope[p]] # 0 THEN [request EXCEPT ![scope[p]] = 0] ELSE request
    /\ AfterClear(p)
    /\ UNCHANGED <<lock, stale, recent, envVars>>

(* ClearScanRequestIfUnchanged and ClearUserRequestIfUnchanged. *)
Clear(p) ==
    /\ pc[p] = "clear"
    /\ LET o == scope[p]
           served == seen[p][o] # 0 /\ seen[p][o] = request[o] IN
         \/ request' = (IF served THEN [request EXCEPT ![o] = 0] ELSE request) /\ UNCHANGED faults
         \/ served /\ Fault /\ UNCHANGED request
    /\ AfterClear(p)
    /\ UNCHANGED <<lock, stale, recent, ready, clicks>>

(* UserScanAccounts reads the accounts and their requests at once. *)
LoadAccounts(p) ==
    /\ pc[p] = "accounts"
    /\ \/ /\ seen' = [seen EXCEPT ![p] = [a \in Owners |-> IF a = Global THEN 0 ELSE request[a]]]
          /\ todo' = [todo EXCEPT ![p] = Accounts]
          /\ Goto(p, "next") /\ UNCHANGED faults
       \/ Fault /\ Goto(p, "release") /\ UNCHANGED <<seen, todo>>
    /\ UNCHANGED <<dbVars, ready, clicks, due, found, late, scope, began, asked>>

(* As UserDue, trusting that some account was due before the lock. *)
UserDueUnasked(p, a) == pc[p] = "next"

(* UserShouldRun, account by account in the order of their ids. *)
UserDue(p, a) == seen[p][a] # 0 \/ a \notin recent

NextAccount(p) ==
    /\ pc[p] = "next"
    /\ \/ todo[p] = {} /\ Goto(p, "release") /\ UNCHANGED <<scope, todo>>
       \/ \E a \in todo[p] :
             /\ \A b \in todo[p] : a <= b
             /\ todo' = [todo EXCEPT ![p] = @ \ {a}]
             /\ IF UserDue(p, a)
                THEN scope' = [scope EXCEPT ![p] = a] /\ Goto(p, "start")
                ELSE UNCHANGED <<scope, pc>>
    /\ UNCHANGED <<dbVars, envVars, due, seen, found, late, began, asked>>

StartUser(p) ==
    /\ pc[p] = "start"
    /\ StartRun(p, scope[p], "next") \/ StartRunFails(p, "next")

-----------------------------------------------------------------------------
(* Killed, or log.Fatalf before the lock is taken; a row stays behind. *)
Crash(p) ==
    /\ pc[p] # "off"
    /\ Fault
    /\ Ends(p)
    /\ UNCHANGED <<dbVars, ready, clicks>>

(* The ten minutes of main's context are over, for all its scans: only
   scanning takes that long. *)
Deadline(p) ==
    /\ pc[p] = "scan" /\ p \notin late
    /\ late' = late \cup {p}
    /\ UNCHANGED <<dbVars, envVars, pc, due, seen, found, scope, began, asked, todo>>

(* Fifteen minutes: a process that holds the lock and stops at its deadline
   has released it by then; one that still posts notices has not. *)
LockAges ==
    /\ lock # None /\ ~stale
    /\ IF Slow THEN Locked \subseteq late ELSE Locked = {}
    /\ stale' = TRUE
    /\ UNCHANGED <<lock, request, recent, envVars, procVars>>

IntervalOver(o) ==
    /\ o \in recent
    /\ recent' = recent \ {o}
    /\ UNCHANGED <<lock, stale, request, envVars, procVars>>

(* "Scan now" in settings.php and my_account.php. *)
Click(o) ==
    /\ ready /\ clicks < MaxClicks
    /\ clicks' = clicks + 1
    /\ request' = [request EXCEPT ![o] = clicks + 1]
    /\ UNCHANGED <<lock, stale, recent, ready, faults, procVars>>

Configure ==
    /\ ready' = ~ready
    /\ UNCHANGED <<dbVars, clicks, faults, procVars>>

Schedule(p) == ReadRequest(p) \/ ReadLastRun(p) \/ ReadUsers(p)
AcquireLock(p) == Insert(p) \/ InsertFails(p) \/ Select(p) \/ Steal(p)
Scan(p) ==
    \/ StartGlobal(p) \/ EndScan(p) \/ Clear(p)
    \/ LoadAccounts(p) \/ NextAccount(p) \/ StartUser(p) \/ Release(p)

Next ==
    \/ \E p \in Procs : Tick(p) \/ Schedule(p) \/ AcquireLock(p) \/ Scan(p)
    \/ \E p \in Procs : Crash(p) \/ Deadline(p)
    \/ \E o \in Owners : IntervalOver(o) \/ Click(o)
    \/ LockAges \/ Configure

Spec == Init /\ [][Next]_vars

(* The timer fires, a process that runs goes on, locks get old. *)
Fairness ==
    /\ \A p \in Procs : WF_vars(Tick(p)) /\ WF_vars(Schedule(p) \/ AcquireLock(p) \/ Scan(p))
    /\ WF_vars(LockAges)

FairSpec == Spec /\ Fairness

-----------------------------------------------------------------------------
(* "Two scans must not run at once" (ARCHITECTURE.md:389), through crashes,
   stale locks and several processes that want to take one over at the same
   time (store.go:225-259), if no scan outlives its deadline by five
   minutes (store.go:216-219). *)
OneScanAtATime == Cardinality(Locked) <= 1

(* "A pending request landing mid-scan must not be lost"
   (ARCHITECTURE.md:383): a request goes away only after a run of its owner
   that was started when it was already there (store.go:83-92, 187-190). *)
RequestKept ==
    [][\A o \in Owners : request[o] # 0 /\ request'[o] = 0 =>
          \E p \in Procs : pc[p] = "clear" /\ scope[p] = o /\ began[p] >= request[o]]_vars

(* An account is only scanned when its interval is over or a request waits
   for it, whatever other processes did since the tick (main.go:145-153). *)
AccountsScannedWhenDue ==
    [][\A a \in Accounts : (\E p \in Procs : StartUser(p) /\ scope[p] = a) =>
          a \notin recent \/ request[a] # 0]_vars

(* Every request is served in the end, also when a process died with the
   lock: unless faults or misconfiguration go on for ever (store.go:216-259,
   main.go:116-175). *)
RequestsServed ==
    <>[]ready => \A o \in Owners : request[o] # 0 ~> request[o] = 0

(* "A pending request landing mid-scan must not be lost" in a stronger sense:
   the run that clears an account's request has asked GitHub something.  It
   does not hold: a global scan that uses up the deadline leaves the
   account's run none of it (main.go:114, 166). *)
RequestSearchedFor ==
    [][\A a \in Accounts : request[a] # 0 /\ request'[a] = 0 =>
          \E p \in Procs : scope[p] = a /\ p \in asked]_vars
=============================================================================
