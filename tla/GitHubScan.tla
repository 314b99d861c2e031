----------------------------- MODULE GitHubScan -----------------------------
(***************************************************************************)
(* One leak scan's searches: leakcheck/scanner.go (Run, searchAndRecord)   *)
(* over the rate-limit pacing of leakcheck/github.go (do, waitForReset,    *)
(* doOnce).                                                                *)
(*                                                                         *)
(* GitHub answers Limit searches per bucket and window, whoever sends them *)
(* with the scan's token, and then refuses until the window resets.  An    *)
(* answer carries what is left and when the window resets; it may lack     *)
(* both, and it may not come.  Times are ticks relative to now: a window's *)
(* end, a remembered reset, a timer and the deadline all count down.       *)
(*                                                                         *)
(* Left out: what a search finds (Incidents), the queries' texts, a token  *)
(* without pacing (MaxRateWait = 0, which the program never sets) and      *)
(* database errors.                                                        *)
(***************************************************************************)
EXTENDS Integers, Sequences

CONSTANTS
    Buckets,
    Plan,         \* the buckets of the scan's searches, in order
    PerPoint,     \* searches per access point: code, issues, PRs; again per source
    Limit, Window,\* GitHub's limit and window
    Skew,         \* how early a reset may be announced: rounding, clocks
    Margin,       \* the second added to the reset
    DefaultWait,  \* the wait without a reset, 60 s
    MaxRateWait, HttpTimeout, RunDeadline,
    Unset         \* the zero time.Time

ASSUME PlanAssumption == Plan \in Seq(Buckets) /\ Len(Plan) > 0 /\ PerPoint \in Nat \ {0}
ASSUME ServerAssumption == Limit \in Nat \ {0} /\ Window \in Nat \ {0} /\ Skew \in 0..Margin
ASSUME ClientAssumption ==
    /\ Margin \in Nat /\ DefaultWait \in Nat /\ MaxRateWait \in Nat \ {0}
    /\ HttpTimeout \in Nat /\ RunDeadline \in Nat
    /\ Window <= DefaultWait /\ Unset \notin Int

VARIABLES
    left, ends,   \* GitHub: searches left, ticks to the reset (0: no window is open)
    shared,       \* somebody else used the bucket since the scan's last search in it
    limits,       \* Client.limits
    k,            \* the search the scan is at
    call,         \* where do() is: place, timer, whether it is the retry
    reply,        \* the answer under way
    budget,       \* ticks to the deadline
    failed, answered, result

server == <<left, ends, shared>>
scan   == <<k, failed, answered, result>>
searchVars == <<server, limits, scan, call, reply, budget>>

Bucket == Plan[k]
NoReply == [kind |-> "none", left |-> 0, in |-> Unset]

(* RateLimit: an answer without headers has the zero value, which counts as
   exhausted.  No entry is like one with something left. *)
Zero == [left |-> 0, in |-> Unset]
Ins     == (-Margin)..Window \cup {Unset}
Rates   == [left : 0..Limit, in : Ins]
Replies == [kind : {"none", "ok", "error", "refused"}, left : 0..Limit, in : Ins]
Calls   == [at : {"next", "wait", "sent", "end"}, timer : Nat, retry : BOOLEAN]

Later(r) == IF r.in = Unset \/ r.in = -Margin THEN r ELSE [r EXCEPT !.in = @ - 1]

SearchTypeOK ==
    /\ left \in [Buckets -> 0..Limit] /\ ends \in [Buckets -> 0..Window]
    /\ shared \in [Buckets -> BOOLEAN] /\ limits \in [Buckets -> Rates]
    /\ k \in 1..Len(Plan) /\ answered \in Nat /\ failed \in BOOLEAN
    /\ result \in {"none", "complete", "partial", "limited", "deadline"}
    /\ call \in Calls /\ reply \in Replies
    /\ budget \in 0..RunDeadline

(* A scan may start with what earlier ones left of the deadline.  Each has a
   client of its own, which remembers nothing: the searches of earlier scans are
   somebody else's to it (Share). *)
SearchInit ==
    /\ left = [b \in Buckets |-> Limit] /\ ends = [b \in Buckets |-> 0]
    /\ shared = [b \in Buckets |-> FALSE]
    /\ limits = [b \in Buckets |-> [left |-> Limit, in |-> Unset]]
    /\ k = 1 /\ failed = FALSE /\ answered = 0 /\ result = "none"
    /\ call = [at |-> "next", timer |-> 0, retry |-> FALSE]
    /\ reply = NoReply
    /\ budget \in 0..RunDeadline

-----------------------------------------------------------------------------
Goes(at, timer, retry) == call' = [at |-> at, timer |-> timer, retry |-> retry]
Finishes(r) == Goes("end", 0, FALSE) /\ result' = r

(* The next search, or the end of Run with its summary. *)
Advance ==
    IF k < Len(Plan)
    THEN Goes("next", 0, FALSE) /\ k' = k + 1 /\ UNCHANGED result
    ELSE Finishes(IF failed' THEN "partial" ELSE "complete") /\ UNCHANGED k

(* waitForReset, then doOnce.  Variant: without the second's margin. *)
HastyWait(r) == IF r.in = Unset THEN DefaultWait ELSE r.in
WaitFor(r) == IF r.in = Unset THEN DefaultWait ELSE r.in + Margin

Pace(r, retry) ==
    IF WaitFor(r) > MaxRateWait THEN Finishes("limited")
    ELSE /\ IF WaitFor(r) <= 0 THEN Goes("sent", HttpTimeout, retry)
            ELSE Goes("wait", WaitFor(r), retry)
         /\ UNCHANGED result

(* Run looks at the deadline before each access point; do() waits only when the
   last answer left nothing. *)
Search ==
    /\ call.at = "next"
    /\ IF (k - 1) % PerPoint = 0 /\ budget = 0 THEN Finishes("deadline")
       ELSE IF limits[Bucket].left = 0 THEN Pace(limits[Bucket], FALSE)
       ELSE Goes("sent", HttpTimeout, FALSE) /\ UNCHANGED result
    /\ UNCHANGED <<server, limits, k, failed, answered, reply, budget>>

Wake ==
    /\ call.at = "wait" /\ call.timer = 0
    /\ Goes("sent", HttpTimeout, call.retry)
    /\ UNCHANGED <<server, limits, scan, reply, budget>>

(* The deadline ends a wait. *)
Cancel ==
    /\ call.at = "wait" /\ budget = 0
    /\ Finishes("limited")
    /\ UNCHANGED <<server, limits, k, failed, answered, reply, budget>>

(* An individual failure is tallied.  Variant: only logged. *)
LogFailure == UNCHANGED failed
TallyFailure == failed' = TRUE

(* do() after an answer: one retry, then the answer's limits are remembered. *)
Retried == reply.kind = "refused" /\ ~call.retry

Receive ==
    /\ call.at = "sent" /\ reply.kind # "none"
    /\ reply' = NoReply
    /\ IF Retried
       THEN /\ Pace(reply, TRUE)
            /\ UNCHANGED <<limits, k, failed, answered>>
       ELSE /\ limits' = [limits EXCEPT ![Bucket] = [left |-> reply.left, in |-> reply.in]]
            /\ CASE reply.kind = "refused" -> Finishes("limited") /\ UNCHANGED <<k, failed, answered>>
                 [] reply.kind = "error" -> TallyFailure /\ Advance /\ UNCHANGED answered
                 [] reply.kind = "ok" -> answered' = answered + 1 /\ UNCHANGED failed /\ Advance
    /\ UNCHANGED <<server, budget>>

(* No answer: an error, the client's timeout or the deadline; the zero
   RateLimit is remembered.  Should GitHub get such a search later, it counts as
   somebody else's. *)
Break ==
    /\ call.at = "sent"
    /\ reply' = NoReply
    /\ limits' = [limits EXCEPT ![Bucket] = Zero]
    /\ TallyFailure /\ Advance
    /\ UNCHANGED <<server, answered, budget>>

-----------------------------------------------------------------------------
(* GitHub.  The first search of a window opens it. *)
Use(b) ==
    /\ left' = [left EXCEPT ![b] = @ - 1]
    /\ ends' = IF ends[b] = 0 THEN [ends EXCEPT ![b] = Window] ELSE ends

Answer(kind, l, in) == reply' = [kind |-> kind, left |-> l, in |-> in]

Serve ==
    /\ call.at = "sent" /\ reply.kind = "none"
    /\ shared' = [shared EXCEPT ![Bucket] = FALSE]
    /\ IF left[Bucket] > 0 THEN Use(Bucket) ELSE UNCHANGED <<left, ends>>
    /\ \/ \E early \in 0..Skew, kind \in {"ok", "error"} :
             left[Bucket] > 0 /\ Answer(kind, left'[Bucket], ends'[Bucket] - early)
       \/ \E early \in 0..Skew :
             left[Bucket] = 0 /\ Answer("refused", 0, ends[Bucket] - early)
       \/ \E kind \in {"ok", "error", "refused"} : Answer(kind, 0, Unset)
    /\ UNCHANGED <<limits, scan, call, budget>>

Share(b) ==
    /\ call.at # "end" /\ left[b] > 0
    /\ Use(b)
    /\ shared' = [shared EXCEPT ![b] = TRUE]
    /\ UNCHANGED <<limits, scan, call, reply, budget>>

(* Time passes while the scan waits for a timer, the deadline or an answer. *)
Due ==
    \/ call.at \in {"next", "end"}
    \/ call.timer = 0 \/ budget = 0

SearchTick ==
    /\ ~Due
    /\ ends' = [b \in Buckets |-> IF ends[b] = 0 THEN 0 ELSE ends[b] - 1]
    /\ left' = [b \in Buckets |-> IF ends[b] <= 1 THEN Limit ELSE left[b]]
    /\ limits' = [b \in Buckets |-> Later(limits[b])]
    /\ reply' = Later(reply)
    /\ call' = [call EXCEPT !.timer = @ - 1]
    /\ budget' = budget - 1
    /\ UNCHANGED <<shared, scan>>

Ended == call.at = "end" /\ UNCHANGED searchVars

SearchNext ==
    \/ Search \/ Wake \/ Cancel \/ Receive \/ Break
    \/ Serve \/ (\E b \in Buckets : Share(b)) \/ SearchTick \/ Ended

SearchSpec == SearchInit /\ [][SearchNext]_searchVars

-----------------------------------------------------------------------------
(* The pacing suffices: whatever was lost or announced early, GitHub refuses a
   search for its rate only if somebody else used the bucket since the scan's
   last search in it (github.go:82). *)
RefusedOnlyIfShared ==
    [][reply.kind = "none" /\ reply'.kind = "refused" /\ reply'.in # Unset => shared[Bucket]]_searchVars

(* A run is recorded as a clean success only if every search of the plan was
   answered (scanner.go:30). *)
HonestResult == result = "complete" => answered = Len(Plan)
=============================================================================
