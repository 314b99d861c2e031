------------------------------ MODULE RemuxPool ------------------------------
(***************************************************************************)
(* What the remux manager promises the rest of the gateway, without        *)
(* directories, contexts or goroutines: at most Slots sources are open at  *)
(* any moment, each stream is served by at most one session, a session     *)
(* becomes a stream's session only while it holds a slot and no other      *)
(* session serves the stream, and nothing is served after the end.         *)
(* Remux implements it with the mapping at the end of that module.         *)
(***************************************************************************)
EXTENDS Naturals, FiniteSets

CONSTANTS Streams, Jobs, Slots, None

VARIABLES
    tickets,    \* jobs that hold a slot
    serving,    \* the session that serves a stream
    over        \* the manager is closed

vars == <<tickets, serving, over>>

Init ==
    /\ tickets = {}
    /\ serving = [st \in Streams |-> None]
    /\ over = FALSE

(* A stream's session is withdrawn. *)
Without(S) == [st \in Streams |-> IF serving[st] \in S THEN None ELSE serving[st]]

(* A new attempt takes a slot, possibly replacing the stream's session. *)
Take(j, S) ==
    /\ ~over
    /\ j \notin tickets
    /\ Cardinality(tickets) < Slots
    /\ tickets' = tickets \cup {j}
    /\ serving' = Without(S)
    /\ UNCHANGED over

Serve(st, j) ==
    /\ ~over
    /\ j \in tickets
    /\ serving[st] = None
    /\ serving' = [serving EXCEPT ![st] = j]
    /\ UNCHANGED <<tickets, over>>

(* Slots come back one at a time, in any order, also from sessions that
   still serve their finished playlist. *)
Give(j) ==
    /\ j \in tickets
    /\ tickets' = tickets \ {j}
    /\ UNCHANGED <<serving, over>>

Withdraw(S) ==
    /\ serving' = Without(S)
    /\ UNCHANGED <<tickets, over>>

End ==
    /\ ~over
    /\ over' = TRUE
    /\ serving' = [st \in Streams |-> None]
    /\ UNCHANGED tickets

Next ==
    \/ \E j \in Jobs, S \in SUBSET Jobs : Take(j, S)
    \/ \E st \in Streams, j \in Jobs : Serve(st, j)
    \/ \E j \in Jobs : Give(j)
    \/ \E S \in SUBSET Jobs : Withdraw(S)
    \/ End

Spec == Init /\ [][Next]_vars
=============================================================================
