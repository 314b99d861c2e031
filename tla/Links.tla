-------------------------------- MODULE Links --------------------------------
(***************************************************************************)
(* What the gateway promises about links.  A link is live, dead (revoked,  *)
(* expired or disabled: its viewers get a replacement) or unknown (404).   *)
(* A request is answered by a state its link was in while the request ran, *)
(* never by an older one: a link revoked before a request came is dead to  *)
(* it, for entries and for segments alike.                                 *)
(***************************************************************************)
CONSTANTS Keys, Requests, None

VARIABLES
    link,   \* the state of every link
    key,    \* what a request asks for, until it is decided
    could,  \* the states that link has had since it came
    told    \* the decision

vars == <<link, key, could, told>>

Verdicts == {"live", "dead", "unknown"}

Init ==
    /\ link \in [Keys -> Verdicts]
    /\ key = [q \in Requests |-> None]
    /\ could = [q \in Requests |-> {}]
    /\ told = [q \in Requests |-> "nothing"]

(* The database changes, and with it any number of links. *)
Change ==
    /\ link' \in [Keys -> Verdicts]
    /\ could' = [q \in Requests |->
          IF key[q] # None THEN could[q] \cup {link'[key[q]]} ELSE could[q]]
    /\ UNCHANGED <<key, told>>

Ask(q) ==
    /\ key[q] = None
    /\ \E k \in Keys :
          /\ key' = [key EXCEPT ![q] = k]
          /\ could' = [could EXCEPT ![q] = {link[k]}]
    /\ told' = [told EXCEPT ![q] = "nothing"]
    /\ UNCHANGED link

Answer(q) ==
    /\ key[q] # None
    /\ \E v \in could[q] : told' = [told EXCEPT ![q] = v]
    /\ key' = [key EXCEPT ![q] = None]
    /\ could' = [could EXCEPT ![q] = {}]
    /\ UNCHANGED link

(* The gateway restarts and forgets its requests. *)
Restart ==
    /\ key' = [q \in Requests |-> None]
    /\ could' = [q \in Requests |-> {}]
    /\ told' = [q \in Requests |-> "nothing"]
    /\ UNCHANGED link

Next == Change \/ Restart \/ \E q \in Requests : Ask(q) \/ Answer(q)

Spec == Init /\ [][Next]_vars
=============================================================================
