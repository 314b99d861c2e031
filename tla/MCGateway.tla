----------------------------- MODULE MCGateway -----------------------------
(* A private access point and, once its stream is deleted, a public one of
   another stream with the same path. *)
EXTENDS Gateway, TLC
CONSTANTS p1, s1, s2, a1, a2, t1
MCStreamOf == a1 :> s1 @@ a2 :> s2
MCPathOf == a1 :> p1 @@ a2 :> p1
MCPointOf == t1 :> a1
Symmetry == Permutations(Requests)
=============================================================================
