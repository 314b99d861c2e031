----------------------------- MODULE MCAlwaysOn -----------------------------
(* AlwaysOn on small instances: streams are numbers, signatures model values. *)
EXTENDS AlwaysOn, TLC

(* Signatures are only compared for equality. *)
Symmetry == Permutations(Sigs)
=============================================================================
