------------------------------- MODULE MCRemux -------------------------------
(* Remux on small sets of model values. *)
EXTENDS Remux
=============================================================================
