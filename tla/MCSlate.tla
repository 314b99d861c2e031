------------------------------- MODULE MCSlate -------------------------------
(* Slate on small sets of model values. *)
EXTENDS Slate
=============================================================================
