------------------------------ MODULE MCLeakScan ------------------------------
(* Instances of LeakScan for TLC.  A timestamp is one that neither the row nor
   a process holds, so one more than there are processes are enough for a
   new one to exist always. *)
EXTENDS LeakScan

MCStamps == 1..(Cardinality(Procs) + 1)
=============================================================================
