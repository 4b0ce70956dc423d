---------------------------- MODULE MCScheduler ----------------------------
(* Few cores and tasks; the cfg files give their numbers. *)
EXTENDS Scheduler
=============================================================================
