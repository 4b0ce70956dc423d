-------------------------- MODULE MCPhysicalPages --------------------------
(* Model checking of PhysicalPages: see MCPhysicalPages.cfg. *)
EXTENDS PhysicalPages
=============================================================================
