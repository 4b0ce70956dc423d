------------------------------ MODULE MCSmpBoot ------------------------------
(* Model checking of SmpBoot: see MCSmpBoot.cfg.                            *)
EXTENDS SmpBoot
=============================================================================
