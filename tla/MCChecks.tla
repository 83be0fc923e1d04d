------------------------------ MODULE MCChecks ------------------------------
(* The fifteen endpoints of WarmupEndpoints.                               *)
EXTENDS Checks, TLC
=============================================================================
