------------------------------ MODULE MCLogin ------------------------------
(* All configurations and all responses; nothing is bounded.               *)
EXTENDS Login, TLC
=============================================================================
