---------------------------- MODULE MCLifecycle ----------------------------
(* A process in which three cron jobs may overlap. *)
EXTENDS Lifecycle
=============================================================================
