----------------------------- MODULE MCShutdown -----------------------------
(* One job next to the main goroutine, and two channels that may both fail. *)
EXTENDS Shutdown
=============================================================================
