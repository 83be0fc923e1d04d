----------------------------- MODULE KeepAlive -----------------------------
(***************************************************************************)
(* What Service.runWithSession relies on when it calls runChecks, at the   *)
(* granularity at which module Refresh uses it: five calls of the Session  *)
(* interface in order.  A failing call ends the checks, except the first   *)
(* UpdateLastBrowse, whose error counts only if BrowseForum did not        *)
(* achieve an update either; BrowseForum returns nil or an error that the  *)
(* caller has to see.                                                      *)
(***************************************************************************)
VARIABLES stage,      \* the next call
          updateErr,  \* what the first UpdateLastBrowse returned
          err         \* what runChecks returns

vars == <<stage, updateErr, err>>

CallErrors == {"nil", "auth", "ctx", "other"}

Init == stage = "warmup" /\ updateErr = "nil" /\ err = "nil"

Call(here, next) ==
  /\ stage = here
  /\ err' \in CallErrors
  /\ stage' = IF err' = "nil" THEN next ELSE "ended"
  /\ UNCHANGED updateErr

Update == /\ stage = "update"
          /\ updateErr' \in CallErrors
          /\ stage' = "forum"
          /\ UNCHANGED err

Forum == /\ stage = "forum"
         /\ err' \in {"auth", "ctx", "nil", updateErr}
         /\ stage' = "ended"
         /\ UNCHANGED updateErr

Next == \/ Call("warmup", "profile") \/ Call("profile", "rewarmup")
        \/ Call("rewarmup", "update") \/ Update \/ Forum

Spec == Init /\ [][Next]_vars
=============================================================================
