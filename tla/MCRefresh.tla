----------------------------- MODULE MCRefresh -----------------------------
(* Two tokens of a user who rotates between two DIDs, and another user.     *)
EXTENDS Refresh, TLC

CONSTANTS a, b, a1, a2, b1, da1, da2, db1, va, vb

AllOwners == a1 :> a @@ a2 :> a @@ da1 :> a @@ da2 :> a @@ va :> a @@
             b1 :> b @@ db1 :> b @@ vb :> b

MCOwner == [i \in Identified |-> AllOwners[i]]

Password(u, retry) == [tokenAuth |-> NoAuth, username |-> u, retry |-> retry]

TokenOf(u) == [tokenAuth |-> [token |-> a1, did |-> da1, visitor |-> va],
               username |-> u, retry |-> FALSE]

(* User a with and without retry, b without it, and a token of a that      *)
(* overrides the name b.                                                   *)
MCConfigs == {Password(a, FALSE), Password(a, TRUE), Password(b, FALSE), TokenOf(b)}
=============================================================================
