----------------------------- MODULE MCSettings -----------------------------
(* A Duration of four bits: what lies outside of it is in Values too. *)
EXTENDS Settings

MCValues == {-1, 0, 1, 2, 6, 16}
=============================================================================
