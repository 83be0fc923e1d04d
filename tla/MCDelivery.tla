----------------------------- MODULE MCDelivery -----------------------------
(* Two overlapping notifications through two channels, one of which has    *)
(* something to close.                                                     *)
EXTENDS Delivery
=============================================================================
