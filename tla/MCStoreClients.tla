--------------------------- MODULE MCStoreClients ---------------------------
(* Three clients of the store, with one value of each kind of key. *)
EXTENDS StoreClients, TLC

Symmetry == Permutations(Clients)
=============================================================================
