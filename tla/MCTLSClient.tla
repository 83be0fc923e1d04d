---------------------------- MODULE MCTLSClient ----------------------------
(* Three goroutines, two keys of one cookie scope and one without.         *)
EXTENDS TLSClient, TLC

CONSTANTS login, browse, notify, mteam

MCScope == login :> mteam @@ browse :> mteam @@ notify :> NoScope
=============================================================================
