---------------------------- MODULE StoreClients ----------------------------
(***************************************************************************)
(* The epoch contract of LevelDBStore under concurrent callers.  A client  *)
(* is any goroutine that loads the identity, works on it outside the lock  *)
(* and writes back under the epoch it loaded; the comment on the type says *)
(* that a write back that lost the race against a reset is dropped.        *)
(*                                                                         *)
(* `overtaken' and `stale' are history variables: the clients some other   *)
(* client's reset has overtaken, and the keys such a client has written    *)
(* since the last reset.                                                   *)
(***************************************************************************)
EXTENDS AuthStore

CONSTANTS Clients,  \* goroutines that use the store
          MaxEpoch  \* bound: resets in one process

ASSUME ClientsAssumption == MaxEpoch \in Nat

VARIABLES held,       \* the epoch each client works under, None before a load
          overtaken,
          stale

clientVars == <<held, overtaken, stale>>
vars == <<db, disk, epoch, held, overtaken, stale>>

AuthKeys == {"token", "did", "visitor"}
Keys == AuthKeys \cup {"account"}

TypeOK == /\ StoreTypeOK
          /\ held \in [Clients -> Nat \cup {None}]
          /\ overtaken \subseteq Clients
          /\ stale \subseteq Keys

Init == /\ db \in LegacyContents
        /\ disk = db
        /\ epoch = 0
        /\ held = [c \in Clients |-> None]
        /\ overtaken = {}
        /\ stale = {}

-----------------------------------------------------------------------------
(* What a finished write makes of the history. *)
Wrote(c, keys, result) ==
  stale' = IF result = "saved"
             THEN (IF c \in overtaken THEN stale \cup keys ELSE stale \ keys)
             ELSE stale

Load(c) == /\ held' = [held EXCEPT ![c] = epoch]
           /\ overtaken' = overtaken \ {c}
           /\ UNCHANGED <<db, disk, epoch, stale>>

SaveState(c) == /\ held[c] # None
                /\ \E state \in AuthStates, result \in {"saved", "stale", "error"} :
                     /\ SaveAuthState(state, held[c], result)
                     /\ Wrote(c, AuthKeys, result)
                /\ UNCHANGED <<held, overtaken>>

SaveAccount(c) == /\ held[c] # None
                  /\ \E account \in Users, result \in {"saved", "stale", "error"} :
                       /\ SaveAuthAccount(account, held[c], result)
                       /\ Wrote(c, {"account"}, result)
                  /\ UNCHANGED <<held, overtaken>>

(* The caller goes on under the epoch the reset returned. *)
Reset(c) == /\ epoch < MaxEpoch
            /\ \/ /\ ResetAuthState("saved")
                  /\ held' = [held EXCEPT ![c] = epoch']
                  /\ overtaken' = {d \in Clients \ {c} : held[d] # None}
                  /\ stale' = {}
               \/ /\ ResetAuthState("error")
                  /\ UNCHANGED clientVars

Restart == /\ Open
           /\ held' = [c \in Clients |-> None]
           /\ overtaken' = {}
           /\ stale' = {}

Next == \/ \E c \in Clients : Load(c) \/ SaveState(c) \/ SaveAccount(c) \/ Reset(c)
        \/ Restart

Spec == Init /\ [][Next]_vars

-----------------------------------------------------------------------------
(* No key holds what a client wrote after a reset had overtaken it: the    *)
(* epoch comparison of SaveAuthState and SaveAuthAccount drops the write   *)
(* back of every goroutine that loaded before the last ResetAuthState.     *)
NoStaleWrite == stale = {}

(* The epoch moves forward only together with the deletion of all four     *)
(* keys, and is reset only by a new process: a caller whose epoch has      *)
(* become stale finds nothing of the identity it loaded.  And an account   *)
(* loses its identity only together with a move of the epoch: no reset     *)
(* leaves the goroutines at work on what it erased with a valid epoch.     *)
EpochMovesWithErasure ==
  [][/\ epoch' # epoch => \/ epoch' = epoch + 1 /\ db' = NoContents
                          \/ Restart
     /\ db.account # None /\ db'.account = None => epoch' # epoch \/ Restart]_vars

(* What makes NoStaleWrite inductive: a client's epoch is never ahead of   *)
(* the store's, and an overtaken client's is behind it.                    *)
EpochsOrdered == /\ \A c \in Clients : held[c] # None => held[c] <= epoch
                 /\ \A c \in overtaken : held[c] # None /\ held[c] < epoch

IInv == TypeOK /\ EpochsOrdered /\ NoStaleWrite
=============================================================================
