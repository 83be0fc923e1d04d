----------------------------- MODULE AuthStore -----------------------------
(***************************************************************************)
(* The local identity store, internal/store/leveldb.go: one LevelDB with   *)
(* four keys (token, DID, visitor id and the account they belong to) and   *)
(* an in-memory epoch that a reset increments.  Every method holds the     *)
(* store's mutex from its first to its last line, so each one is a single  *)
(* step; a write that fails changes nothing and says so.                   *)
(*                                                                         *)
(* Writes are issued with nil write options, so they are not synced: a     *)
(* killed process loses none of them, a power loss loses a suffix.  `disk' *)
(* is what a power loss would leave; each write decides whether it gets    *)
(* there.  Opening the store replays and flushes the journal.              *)
(*                                                                         *)
(* The module has no Next of its own: StoreClients and Refresh take its    *)
(* operations as parts of their actions.                                   *)
(***************************************************************************)
EXTENDS Integers

CONSTANTS Users,     \* account names a configuration may hold
          Tokens,    \* values of the Authorization header
          DIDs,      \* device ids the server hands out
          Visitors,  \* visitor ids the client generates
          None       \* the absent key, "" in the code

ASSUME StoreAssumption == None \notin Users \cup Tokens \cup DIDs \cup Visitors

VARIABLES db,     \* the contents every method reads and writes
          disk,   \* the contents a power loss would leave
          epoch   \* the number of resets since the store was opened

storeVars == <<db, disk, epoch>>

(* domain.AuthState: the three fields of an identity. *)
AuthStates == [token   : Tokens \cup {None},
               did     : DIDs \cup {None},
               visitor : Visitors \cup {None}]

NoAuth == [token |-> None, did |-> None, visitor |-> None]

Empty(s) == s.token = None /\ s.did = None /\ s.visitor = None

(* The four keys of the database. *)
Contents == [token   : Tokens \cup {None},
             did     : DIDs \cup {None},
             visitor : Visitors \cup {None},
             account : Users \cup {None}]

NoContents == [token |-> None, did |-> None, visitor |-> None, account |-> None]

(* A database written by the releases that had no account key yet. *)
LegacyContents == {c \in Contents : c.account = None}

StoreTypeOK == /\ db \in Contents
               /\ disk \in Contents
               /\ epoch \in Nat

-----------------------------------------------------------------------------
(* What LoadAuthState and LoadAuthAccount return. *)
LoadAuthState == [token |-> db.token, did |-> db.did, visitor |-> db.visitor]

LoadAuthAccount == db.account

(* One batch of the journal, applied in memory. *)
Write(contents) == /\ db' = contents
                   /\ disk' \in {disk, contents}

(* The comparison at the head of the two save methods. *)
NoEpochCheck(e) == TRUE

EpochIsCurrent(e) == e = epoch

(* What a method that writes nothing reports. *)
NotWritten(e, result) == /\ \/ ~EpochIsCurrent(e) /\ result = "stale"
                            \/ EpochIsCurrent(e) /\ result = "error"
                         /\ UNCHANGED storeVars

(* Overwrites the three fields; an empty field deletes its key. *)
SaveAuthState(state, e, result) ==
  \/ /\ EpochIsCurrent(e)
     /\ result = "saved"
     /\ Write([db EXCEPT !.token = state.token,
                         !.did = state.did,
                         !.visitor = state.visitor])
     /\ UNCHANGED epoch
  \/ NotWritten(e, result)

SaveAuthAccount(account, e, result) ==
  \/ /\ EpochIsCurrent(e)
     /\ result = "saved"
     /\ Write([db EXCEPT !.account = account])
     /\ UNCHANGED epoch
  \/ NotWritten(e, result)

(* The batch of ResetAuthState deletes all four keys. *)
ResetKeepsAccount == [NoContents EXCEPT !.account = db.account]

ResetContents == NoContents

(* The epoch moves only when the batch was written. *)
ResetAuthState(result) ==
  \/ /\ result = "saved"
     /\ Write(ResetContents)
     /\ epoch' = epoch + 1
  \/ result = "error" /\ UNCHANGED storeVars

(* The process ends, killed or with the machine, and Open starts over. *)
Open == /\ db' \in {db, disk}
        /\ disk' = db'
        /\ epoch' = 0

=============================================================================
