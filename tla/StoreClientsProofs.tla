------------------------- MODULE StoreClientsProofs -------------------------
(***************************************************************************)
(* The epoch contract of the store, proved for any number of clients and   *)
(* any sets of users, tokens, DIDs and visitor ids.                        *)
(***************************************************************************)
EXTENDS StoreClients, TLAPS

(* A batch of the store's journal keeps the contents well typed, wherever  *)
(* the machine stops: Write in leveldb.go.                                 *)
LEMMA WriteTyped ==
  ASSUME StoreTypeOK, NEW c \in Contents, Write(c)
  PROVE  db' \in Contents /\ disk' \in Contents
BY DEF StoreTypeOK, Write

(* Every reachable state of the store is well typed and satisfies IInv.    *)
LEMMA InitIInv == Init => IInv
<1> SUFFICES ASSUME Init PROVE IInv
  OBVIOUS
<1>1. TypeOK
  BY DEF Init, TypeOK, StoreTypeOK, LegacyContents
<1>2. EpochsOrdered
  BY DEF Init, EpochsOrdered
<1>3. NoStaleWrite
  BY DEF Init, NoStaleWrite
<1> QED BY <1>1, <1>2, <1>3 DEF IInv

(* A save that is written was asked for under the current epoch, hence not *)
(* by an overtaken client: the comparison in SaveAuthState and             *)
(* SaveAuthAccount is what the contract rests on.                          *)
LEMMA SaverNotOvertaken ==
  ASSUME IInv, NEW c \in Clients, held[c] # None, EpochIsCurrent(held[c])
  PROVE  c \notin overtaken
BY DEF IInv, TypeOK, StoreTypeOK, EpochsOrdered, EpochIsCurrent

(* Every step of every client, and a restart, keeps IInv.                  *)
LEMMA NextIInv == IInv /\ [Next]_vars => IInv'
<1> SUFFICES ASSUME IInv, [Next]_vars PROVE IInv'
  OBVIOUS
<1> USE DEF IInv
<1>1. ASSUME NEW c \in Clients, Load(c) PROVE IInv'
  <2>1. TypeOK'
    BY <1>1 DEF Load, TypeOK, StoreTypeOK
  <2>2. EpochsOrdered'
    BY <1>1 DEF Load, EpochsOrdered, TypeOK, StoreTypeOK
  <2>3. NoStaleWrite'
    BY <1>1 DEF Load, NoStaleWrite
  <2> QED BY <2>1, <2>2, <2>3
<1>2. ASSUME NEW c \in Clients, SaveState(c) PROVE IInv'
  <2> PICK state \in AuthStates, result \in {"saved", "stale", "error"} :
        SaveAuthState(state, held[c], result) /\ Wrote(c, AuthKeys, result)
    BY <1>2 DEF SaveState
  <2>1. CASE result = "saved"
    <3>1. EpochIsCurrent(held[c])
      BY <2>1 DEF SaveAuthState, NotWritten
    <3>2. stale' = {}
      BY <1>2, <2>1, <3>1, SaverNotOvertaken DEF SaveState, Wrote, NoStaleWrite
    <3> DEFINE new == [db EXCEPT !.token = state.token,
                                 !.did = state.did,
                                 !.visitor = state.visitor]
    <3>3. new \in Contents
      BY DEF TypeOK, StoreTypeOK, Contents, AuthStates
    <3>4. Write(new) /\ UNCHANGED epoch
      BY <2>1 DEF SaveAuthState, NotWritten
    <3>5. TypeOK'
      <4>1. db' \in Contents /\ disk' \in Contents
        <5> HIDE DEF new
        <5> QED BY <3>3, <3>4, WriteTyped DEF TypeOK
      <4> QED BY <4>1, <3>2, <3>4, <1>2 DEF SaveState, TypeOK, StoreTypeOK
    <3>6. EpochsOrdered'
      BY <1>2, <3>4 DEF SaveState, EpochsOrdered
    <3> QED BY <3>2, <3>5, <3>6 DEF NoStaleWrite
  <2>2. CASE result # "saved"
    <3>1. UNCHANGED vars
      BY <1>2, <2>2 DEF SaveState, SaveAuthState, NotWritten, Wrote, vars, storeVars
    <3> QED BY <3>1 DEF vars, TypeOK, StoreTypeOK, EpochsOrdered, NoStaleWrite
  <2> QED BY <2>1, <2>2
<1>3. ASSUME NEW c \in Clients, SaveAccount(c) PROVE IInv'
  <2> PICK account \in Users, result \in {"saved", "stale", "error"} :
        SaveAuthAccount(account, held[c], result) /\ Wrote(c, {"account"}, result)
    BY <1>3 DEF SaveAccount
  <2>1. CASE result = "saved"
    <3>1. EpochIsCurrent(held[c])
      BY <2>1 DEF SaveAuthAccount, NotWritten
    <3>2. stale' = {}
      BY <1>3, <2>1, <3>1, SaverNotOvertaken DEF SaveAccount, Wrote, NoStaleWrite
    <3> DEFINE new == [db EXCEPT !.account = account]
    <3>3. new \in Contents
      BY DEF TypeOK, StoreTypeOK, Contents
    <3>4. Write(new) /\ UNCHANGED epoch
      BY <2>1 DEF SaveAuthAccount, NotWritten
    <3>5. TypeOK'
      <4>1. db' \in Contents /\ disk' \in Contents
        <5> HIDE DEF new
        <5> QED BY <3>3, <3>4, WriteTyped DEF TypeOK
      <4> QED BY <4>1, <3>2, <3>4, <1>3 DEF SaveAccount, TypeOK, StoreTypeOK
    <3>6. EpochsOrdered'
      BY <1>3, <3>4 DEF SaveAccount, EpochsOrdered
    <3> QED BY <3>2, <3>5, <3>6 DEF NoStaleWrite
  <2>2. CASE result # "saved"
    <3>1. UNCHANGED vars
      BY <1>3, <2>2 DEF SaveAccount, SaveAuthAccount, NotWritten, Wrote, vars, storeVars
    <3> QED BY <3>1 DEF vars, TypeOK, StoreTypeOK, EpochsOrdered, NoStaleWrite
  <2> QED BY <2>1, <2>2
<1>4. ASSUME NEW c \in Clients, Reset(c) PROVE IInv'
  <2>1. CASE ResetAuthState("error") /\ UNCHANGED clientVars
    BY <2>1 DEF ResetAuthState, clientVars, storeVars, TypeOK, StoreTypeOK,
                EpochsOrdered, NoStaleWrite
  <2>2. CASE /\ ResetAuthState("saved")
             /\ held' = [held EXCEPT ![c] = epoch']
             /\ overtaken' = {d \in Clients \ {c} : held[d] # None}
             /\ stale' = {}
    <3>1. Write(NoContents) /\ epoch' = epoch + 1
      BY <2>2 DEF ResetAuthState, ResetContents
    <3>2. db' \in Contents /\ disk' \in Contents
      <4>1. NoContents \in Contents
        BY DEF NoContents, Contents
      <4> QED BY <4>1, <3>1, WriteTyped DEF TypeOK
    <3>3. TypeOK'
      BY <2>2, <3>1, <3>2 DEF TypeOK, StoreTypeOK
    <3>4. EpochsOrdered'
      BY <2>2, <3>1 DEF EpochsOrdered, TypeOK, StoreTypeOK
    <3> QED BY <2>2, <3>3, <3>4 DEF NoStaleWrite
  <2> QED BY <1>4, <2>1, <2>2 DEF Reset
<1>5. CASE Restart
  <2>1. TypeOK'
    BY <1>5 DEF Restart, Open, TypeOK, StoreTypeOK
  <2>2. EpochsOrdered' /\ NoStaleWrite'
    BY <1>5 DEF Restart, EpochsOrdered, NoStaleWrite
  <2> QED BY <2>1, <2>2
<1>6. CASE UNCHANGED vars
  BY <1>6 DEF vars, TypeOK, StoreTypeOK, EpochsOrdered, NoStaleWrite
<1> QED BY <1>1, <1>2, <1>3, <1>4, <1>5, <1>6 DEF Next

(* The store is always well typed: whatever the clients write and wherever *)
(* the process or the machine stops.                                       *)
THEOREM TypeCorrect == Spec => []TypeOK
BY InitIInv, NextIInv, PTL DEF Spec, IInv

(* The epoch contract: a goroutine that ResetAuthState has overtaken never *)
(* gets a key written by SaveAuthState or SaveAuthAccount, for any number  *)
(* of goroutines, resets and restarts.                                     *)
THEOREM EpochContract == Spec => []NoStaleWrite
BY InitIInv, NextIInv, PTL DEF Spec, IInv

(* Every step that moves the epoch erases the four keys or opens the store *)
(* anew, and a step that unbinds the account moves the epoch: the batch of *)
(* ResetAuthState and the epoch move together.                             *)
THEOREM ErasureContract == Spec => EpochMovesWithErasure
<1> DEFINE Together == /\ epoch' # epoch => \/ epoch' = epoch + 1 /\ db' = NoContents
                                            \/ Restart
                       /\ db.account # None /\ db'.account = None
                            => epoch' # epoch \/ Restart
<1>1. IInv /\ [Next]_vars => [Together]_vars
  <2> SUFFICES ASSUME IInv, Next PROVE Together
    BY DEF vars
  <2>0. db \in Contents /\ epoch \in Nat
    BY DEF IInv, TypeOK, StoreTypeOK
  <2>1. ASSUME NEW c \in Clients, Load(c) PROVE Together
    BY <2>1 DEF Load
  <2>2. ASSUME NEW c \in Clients, SaveState(c) PROVE Together
    <3>1. UNCHANGED epoch /\ db'.account = db.account
      BY <2>0, <2>2
         DEF SaveState, SaveAuthState, Write, NotWritten, storeVars, Contents
    <3> QED BY <3>1
  <2>3. ASSUME NEW c \in Clients, SaveAccount(c) PROVE Together
    <3>1. PICK account \in Users, result \in {"saved", "stale", "error"} :
            SaveAuthAccount(account, held[c], result)
      BY <2>3 DEF SaveAccount
    <3>2. UNCHANGED epoch /\ (UNCHANGED db \/ db'.account = account)
      BY <2>0, <3>1 DEF SaveAuthAccount, Write, NotWritten, storeVars, Contents
    <3> QED BY <3>2, StoreAssumption
  <2>4. ASSUME NEW c \in Clients, Reset(c) PROVE Together
    BY <2>0, <2>4 DEF Reset, ResetAuthState, Write, ResetContents, storeVars
  <2>5. CASE Restart
    BY <2>5
  <2> QED BY <2>1, <2>2, <2>3, <2>4, <2>5 DEF Next
<1> QED BY <1>1, InitIInv, NextIInv, PTL DEF Spec, EpochMovesWithErasure
=============================================================================
