--------------------------- MODULE RefreshProofs ---------------------------
(***************************************************************************)
(* The identity a refresh uses and stores belongs to the account it is     *)
(* configured for, the store holds what the run has told its user, and no  *)
(* run logs in again and again: proved for all sets of users, tokens, DIDs *)
(* and visitor ids, all configurations, and crashes and power losses       *)
(* between any two calls.                                                  *)
(***************************************************************************)
EXTENDS Refresh, TLAPS

(* A message handed to the notifier extends the list of messages.          *)
LEMMA SeqTyped ==
  ASSUME NEW s \in Seq(Messages), NEW m \in Messages
  PROVE  s \o <<m>> \in Seq(Messages) /\ s \o <<>> \in Seq(Messages) /\ Append(s, m) \in Seq(Messages)
OBVIOUS

(* A write of the store keeps its contents well typed.                     *)
LEMMA SaveTyped ==
  ASSUME StoreTypeOK, NEW s \in AuthStates, NEW e, NEW r, SaveAuthState(s, e, r)
  PROVE  StoreTypeOK'
<1> DEFINE new == [db EXCEPT !.token = s.token, !.did = s.did, !.visitor = s.visitor]
<1>1. new \in Contents
  BY DEF StoreTypeOK, Contents, AuthStates
<1> HIDE DEF new
<1>2. CASE Write(new) /\ UNCHANGED epoch
  BY <1>1, <1>2 DEF StoreTypeOK, Write
<1>3. CASE NotWritten(e, r)
  BY <1>3 DEF StoreTypeOK, NotWritten, storeVars
<1> QED BY <1>2, <1>3 DEF SaveAuthState, new

(* So does a write of the account. *)
LEMMA AccountTyped ==
  ASSUME StoreTypeOK, NEW u \in Users, NEW e, NEW r, SaveAuthAccount(u, e, r)
  PROVE  StoreTypeOK'
<1> DEFINE new == [db EXCEPT !.account = u]
<1>1. new \in Contents
  BY DEF StoreTypeOK, Contents
<1> HIDE DEF new
<1>2. CASE Write(new) /\ UNCHANGED epoch
  BY <1>1, <1>2 DEF StoreTypeOK, Write
<1>3. CASE NotWritten(e, r)
  BY <1>3 DEF StoreTypeOK, NotWritten, storeVars
<1> QED BY <1>2, <1>3 DEF SaveAuthAccount, new

(* So does a reset. *)
LEMMA ResetTyped ==
  ASSUME StoreTypeOK, NEW r, ResetAuthState(r)
  PROVE  StoreTypeOK'
BY DEF StoreTypeOK, ResetAuthState, ResetContents, Write, NoContents, Contents, storeVars

(* In password mode the configuration names a user.                        *)
LEMMA PasswordUser ==
  ASSUME cfg \in Configs, ~TokenMode
  PROVE  cfg.username \in Users
BY RefreshAssumption DEF TokenMode, Empty, IsComplete

(* The locals a run starts with.                                           *)
LEMMA FreshTyped ==
  ASSUME FreshRun
  PROVE  /\ phase' \in {"first", "retry"} /\ auth' \in AuthStates /\ base' \in Nat
         /\ session' \in AuthStates /\ updateErr' \in CallErrors /\ err' \in Errors
         /\ ctxDone' \in BOOLEAN /\ msgs' \in Seq(Messages) /\ ret' \in Errors \cup {"none"}
         /\ logins' \in Nat /\ rejected' \in Tokens \cup {None}
<1>1. <<>> \in Seq(Messages)
  OBVIOUS
<1>2. NoAuth \in AuthStates
  BY DEF NoAuth, AuthStates
<1> QED BY <1>1, <1>2 DEF FreshRun, CallErrors, Errors

(* The initial states are well typed. *)
LEMMA InitTyped == Init => TypeOK
<1>1. <<>> \in Seq(Messages)
  OBVIOUS
<1>2. NoAuth \in AuthStates
  BY DEF NoAuth, AuthStates
<1>3. Init => StoreTypeOK
  BY DEF Init, StoreTypeOK, LegacyContents
<1>4. Init => /\ pc \in PCs /\ updateErr \in CallErrors /\ err \in Errors
              /\ revoked \subseteq Tokens /\ rejected \in Tokens \cup {None}
              /\ base \in Nat /\ logins \in Nat
  BY DEF Init, CallErrors, Errors, PCs
<1>5. Init => ctxDone \in BOOLEAN /\ healthy \in BOOLEAN
  BY DEF Init
<1>6. Init => /\ cfg \in Configs /\ phase \in {"first", "retry"} /\ auth \in AuthStates
              /\ session \in AuthStates /\ msgs \in Seq(Messages)
              /\ ret \in Errors \cup {"none"}
  BY <1>1, <1>2 DEF Init
<1> QED BY <1>3, <1>4, <1>5, <1>6 DEF TypeOK

(* The steps of Resolve and loginAndSave are well typed.                   *)
LEMMA ResolveTyped == TypeOK /\ Resolve => TypeOK'
<1> SUFFICES ASSUME TypeOK, Resolve PROVE TypeOK'
  OBVIOUS
<1> USE DEF PCs, ResolvePCs, LoginPCs, ExpiredPCs, SessionPCs, Errors, CallErrors,
            worldVars
<1>1. CASE ResolveToken
  BY <1>1, RefreshAssumption DEF ResolveToken, TypeOK, storeVars, StoreTypeOK
<1>2. CASE ResolveLoad
  <2>1. auth' \in AuthStates /\ base' \in Nat
    BY <1>2 DEF ResolveLoad, TypeOK, StoreTypeOK, LoadAuthState, AuthStates, Contents
  <2>2. pc' \in PCs
    BY <1>2 DEF ResolveLoad, AfterAccount, AfterVisitor
  <2> QED BY <1>2, <2>1, <2>2 DEF ResolveLoad, TypeOK, storeVars, StoreTypeOK
<1>3. CASE ResolveLoadFails
  BY <1>3 DEF ResolveLoadFails, TypeOK, storeVars, StoreTypeOK
<1>4. CASE ResolveReset
  <2>1. StoreTypeOK'
    BY <1>4, ResetTyped DEF ResolveReset, TypeOK
  <2>2. auth' \in AuthStates /\ base' \in Nat /\ err' \in Errors /\ pc' \in PCs
    BY <1>4, <2>1 DEF ResolveReset, TypeOK, StoreTypeOK, NoAuth, AuthStates
  <2> QED BY <1>4, <2>1, <2>2 DEF ResolveReset, TypeOK
<1>5. CASE BindAccount
  <2>1. PICK result \in Results :
          /\ SaveAuthAccount(cfg.username, base, result)
          /\ Saved(result, IF pc = "expiredAccount" THEN "expiredVisitor" ELSE AfterAccount(auth))
    BY <1>5 DEF BindAccount
  <2>2. CASE TokenMode
    <3>1. cfg.username \in Users \cup {None}
      BY RefreshAssumption DEF TypeOK
    <3>2. StoreTypeOK'
      BY <2>1, <3>1 DEF SaveAuthAccount, NotWritten, Write, StoreTypeOK, Contents, TypeOK,
                        storeVars
    <3>3. err' \in Errors /\ pc' \in PCs
      BY <2>1 DEF Saved, SaveError, FailedPC, AfterAccount, AfterVisitor, Results
    <3> QED BY <1>5, <3>2, <3>3 DEF BindAccount, TypeOK
  <2>3. CASE ~TokenMode
    <3>2. StoreTypeOK'
      BY <2>1, <2>3, PasswordUser, AccountTyped DEF TypeOK
    <3>3. err' \in Errors /\ pc' \in PCs
      BY <2>1 DEF Saved, SaveError, FailedPC, AfterAccount, AfterVisitor, Results
    <3> QED BY <1>5, <3>2, <3>3 DEF BindAccount, TypeOK
  <2> QED BY <2>2, <2>3
<1>6. CASE NewVisitor
  <2>1. PICK v \in Visitors, result \in Results :
          /\ auth' = [auth EXCEPT !.visitor = v]
          /\ SaveAuthState(auth', base, result)
          /\ Saved(result, AfterVisitor(auth'))
    BY <1>6 DEF NewVisitor
  <2>2. auth' \in AuthStates
    BY <2>1 DEF TypeOK, AuthStates
  <2>3. StoreTypeOK'
    BY <2>1, <2>2, SaveTyped DEF TypeOK
  <2>4. err' \in Errors /\ pc' \in PCs
    BY <2>1 DEF Saved, SaveError, FailedPC, AfterVisitor, Results
  <2> QED BY <1>6, <2>2, <2>3, <2>4 DEF NewVisitor, TypeOK
<1>7. CASE Login
  <2>1. auth' \in AuthStates
    <3>1. ASSUME NEW t \in Tokens, NEW d \in DIDs
          PROVE  [auth EXCEPT !.token = t, !.did = d] \in AuthStates
      BY DEF TypeOK, AuthStates
    <3>2. CASE UNCHANGED auth
      BY <3>2 DEF TypeOK
    <3>3. CASE \E t \in Tokens, d \in DIDs : auth' = [auth EXCEPT !.token = t, !.did = d]
      <4> PICK t \in Tokens, d \in DIDs : auth' = [auth EXCEPT !.token = t, !.did = d]
        BY <3>3
      <4> QED BY <3>1
    <3> QED BY <1>7, <3>2, <3>3 DEF Login
  <2>2. err' \in Errors /\ pc' \in PCs
    <3>1. \/ pc' = "saveLogin" /\ err' = err
          \/ pc' = FailedPC /\ err' \in CallErrors
      BY <1>7, Zenon DEF Login
    <3> QED BY <3>1 DEF TypeOK, FailedPC
  <2>3. revoked' \subseteq Tokens /\ logins' \in Nat
    <3>1. logins' = logins + 1
      BY <1>7 DEF Login
    <3>2. revoked' = revoked \/ \E t \in Tokens : revoked' = revoked \ {t}
      BY <1>7, Zenon DEF Login
    <3> QED BY <3>1, <3>2 DEF TypeOK
  <2>4. ctxDone' \in BOOLEAN
    <3>1. ctxDone' = ctxDone \/ \E e \in CallErrors : ContextAfter(e)
      BY <1>7 DEF Login
    <3>2. ctxDone' \in {ctxDone, TRUE}
      BY <3>1 DEF ContextAfter
    <3> QED BY <3>2 DEF TypeOK
  <2> QED BY <1>7, <2>1, <2>2, <2>3, <2>4 DEF Login, TypeOK, storeVars, StoreTypeOK
<1>8. CASE SaveLogin
  <2>1. PICK result \in Results :
          /\ SaveAuthState(auth, base, result)
          /\ Saved(result, IF phase = "first" THEN "newSession" ELSE "retryNotice")
    BY <1>8 DEF SaveLogin
  <2>2. StoreTypeOK'
    BY <2>1, SaveTyped DEF TypeOK
  <2>3. err' \in Errors /\ pc' \in PCs
    BY <2>1 DEF Saved, SaveError, FailedPC, Results
  <2> QED BY <1>8, <2>2, <2>3 DEF SaveLogin, TypeOK
<1>9. CASE ResolveFailed
  <2>1. msgs' \in Seq(Messages)
    BY <1>9, SeqTyped DEF ResolveFailed, Return, TypeOK, Messages
  <2> QED BY <1>9, <2>1 DEF ResolveFailed, Return, TypeOK, storeVars, StoreTypeOK
<1> QED BY <1>1, <1>2, <1>3, <1>4, <1>5, <1>6, <1>7, <1>8, <1>9 DEF Resolve

(* The session calls, the write back and the report are well typed.        *)
LEMMA SessionTyped == TypeOK /\ RunWithSession => TypeOK'
<1> SUFFICES ASSUME TypeOK, RunWithSession PROVE TypeOK'
  OBVIOUS
<1> USE DEF PCs, SessionPCs, Errors, CallErrors, worldVars
<1>1. CASE NewSession
  BY <1>1 DEF NewSession, TypeOK, storeVars, StoreTypeOK
<1>2. ASSUME NEW e, ContextAfter(e) PROVE ctxDone' \in BOOLEAN
  <2>1. ctxDone' \in {ctxDone, TRUE}
    BY <1>2 DEF ContextAfter
  <2> QED BY <2>1 DEF TypeOK
<1>3. ASSUME NEW e, NEW n, Responds(e, n) PROVE session' \in AuthStates
  <2>1. CASE UNCHANGED session
    BY <2>1 DEF TypeOK
  <2>2. CASE \E d \in DIDs : session' = [session EXCEPT !.did = d]
    BY <2>2 DEF TypeOK, AuthStates
  <2> QED BY <1>3, <2>1, <2>2 DEF Responds
<1>4. ASSUME NEW here, NEW n, NEW next \in PCs, Check(here, n, next) PROVE TypeOK'
  <2> PICK e \in CallErrors : /\ Answers(e) /\ Responds(e, n) /\ err' = e
                              /\ pc' = IF e = "nil" THEN next ELSE "writeBack"
    BY <1>4 DEF Check
  <2>1. ctxDone' \in BOOLEAN /\ session' \in AuthStates
    BY <1>2, <1>3 DEF Answers
  <2>2. err' \in Errors /\ pc' \in PCs
    OBVIOUS
  <2> QED BY <1>4, <2>1, <2>2 DEF Check, TypeOK, storeVars, StoreTypeOK
<1>5. CASE Warmup \/ Profile \/ WarmupAgain
  BY <1>5, <1>4 DEF Warmup, Profile, WarmupAgain
<1>6. CASE UpdateLastBrowse
  <2> PICK e \in CallErrors : Answers(e) /\ Responds(e, "one") /\ updateErr' = e
    BY <1>6 DEF UpdateLastBrowse
  <2>1. ctxDone' \in BOOLEAN /\ session' \in AuthStates
    BY <1>2, <1>3 DEF Answers
  <2> QED BY <1>6, <2>1 DEF UpdateLastBrowse, TypeOK, storeVars, StoreTypeOK
<1>7. CASE BrowseForum
  <2> PICK e \in ForumErrors, updated \in BOOLEAN :
         /\ Answers(e) /\ Responds(e, "several") /\ err' = ChecksError(e, updated)
    BY <1>7 DEF BrowseForum
  <2>1. ctxDone' \in BOOLEAN /\ session' \in AuthStates
    BY <1>2, <1>3 DEF Answers
  <2>2. err' \in Errors
    BY DEF ChecksError, ForumErrors, ShouldPropagateForumError, TypeOK
  <2> QED BY <1>7, <2>1, <2>2 DEF BrowseForum, TypeOK, storeVars, StoreTypeOK
<1>8. CASE WriteBack
  <2> PICK result \in Results :
         /\ SaveAuthState(session, base, result)
         /\ CASE result = "saved" -> pc' = "report" /\ UNCHANGED <<ret, msgs>>
              [] result = "stale" -> Return("changed", <<"identityChanged">>)
              [] result = "error" -> Return("store", <<>>)
    BY <1>8 DEF WriteBack
  <2>1. StoreTypeOK'
    BY SaveTyped DEF TypeOK
  <2>2. result \in {"saved", "stale", "error"}
    BY DEF Results
  <2>3. \/ pc' = "report" /\ UNCHANGED <<ret, msgs>>
        \/ Return("changed", <<"identityChanged">>)
        \/ Return("store", <<>>)
    BY <2>2
  <2>4. msgs' \in Seq(Messages)
    BY <2>3, SeqTyped DEF Return, TypeOK, Messages
  <2>5. pc' \in PCs /\ ret' \in Errors \cup {"none"}
    BY <2>3 DEF Return, TypeOK
  <2> QED BY <1>8, <2>1, <2>4, <2>5 DEF WriteBack, TypeOK
<1>9. CASE SkipWriteBack
  BY <1>9 DEF SkipWriteBack, TypeOK, storeVars, StoreTypeOK, runVars
<1>10. CASE Report
  <2>1. \E m \in Messages : Return(err, <<m>>)
    BY <1>10, Zenon DEF Report, Messages
  <2>2. msgs' \in Seq(Messages)
    BY <2>1, SeqTyped DEF Return, TypeOK
  <2>3. pc' = "idle" /\ ret' = err
    BY <2>1 DEF Return
  <2> QED BY <1>10, <2>2, <2>3 DEF Report, TypeOK, storeVars, StoreTypeOK
<1> QED BY <1>1, <1>5, <1>6, <1>7, <1>8, <1>9, <1>10 DEF RunWithSession

(* The handling of a refused session is well typed.                        *)
LEMMA ExpiredTyped == TypeOK /\ HandlePasswordAuthExpired => TypeOK'
<1> SUFFICES ASSUME TypeOK, HandlePasswordAuthExpired PROVE TypeOK'
  OBVIOUS
<1> USE DEF PCs, ExpiredPCs, Errors, CallErrors, worldVars
<1>1. CASE Expired
  BY <1>1 DEF Expired, TypeOK, storeVars, StoreTypeOK, AuthStates
<1>2. CASE ExpiredReset
  <2>1. StoreTypeOK'
    BY <1>2, ResetTyped DEF ExpiredReset, TypeOK
  <2>2. auth' \in AuthStates /\ base' \in Nat
    BY <1>2, <2>1 DEF ExpiredReset, TypeOK, StoreTypeOK, NoAuth, AuthStates
  <2>3. err' \in Errors /\ pc' \in PCs /\ phase' \in {"first", "retry"}
    BY <1>2 DEF ExpiredReset, TypeOK
  <2> QED BY <1>2, <2>1, <2>2, <2>3 DEF ExpiredReset, TypeOK
<1>3. CASE ExpiredFailed
  <2>1. \E m \in Messages : Return(err, <<m>>)
    BY <1>3 DEF ExpiredFailed, Messages, TypeOK
  <2>2. msgs' \in Seq(Messages)
    BY <2>1, SeqTyped DEF Return, TypeOK
  <2>3. pc' = "idle" /\ ret' = err
    BY <2>1 DEF Return
  <2> QED BY <1>3, <2>2, <2>3 DEF ExpiredFailed, TypeOK, storeVars, StoreTypeOK
<1>4. CASE RetryNotice
  <2>1. msgs' \in Seq(Messages)
    BY <1>4, SeqTyped DEF RetryNotice, TypeOK, Messages
  <2> QED BY <1>4, <2>1 DEF RetryNotice, TypeOK, storeVars, StoreTypeOK
<1>5. CASE NextRunNotice
  <2>1. msgs' \in Seq(Messages)
    BY <1>5, SeqTyped DEF NextRunNotice, Return, TypeOK, Messages
  <2> QED BY <1>5, <2>1 DEF NextRunNotice, Return, TypeOK, storeVars, StoreTypeOK
<1> QED BY <1>1, <1>2, <1>3, <1>4, <1>5 DEF HandlePasswordAuthExpired

(* Every step is well typed, a restart and the recovery of the world       *)
(* included.                                                               *)
LEMMA NextTyped == TypeOK /\ [Next]_vars => TypeOK'
<1> SUFFICES ASSUME TypeOK, [Next]_vars PROVE TypeOK'
  OBVIOUS
<1>1. CASE Start
  <2>1. pc' \in PCs
    BY <1>1 DEF Start, PCs, ResolvePCs
  <2> QED BY <1>1, <2>1, FreshTyped DEF Start, TypeOK, storeVars, StoreTypeOK, worldVars
<1>2. CASE Restart
  <2>1. pc' \in PCs
    BY <1>2 DEF Restart, PCs
  <2>2. StoreTypeOK'
    BY <1>2 DEF Restart, Open, TypeOK, StoreTypeOK
  <2> QED BY <1>2, <2>1, <2>2, FreshTyped DEF Restart, TypeOK, worldVars
<1>3. CASE Heal
  <2>1. healthy' \in BOOLEAN
    BY <1>3 DEF Heal
  <2>2. revoked' \subseteq Tokens
    BY <1>3 DEF Heal, KnownTokens
  <2> QED BY <1>3, <2>1, <2>2 DEF Heal, TypeOK, storeVars, StoreTypeOK, runVars
<1>4. CASE UNCHANGED vars
  BY <1>4 DEF vars, TypeOK, StoreTypeOK
<1> QED BY <1>1, <1>2, <1>3, <1>4, ResolveTyped, SessionTyped, ExpiredTyped DEF Next, Run

(* Every reachable state of the refresh is well typed.                     *)
THEOREM TypeCorrect == Spec => []TypeOK
BY InitTyped, NextTyped, PTL DEF Spec

-----------------------------------------------------------------------------
(* A batch whose contents are bound keeps the store bound, with and        *)
(* without a power loss.                                                   *)
LEMMA WriteBound ==
  ASSUME IdentityBinding, NEW c, Write(c), c.account # None => MadeFor(c, c.account)
  PROVE  IdentityBinding'
BY DEF IdentityBinding, Write, MadeFor

(* Saving an identity made for the bound account keeps the store bound,    *)
(* leaves the account alone and stores that identity.                      *)
LEMMA SaveBound ==
  ASSUME TypeOK, IdentityBinding, NEW s \in AuthStates, NEW e, NEW r,
         SaveAuthState(s, e, r), MadeFor(s, db.account)
  PROVE  /\ IdentityBinding'
         /\ LoadAuthAccount' = LoadAuthAccount
         /\ r = "saved" => LoadAuthState' = s
<1> DEFINE new == [db EXCEPT !.token = s.token, !.did = s.did, !.visitor = s.visitor]
<1>1. /\ new.token = s.token /\ new.did = s.did /\ new.visitor = s.visitor
      /\ new.account = db.account
  BY DEF TypeOK, StoreTypeOK, Contents
<1>2. s = [token |-> s.token, did |-> s.did, visitor |-> s.visitor]
  BY DEF AuthStates
<1> HIDE DEF new
<1>3. CASE Write(new) /\ UNCHANGED epoch
  <2>1. IdentityBinding'
    BY <1>1, <1>3, WriteBound DEF MadeFor
  <2>2. LoadAuthAccount' = LoadAuthAccount /\ LoadAuthState' = s
    BY <1>1, <1>2, <1>3 DEF Write, LoadAuthAccount, LoadAuthState
  <2> QED BY <2>1, <2>2
<1>4. CASE NotWritten(e, r)
  BY <1>4 DEF NotWritten, storeVars, IdentityBinding, MadeFor, LoadAuthAccount
<1> QED BY <1>3, <1>4 DEF SaveAuthState, new

(* Resetting leaves an empty store.                                        *)
LEMMA ResetBound ==
  ASSUME IdentityBinding, NEW r, ResetAuthState(r)
  PROVE  /\ IdentityBinding'
         /\ r = "saved" => Empty(LoadAuthState')
<1>1. CASE Write(NoContents) /\ r = "saved"
  <2>1. NoContents.account = None
    BY DEF NoContents
  <2>2. IdentityBinding'
    BY <1>1, <2>1, WriteBound
  <2> QED BY <1>1, <2>2 DEF Write, NoContents, LoadAuthState, Empty
<1>2. CASE r = "error" /\ UNCHANGED storeVars
  BY <1>2 DEF storeVars, IdentityBinding, MadeFor
<1> QED BY <1>1, <1>2 DEF ResetAuthState, ResetContents

(* Where the run holds no identity that it would use or store, only the    *)
(* store itself matters.                                                   *)
QuietPCs == {"idle", "resolve", "resolveReset", "resolveFailed", "expiredFailed",
             "report", "expiredReset", "nextRunNotice"}

(* There the invariant says no more than that the store is bound. *)
LEMMA Quiet ==
  ASSUME TypeOK', IdentityBinding', pc' \in QuietPCs,
         TokenMode' => pc' \in {"idle", "resolve", "report"}
  PROVE  IInv'
BY DEF IInv, QuietPCs, TokenModePath, BeforeBinding, AfterBinding, AtSession,
       SessionIdentity, LoginPCs, SessionPCs

(* The store is untouched. *)
LEMMA SameStore ==
  ASSUME IdentityBinding, UNCHANGED storeVars
  PROVE  IdentityBinding' /\ LoadAuthState' = LoadAuthState /\ LoadAuthAccount' = LoadAuthAccount
BY DEF IdentityBinding, storeVars, MadeFor, LoadAuthState, LoadAuthAccount

(* The invariant holds before the first run, whatever a release without     *)
(* the account key left in the store.                                      *)
LEMMA InitIInv == Init => IInv
<1> SUFFICES ASSUME Init PROVE IInv
  OBVIOUS
<1>1. IdentityBinding
  BY DEF Init, IdentityBinding, LegacyContents
<1> QED BY <1>1, InitTyped
        DEF Init, IInv, TokenModePath, BeforeBinding, AfterBinding, AtSession,
            SessionIdentity, LoginPCs, SessionPCs

(* The steps of Resolve and loginAndSave keep the invariant.               *)
LEMMA ResolveIInv ==
  ASSUME IInv, Resolve, TypeOK'
  PROVE  IInv'
<1> USE DEF IInv, worldVars
<1>1. CASE ResolveToken
  <2>1. IdentityBinding'
    BY <1>1, SameStore DEF ResolveToken
  <2>2. IsComplete(cfg.tokenAuth)
    BY <1>1, RefreshAssumption DEF ResolveToken, TokenMode, Empty, NoAuth, TypeOK
  <2>3. TokenMode' /\ pc' = "newSession" /\ auth' = cfg'.tokenAuth /\ cfg' = cfg
    BY <1>1 DEF ResolveToken, TokenMode, Empty
  <2> QED BY <2>1, <2>2, <2>3
          DEF TokenModePath, BeforeBinding, AfterBinding, AtSession, SessionIdentity, SessionPCs
<1>2. CASE ResolveLoad
  <2>1. /\ ~TokenMode' /\ cfg' = cfg /\ UNCHANGED storeVars /\ auth' = LoadAuthState
        /\ IdentityBinding' /\ LoadAuthState' = LoadAuthState
        /\ LoadAuthAccount' = LoadAuthAccount
    BY <1>2, SameStore DEF ResolveLoad, TokenMode, Empty
  <2>2. CASE ForeignIdentity
    BY <1>2, <2>1, <2>2, Quiet DEF ResolveLoad, QuietPCs
  <2>3. CASE ~ForeignIdentity /\ LoadAuthAccount # cfg.username
    <3>1. pc' = "resolveAccount" /\ Empty(LoadAuthState) /\ auth' = NoAuth
      BY <1>2, <2>3 DEF ResolveLoad, ForeignIdentity, Empty, LoadAuthState, NoAuth
    <3> QED BY <2>1, <3>1
            DEF TokenModePath, BeforeBinding, AfterBinding, AtSession, SessionIdentity,
                SessionPCs, LoginPCs
  <2>4. CASE LoadAuthAccount = cfg.username
    <3>1. pc' = AfterAccount(LoadAuthState)
      BY <1>2, <2>4 DEF ResolveLoad, ForeignIdentity
    <3>2. MadeFor(auth', cfg.username)
      <4>1. cfg.username # None
        BY <1>2, PasswordUser, StoreAssumption DEF ResolveLoad, TypeOK
      <4>2. MadeFor(db, cfg.username)
        BY <2>4, <4>1 DEF IdentityBinding, LoadAuthAccount
      <4> QED BY <2>1, <4>2 DEF MadeFor, LoadAuthState
    <3>3. /\ pc' \in {"resolveVisitor", "login", "newSession"}
          /\ pc' = "login" => auth'.visitor # None
          /\ pc' = "newSession" => IsComplete(auth')
      BY <2>1, <3>1 DEF AfterAccount, AfterVisitor, IsComplete
    <3> QED BY <2>1, <2>4, <3>2, <3>3
            DEF TokenModePath, BeforeBinding, AfterBinding, AtSession, SessionIdentity,
                SessionPCs, LoginPCs
  <2> QED BY <2>2, <2>3, <2>4 DEF ForeignIdentity
<1>3. CASE ResolveLoadFails
  <2>1. ~TokenMode' /\ pc' = "resolveFailed" /\ IdentityBinding'
    BY <1>3, SameStore DEF ResolveLoadFails, TokenMode, Empty
  <2> QED BY <2>1, Quiet DEF QuietPCs
<1>4. CASE ResolveReset
  <2>1. ~TokenMode'
    BY <1>4 DEF ResolveReset, TokenModePath, TokenMode, Empty, SessionPCs
  <2>2. CASE ResetAuthState("saved") /\ auth' = NoAuth /\ pc' = "resolveAccount"
    <3>1. IdentityBinding' /\ Empty(LoadAuthState')
      BY <2>2, ResetBound
    <3> QED BY <2>1, <2>2, <3>1
            DEF TokenModePath, BeforeBinding, AfterBinding, AtSession, SessionIdentity,
                SessionPCs, LoginPCs, Empty
  <2>3. CASE ResetAuthState("error") /\ pc' = "resolveFailed"
    <3>1. IdentityBinding'
      BY <2>3, ResetBound
    <3> QED BY <2>1, <2>3, <3>1, Quiet DEF QuietPCs
  <2> QED BY <1>4, <2>2, <2>3 DEF ResolveReset
<1>5. CASE BindAccount
  <2>1. PICK result \in Results :
          /\ SaveAuthAccount(cfg.username, base, result)
          /\ Saved(result, IF pc = "expiredAccount" THEN "expiredVisitor" ELSE AfterAccount(auth))
    BY <1>5 DEF BindAccount
  <2>2. ~TokenMode /\ ~TokenMode' /\ cfg' = cfg /\ auth' = auth
    BY <1>5 DEF BindAccount, TokenModePath, TokenMode, Empty, SessionPCs
  <2>3. Empty(LoadAuthState) /\ auth = NoAuth
    BY <1>5, <2>2 DEF BindAccount, BeforeBinding
  <2>4. CASE result = "saved"
    <3> DEFINE new == [db EXCEPT !.account = cfg.username]
    <3>1. /\ new.token = None /\ new.did = None /\ new.visitor = None
          /\ new.account = cfg.username
      BY <2>3 DEF TypeOK, StoreTypeOK, Contents, Empty, LoadAuthState
    <3>2. Write(new)
      BY <2>1, <2>4 DEF SaveAuthAccount, NotWritten
    <3> HIDE DEF new
    <3>3. IdentityBinding' /\ LoadAuthAccount' = cfg.username
      BY <3>1, <3>2, WriteBound DEF MadeFor, Write, LoadAuthAccount
    <3>4. pc' \in {"expiredVisitor", "resolveVisitor"} /\ MadeFor(auth', cfg.username)
      BY <2>1, <2>2, <2>3, <2>4 DEF Saved, AfterAccount, NoAuth, MadeFor
    <3> QED BY <2>2, <3>3, <3>4
            DEF TokenModePath, BeforeBinding, AfterBinding, AtSession, SessionIdentity,
                SessionPCs, LoginPCs
  <2>5. CASE result # "saved"
    <3>1. IdentityBinding'
      BY <2>1, <2>5, SameStore DEF SaveAuthAccount, NotWritten
    <3>2. pc' \in {"resolveFailed", "expiredFailed"}
      BY <2>1, <2>5 DEF Saved, FailedPC
    <3> QED BY <2>2, <3>1, <3>2, Quiet DEF QuietPCs
  <2> QED BY <2>4, <2>5
<1>6. CASE NewVisitor
  <2>1. PICK v \in Visitors, result \in Results :
          /\ Owner[v] = cfg.username
          /\ auth' = [auth EXCEPT !.visitor = v]
          /\ SaveAuthState(auth', base, result)
          /\ Saved(result, AfterVisitor(auth'))
    BY <1>6 DEF NewVisitor
  <2>2. ~TokenMode /\ ~TokenMode' /\ cfg' = cfg
    BY <1>6 DEF NewVisitor, TokenModePath, TokenMode, Empty, SessionPCs
  <2>3. LoadAuthAccount = cfg.username /\ MadeFor(auth, cfg.username)
    BY <1>6, <2>2 DEF NewVisitor, AfterBinding
  <2>4. /\ auth'.visitor = v /\ auth'.token = auth.token /\ auth'.did = auth.did
        /\ auth' \in AuthStates /\ v # None
    BY <2>1, StoreAssumption DEF TypeOK, AuthStates
  <2>5. MadeFor(auth', cfg.username)
    BY <2>1, <2>3, <2>4 DEF MadeFor
  <2>6. /\ IdentityBinding' /\ LoadAuthAccount' = cfg.username
        /\ result = "saved" => LoadAuthState' = auth'
    BY <2>1, <2>3, <2>4, <2>5, SaveBound DEF LoadAuthAccount
  <2>7. CASE result = "saved"
    <3>1. /\ pc' \in {"login", "newSession"}
          /\ pc' = "newSession" => IsComplete(auth')
      BY <2>1, <2>4, <2>7 DEF Saved, AfterVisitor, IsComplete
    <3> QED BY <2>2, <2>4, <2>5, <2>6, <2>7, <3>1
            DEF TokenModePath, BeforeBinding, AfterBinding, AtSession, SessionIdentity,
                SessionPCs, LoginPCs
  <2>8. CASE result # "saved"
    <3>1. pc' \in {"resolveFailed", "expiredFailed"}
      BY <2>1, <2>8 DEF Saved, FailedPC
    <3> QED BY <2>2, <2>6, <3>1, Quiet DEF QuietPCs
  <2> QED BY <2>7, <2>8
<1>7. CASE Login
  <2>1. ~TokenMode /\ ~TokenMode' /\ cfg' = cfg
    BY <1>7 DEF Login, TokenModePath, TokenMode, Empty, SessionPCs
  <2>2. IdentityBinding' /\ LoadAuthAccount' = LoadAuthAccount
    BY <1>7, SameStore DEF Login
  <2>3. LoadAuthAccount = cfg.username /\ MadeFor(auth, cfg.username) /\ auth.visitor # None
    BY <1>7, <2>1 DEF Login, AfterBinding, LoginPCs
  <2>4. CASE pc' = FailedPC
    <3>1. pc' \in {"resolveFailed", "expiredFailed"}
      BY <2>4 DEF FailedPC
    <3> QED BY <2>1, <2>2, <3>1, Quiet DEF QuietPCs
  <2>5. CASE /\ pc' = "saveLogin"
             /\ \E t \in Tokens, d \in DIDs :
                  /\ Owner[t] = cfg.username
                  /\ Owner[d] = cfg.username
                  /\ auth' = [auth EXCEPT !.token = t, !.did = d]
    <3> PICK t \in Tokens, d \in DIDs : /\ Owner[t] = cfg.username
                                        /\ Owner[d] = cfg.username
                                        /\ auth' = [auth EXCEPT !.token = t, !.did = d]
      BY <2>5
    <3>1. /\ auth'.token = t /\ auth'.did = d /\ auth'.visitor = auth.visitor
          /\ t # None /\ d # None
      BY StoreAssumption DEF TypeOK, AuthStates
    <3>2. MadeFor(auth', cfg.username) /\ IsComplete(auth')
      BY <2>3, <3>1 DEF MadeFor, IsComplete
    <3> QED BY <2>1, <2>2, <2>3, <2>5, <3>1, <3>2
            DEF TokenModePath, BeforeBinding, AfterBinding, AtSession, SessionIdentity,
                SessionPCs, LoginPCs
  <2> QED BY <1>7, <2>4, <2>5 DEF Login
<1>8. CASE SaveLogin
  <2>1. PICK result \in Results :
          /\ SaveAuthState(auth, base, result)
          /\ Saved(result, IF phase = "first" THEN "newSession" ELSE "retryNotice")
    BY <1>8 DEF SaveLogin
  <2>2. ~TokenMode /\ ~TokenMode' /\ cfg' = cfg /\ auth' = auth
    BY <1>8 DEF SaveLogin, TokenModePath, TokenMode, Empty, SessionPCs
  <2>3. LoadAuthAccount = cfg.username /\ MadeFor(auth, cfg.username) /\ IsComplete(auth)
    BY <1>8, <2>2 DEF SaveLogin, AfterBinding, LoginPCs
  <2>4. /\ IdentityBinding' /\ LoadAuthAccount' = cfg.username
        /\ result = "saved" => LoadAuthState' = auth
    BY <2>1, <2>3, SaveBound DEF LoadAuthAccount, TypeOK
  <2>5. CASE result = "saved"
    <3>1. pc' \in {"newSession", "retryNotice"}
      BY <2>1, <2>5 DEF Saved
    <3> QED BY <2>2, <2>3, <2>4, <2>5, <3>1
            DEF TokenModePath, BeforeBinding, AfterBinding, AtSession, SessionIdentity,
                SessionPCs, LoginPCs, MadeFor, IsComplete
  <2>6. CASE result # "saved"
    <3>1. pc' \in {"resolveFailed", "expiredFailed"}
      BY <2>1, <2>6 DEF Saved, FailedPC
    <3> QED BY <2>2, <2>4, <3>1, Quiet DEF QuietPCs
  <2> QED BY <2>5, <2>6
<1>9. CASE ResolveFailed
  <2>1. IdentityBinding' /\ pc' = "idle"
    BY <1>9, SameStore DEF ResolveFailed, Return
  <2> QED BY <2>1, Quiet DEF QuietPCs
<1> QED BY <1>1, <1>2, <1>3, <1>4, <1>5, <1>6, <1>7, <1>8, <1>9 DEF Resolve

(* A session call leaves store and run alone; the DID it takes over was    *)
(* made for the session's account.                                         *)
LEMMA CallIInv ==
  ASSUME IInv, TypeOK', pc \in SessionPCs, pc' \in SessionPCs,
         UNCHANGED <<storeVars, cfg, auth>>, NEW e, NEW n, Responds(e, n)
  PROVE  IInv'
<1> USE DEF IInv
<1>1. /\ IdentityBinding' /\ LoadAuthState' = LoadAuthState
      /\ LoadAuthAccount' = LoadAuthAccount /\ db' = db
  BY SameStore DEF storeVars
<1>2. (TokenMode' <=> TokenMode) /\ cfg' = cfg /\ auth' = auth
  BY DEF TokenMode, Empty
<1>3. /\ \A x : [session' EXCEPT !.did = x] = [session EXCEPT !.did = x]
      /\ session'.token = session.token /\ session'.visitor = session.visitor
      /\ \/ session'.did = session.did
         \/ session'.did \in DIDs /\ Owner[session'.did] = Owner[session.token]
  BY DEF Responds, TypeOK, AuthStates
<1>4. SessionIdentity'
  <2>1. CASE TokenMode
    BY <1>2, <1>3, <2>1 DEF SessionIdentity
  <2>2. CASE ~TokenMode
    <3>1. /\ MadeFor(session, cfg.username) /\ IsComplete(session)
          /\ LoadAuthAccount = cfg.username
          /\ [session EXCEPT !.did = db.did] = LoadAuthState
      BY <2>2 DEF SessionIdentity
    <3>2. MadeFor(session', cfg.username) /\ IsComplete(session')
      BY <1>3, <3>1, StoreAssumption DEF MadeFor, IsComplete
    <3> QED BY <1>1, <1>2, <1>3, <2>2, <3>1, <3>2 DEF SessionIdentity
  <2> QED BY <2>1, <2>2
<1>5. TokenModePath' /\ BeforeBinding'
  BY <1>2 DEF TokenModePath, BeforeBinding, SessionPCs
<1>6. AfterBinding'
  BY <1>1, <1>2 DEF AfterBinding, SessionPCs, LoginPCs, MadeFor
<1>7. AtSession'
  BY <1>1, <1>2 DEF AtSession, SessionPCs, IsComplete
<1> QED BY <1>1, <1>4, <1>5, <1>6, <1>7

(* The session calls, the write back and the report keep the invariant.    *)
LEMMA SessionIInv ==
  ASSUME IInv, RunWithSession, TypeOK'
  PROVE  IInv'
<1> USE DEF IInv, worldVars
<1>1. CASE NewSession
  <2>1. /\ IdentityBinding' /\ LoadAuthState' = LoadAuthState
        /\ LoadAuthAccount' = LoadAuthAccount
    BY <1>1, SameStore DEF NewSession
  <2>2. /\ pc' = "warmup" /\ cfg' = cfg /\ auth' = auth /\ session' = auth
        /\ db' = db /\ (TokenMode' <=> TokenMode)
    BY <1>1 DEF NewSession, TokenMode, Empty, storeVars
  <2>3. IsComplete(auth) /\ IF TokenMode THEN auth = cfg.tokenAuth ELSE LoadAuthState = auth
    BY <1>1 DEF NewSession, AtSession
  <2>4. ~TokenMode => LoadAuthAccount = cfg.username /\ MadeFor(auth, cfg.username)
    BY <1>1 DEF NewSession, AfterBinding
  <2>5. SessionIdentity'
    <3>1. CASE TokenMode
      <4>1. [auth EXCEPT !.did = auth.did] = auth
        BY DEF TypeOK, AuthStates
      <4> QED BY <2>2, <2>3, <3>1, <4>1 DEF SessionIdentity
    <3>2. CASE ~TokenMode
      <4>1. [auth EXCEPT !.did = db.did] = auth
        BY <2>3, <3>2 DEF TypeOK, AuthStates, LoadAuthState
      <4> QED BY <2>1, <2>2, <2>3, <2>4, <3>2, <4>1 DEF SessionIdentity, MadeFor, IsComplete
    <3> QED BY <3>1, <3>2
  <2>6. TokenModePath' /\ BeforeBinding'
    BY <2>2 DEF TokenModePath, BeforeBinding, SessionPCs
  <2>7. AfterBinding'
    BY <2>1, <2>2, <2>4 DEF AfterBinding, LoginPCs, MadeFor
  <2>8. AtSession'
    BY <2>1, <2>2, <2>3 DEF AtSession, IsComplete
  <2> QED BY <2>1, <2>5, <2>6, <2>7, <2>8
<1>2. ASSUME NEW here \in SessionPCs, NEW n, NEW next \in SessionPCs, Check(here, n, next)
      PROVE  IInv'
  <2>1. PICK e \in CallErrors : Responds(e, n) /\ pc' = IF e = "nil" THEN next ELSE "writeBack"
    BY <1>2 DEF Check
  <2>2. pc \in SessionPCs /\ pc' \in SessionPCs
    BY <1>2, <2>1 DEF Check, SessionPCs
  <2>3. UNCHANGED <<storeVars, cfg, auth>>
    BY <1>2 DEF Check
  <2> QED BY <2>1, <2>2, <2>3, CallIInv
<1>3. CASE Warmup \/ Profile \/ WarmupAgain
  BY <1>2, <1>3 DEF Warmup, Profile, WarmupAgain, SessionPCs
<1>4. CASE UpdateLastBrowse
  <2>1. PICK e \in CallErrors : Responds(e, "one")
    BY <1>4 DEF UpdateLastBrowse
  <2>2. pc \in SessionPCs /\ pc' \in SessionPCs /\ UNCHANGED <<storeVars, cfg, auth>>
    BY <1>4 DEF UpdateLastBrowse, SessionPCs
  <2> QED BY <2>1, <2>2, CallIInv
<1>5. CASE BrowseForum
  <2>1. PICK e \in ForumErrors : Responds(e, "several")
    BY <1>5 DEF BrowseForum
  <2>2. pc \in SessionPCs /\ pc' \in SessionPCs /\ UNCHANGED <<storeVars, cfg, auth>>
    BY <1>5 DEF BrowseForum, SessionPCs
  <2> QED BY <2>1, <2>2, CallIInv
<1>6. CASE WriteBack
  <2>1. PICK result \in Results :
          /\ SaveAuthState(session, base, result)
          /\ CASE result = "saved" -> pc' = "report" /\ UNCHANGED <<ret, msgs>>
               [] result = "stale" -> Return("changed", <<"identityChanged">>)
               [] result = "error" -> Return("store", <<>>)
    BY <1>6 DEF WriteBack
  <2>2. pc' \in {"report", "idle"}
    BY <2>1 DEF Return, Results
  <2>3. MadeFor(session, db.account)
    BY <1>6 DEF WriteBack, MustWriteBack, SessionIdentity, LoadAuthAccount, SessionPCs
  <2>4. IdentityBinding'
    BY <2>1, <2>3, SaveBound DEF TypeOK
  <2> QED BY <2>2, <2>4, Quiet DEF QuietPCs
<1>7. CASE SkipWriteBack
  <2>1. IdentityBinding' /\ pc' = "report"
    BY <1>7, SameStore DEF SkipWriteBack
  <2> QED BY <2>1, Quiet DEF QuietPCs
<1>8. CASE Report
  <2>1. IdentityBinding' /\ pc' = "idle"
    BY <1>8, SameStore DEF Report, Return
  <2> QED BY <2>1, Quiet DEF QuietPCs
<1> QED BY <1>1, <1>3, <1>4, <1>5, <1>6, <1>7, <1>8 DEF RunWithSession

(* The handling of a refused session keeps the invariant.                  *)
LEMMA ExpiredIInv ==
  ASSUME IInv, HandlePasswordAuthExpired, TypeOK'
  PROVE  IInv'
<1> USE DEF IInv, worldVars
<1>1. CASE Expired
  <2>1. IdentityBinding' /\ pc' = "expiredReset" /\ ~TokenMode'
    BY <1>1, SameStore DEF Expired, TokenMode, Empty
  <2> QED BY <2>1, Quiet DEF QuietPCs
<1>2. CASE ExpiredReset
  <2>1. ~TokenMode'
    BY <1>2 DEF ExpiredReset, TokenModePath, TokenMode, Empty, SessionPCs
  <2>2. CASE ResetAuthState("saved") /\ auth' = NoAuth /\ pc' = "expiredAccount"
    <3>1. IdentityBinding' /\ Empty(LoadAuthState')
      BY <2>2, ResetBound
    <3> QED BY <2>1, <2>2, <3>1
            DEF TokenModePath, BeforeBinding, AfterBinding, AtSession, SessionIdentity,
                SessionPCs, LoginPCs, Empty
  <2>3. CASE \E r : ResetAuthState(r) /\ pc' \in {"nextRunNotice", "expiredFailed"}
    <3>1. IdentityBinding'
      BY <2>3, ResetBound
    <3> QED BY <2>1, <2>3, <3>1, Quiet DEF QuietPCs
  <2> QED BY <1>2, <2>2, <2>3 DEF ExpiredReset
<1>3. CASE ExpiredFailed
  <2>1. IdentityBinding' /\ pc' = "idle"
    BY <1>3, SameStore DEF ExpiredFailed, Return
  <2> QED BY <2>1, Quiet DEF QuietPCs
<1>4. CASE RetryNotice
  <2>1. /\ IdentityBinding' /\ LoadAuthState' = LoadAuthState
        /\ LoadAuthAccount' = LoadAuthAccount
    BY <1>4, SameStore DEF RetryNotice
  <2>2. ~TokenMode /\ ~TokenMode' /\ cfg' = cfg /\ auth' = auth /\ pc' = "newSession"
    BY <1>4 DEF RetryNotice, TokenModePath, TokenMode, Empty, SessionPCs
  <2>3. /\ IsComplete(auth) /\ LoadAuthState = auth
        /\ LoadAuthAccount = cfg.username /\ MadeFor(auth, cfg.username)
    BY <1>4, <2>2 DEF RetryNotice, AtSession, AfterBinding
  <2> QED BY <2>1, <2>2, <2>3
          DEF TokenModePath, BeforeBinding, AfterBinding, AtSession, SessionIdentity,
              SessionPCs, LoginPCs, MadeFor, IsComplete
<1>5. CASE NextRunNotice
  <2>1. IdentityBinding' /\ pc' = "idle"
    BY <1>5, SameStore DEF NextRunNotice, Return
  <2> QED BY <2>1, Quiet DEF QuietPCs
<1> QED BY <1>1, <1>2, <1>3, <1>4, <1>5 DEF HandlePasswordAuthExpired

(* Every step keeps the invariant, a power loss at any point of a run      *)
(* included.                                                               *)
LEMMA NextIInv == IInv /\ [Next]_vars => IInv'
<1> SUFFICES ASSUME IInv, [Next]_vars PROVE IInv'
  OBVIOUS
<1>1. TypeOK'
  BY NextTyped DEF IInv
<1>2. CASE Start
  <2>1. IdentityBinding' /\ pc' = "resolve"
    BY <1>2, SameStore DEF Start, IInv
  <2> QED BY <1>1, <2>1, Quiet DEF QuietPCs
<1>3. CASE Restart
  <2>1. IdentityBinding' /\ pc' = "idle"
    BY <1>3 DEF Restart, Open, IInv, IdentityBinding, MadeFor
  <2> QED BY <1>1, <2>1, Quiet DEF QuietPCs
<1>4. CASE UNCHANGED <<storeVars, cfg, pc, auth, session>>
  <2>1. /\ IdentityBinding' /\ LoadAuthState' = LoadAuthState
        /\ LoadAuthAccount' = LoadAuthAccount /\ db' = db
    BY <1>4, SameStore DEF IInv, storeVars
  <2>2. /\ cfg' = cfg /\ pc' = pc /\ auth' = auth /\ session' = session
        /\ (TokenMode' <=> TokenMode)
    BY <1>4 DEF TokenMode, Empty
  <2> QED BY <1>1, <2>1, <2>2
          DEF IInv, TokenModePath, BeforeBinding, AfterBinding, AtSession, SessionIdentity,
              MadeFor, IsComplete, Empty
<1>5. CASE Heal \/ UNCHANGED vars
  BY <1>4, <1>5 DEF Heal, vars, runVars, storeVars
<1> QED BY <1>1, <1>2, <1>3, <1>5, ResolveIInv, SessionIInv, ExpiredIInv DEF Next, Run

(* Whatever crashes, power losses and changes of the configured account    *)
(* happen, the store never holds an identity under the name of an account  *)
(* it was not made for: Resolve and HandleAuthExpired reset before they    *)
(* bind, and bind before they save.                                        *)
THEOREM IdentityBound == Spec => []IdentityBinding
<1>1. IInv => IdentityBinding
  BY DEF IInv
<1> QED BY <1>1, InitIInv, NextIInv, PTL DEF Spec

(* Every browse session, the one after a retry included, carries a         *)
(* complete identity of the configured account, the stored one in password *)
(* mode and the configured one in token mode.                              *)
THEOREM SessionIdentityHolds == Spec => []SessionIdentity
<1>1. IInv => SessionIdentity
  BY DEF IInv
<1> QED BY <1>1, InitIInv, NextIInv, PTL DEF Spec

-----------------------------------------------------------------------------
(* A save at the current epoch is not refused as stale.                    *)
LEMMA NeverStale ==
  ASSUME NEW r \in Results, base = epoch,
         \/ \E s : SaveAuthState(s, base, r)
         \/ \E u : SaveAuthAccount(u, base, r)
  PROVE  r \in {"saved", "error"} /\ epoch' = epoch
BY DEF Results, SaveAuthState, SaveAuthAccount, NotWritten, EpochIsCurrent, storeVars

(* What a save makes of the run when it is not stale. *)
LEMMA SavedControl ==
  ASSUME NEW r \in {"saved", "error"}, NEW next, Saved(r, next)
  PROVE  \/ r = "saved" /\ pc' = next /\ err' = "nil"
         \/ r = "error" /\ pc' = FailedPC /\ err' = "store"
BY DEF Saved, SaveError

(* The control of Resolve and loginAndSave, in either phase.               *)
LEMMA ResolveControl ==
  ASSUME IInv, ControlInv, Resolve, TypeOK'
  PROVE  ControlInv'
<1> USE DEF ControlInv, RunOwnsEpoch, PhaseOfCalls, ErrorOfFailure, LoginsCounted, SaidSoFar,
            RetryLogsIn, ResolvePCs, LoginPCs, SessionPCs
<1>1. CASE ResolveToken
  <2>1. TokenMode' /\ cfg' = cfg
    BY <1>1 DEF ResolveToken, TokenMode, Empty
  <2> QED BY <1>1, <2>1 DEF ResolveToken
<1>2. CASE ResolveLoad
  <2>1. ~TokenMode' /\ base' = epoch'
    BY <1>2 DEF ResolveLoad, TokenMode, Empty, storeVars
  <2>2. pc' \in {"resolveReset", "resolveAccount", "resolveVisitor", "login", "newSession"}
    BY <1>2 DEF ResolveLoad, AfterAccount, AfterVisitor
  <2> QED BY <1>2, <2>1, <2>2 DEF ResolveLoad
<1>3. CASE ResolveLoadFails
  BY <1>3 DEF ResolveLoadFails
<1>4. CASE ResolveReset
  BY <1>4 DEF ResolveReset
<1>5. CASE BindAccount
  <2>1. PICK result \in Results :
          /\ SaveAuthAccount(cfg.username, base, result)
          /\ Saved(result, IF pc = "expiredAccount" THEN "expiredVisitor" ELSE AfterAccount(auth))
    BY <1>5 DEF BindAccount
  <2>2. ~TokenMode /\ auth = NoAuth
    BY <1>5 DEF BindAccount, IInv, TokenModePath, BeforeBinding
  <2>3. result \in {"saved", "error"} /\ epoch' = epoch /\ base = epoch
    BY <1>5, <2>1, <2>2, NeverStale DEF BindAccount
  <2>4. AfterAccount(auth) = "resolveVisitor"
    BY <2>2 DEF NoAuth, AfterAccount
  <2>5. \/ pc' = (IF pc = "expiredAccount" THEN "expiredVisitor" ELSE "resolveVisitor")
           /\ err' = "nil"
        \/ pc' = FailedPC /\ err' = "store"
    BY <2>1, <2>3, <2>4, SavedControl
  <2>6. /\ cfg' = cfg /\ phase' = phase /\ auth' = auth /\ base' = base /\ msgs' = msgs
        /\ ret' = ret /\ logins' = logins /\ rejected' = rejected
    BY <1>5 DEF BindAccount
  <2>7. CASE pc = "expiredAccount"
    BY <2>2, <2>3, <2>5, <2>6, <2>7 DEF FailedPC, NoAuth
  <2>8. CASE pc = "resolveAccount"
    BY <2>2, <2>3, <2>5, <2>6, <2>8 DEF FailedPC, NoAuth
  <2> QED BY <1>5, <2>7, <2>8 DEF BindAccount
<1>6. CASE NewVisitor
  <2>1. PICK v \in Visitors, result \in Results :
          /\ auth' = [auth EXCEPT !.visitor = v]
          /\ SaveAuthState(auth', base, result)
          /\ Saved(result, AfterVisitor(auth'))
    BY <1>6 DEF NewVisitor
  <2>2. ~TokenMode
    BY <1>6 DEF NewVisitor, IInv, TokenModePath
  <2>3. result \in {"saved", "error"} /\ epoch' = epoch /\ base = epoch
    BY <1>6, <2>1, <2>2, NeverStale DEF NewVisitor
  <2>4. auth'.token = auth.token
    BY <2>1 DEF IInv, TypeOK, AuthStates
  <2>5. \/ pc' \in {"login", "newSession"} /\ err' = "nil"
           /\ (auth.token = None => pc' = "login")
        \/ pc' = FailedPC /\ err' = "store"
    BY <2>1, <2>3, <2>4, SavedControl DEF AfterVisitor
  <2>6. /\ cfg' = cfg /\ phase' = phase /\ base' = base /\ msgs' = msgs
        /\ ret' = ret /\ logins' = logins /\ rejected' = rejected
    BY <1>6 DEF NewVisitor
  <2>7. CASE pc = "expiredVisitor"
    BY <2>3, <2>5, <2>6, <2>7 DEF FailedPC
  <2>8. CASE pc = "resolveVisitor"
    BY <2>3, <2>5, <2>6, <2>8 DEF FailedPC
  <2> QED BY <1>6, <2>7, <2>8 DEF NewVisitor
<1>7. CASE Login
  <2>1. /\ pc = "login" /\ logins' = logins + 1 /\ logins \in Nat
        /\ cfg' = cfg /\ phase' = phase /\ base' = base /\ msgs' = msgs
        /\ ret' = ret /\ rejected' = rejected /\ epoch' = epoch
    BY <1>7 DEF Login, storeVars, IInv, TypeOK
  <2>2. \/ pc' = "saveLogin" /\ err' = err
        \/ pc' = FailedPC /\ err' \in CallErrors \ {"nil"}
    BY <1>7, Zenon DEF Login
  <2>3. ~TokenMode
    BY <2>1 DEF IInv, TokenModePath
  <2>4. CASE phase = "first"
    BY <2>1, <2>2, <2>3, <2>4 DEF FailedPC, CallErrors
  <2>5. CASE phase = "retry"
    BY <2>1, <2>2, <2>3, <2>5 DEF FailedPC, CallErrors
  <2> QED BY <2>4, <2>5 DEF IInv, TypeOK
<1>8. CASE SaveLogin
  <2>1. PICK result \in Results :
          /\ SaveAuthState(auth, base, result)
          /\ Saved(result, IF phase = "first" THEN "newSession" ELSE "retryNotice")
    BY <1>8 DEF SaveLogin
  <2>2. ~TokenMode
    BY <1>8 DEF SaveLogin, IInv, TokenModePath
  <2>3. result \in {"saved", "error"} /\ epoch' = epoch /\ base = epoch
    BY <1>8, <2>1, <2>2, NeverStale DEF SaveLogin
  <2>4. \/ pc' = (IF phase = "first" THEN "newSession" ELSE "retryNotice") /\ err' = "nil"
        \/ pc' = FailedPC /\ err' = "store"
    BY <2>1, <2>3, SavedControl
  <2>5. /\ pc = "saveLogin" /\ cfg' = cfg /\ phase' = phase /\ base' = base
        /\ msgs' = msgs /\ ret' = ret /\ logins' = logins /\ rejected' = rejected
    BY <1>8 DEF SaveLogin
  <2>6. CASE phase = "first"
    BY <2>3, <2>4, <2>5, <2>6 DEF FailedPC
  <2>7. CASE phase = "retry"
    BY <2>3, <2>4, <2>5, <2>7 DEF FailedPC
  <2> QED BY <2>6, <2>7 DEF IInv, TypeOK
<1>9. CASE ResolveFailed
  BY <1>9 DEF ResolveFailed, Return
<1> QED BY <1>1, <1>2, <1>3, <1>4, <1>5, <1>6, <1>7, <1>8, <1>9 DEF Resolve

(* The control of the session calls, the write back and the report.        *)
LEMMA SessionControl ==
  ASSUME IInv, ControlInv, RunWithSession, TypeOK'
  PROVE  ControlInv'
<1> USE DEF ControlInv, RunOwnsEpoch, PhaseOfCalls, ErrorOfFailure, LoginsCounted, SaidSoFar,
            RetryLogsIn, ResolvePCs, LoginPCs, SessionPCs
<1>1. CASE NewSession
  <2>1. TokenMode' <=> TokenMode
    BY <1>1 DEF NewSession, TokenMode, Empty
  <2> QED BY <1>1, <2>1 DEF NewSession, storeVars
<1>2. ASSUME pc \in SessionPCs, pc' \in SessionPCs, err' \in CallErrors \cup {err},
             UNCHANGED <<storeVars, cfg, phase, base, msgs, ret, logins, rejected>>
      PROVE  ControlInv'
  <2>1. TokenMode' <=> TokenMode
    BY <1>2 DEF TokenMode, Empty
  <2> QED BY <1>2, <2>1 DEF storeVars, CallErrors
<1>3. CASE Warmup \/ Profile \/ WarmupAgain
  <2>1. PICK e \in CallErrors : err' = e /\ pc' \in SessionPCs
    BY <1>3 DEF Warmup, Profile, WarmupAgain, Check
  <2>2. pc \in SessionPCs /\ UNCHANGED <<storeVars, cfg, phase, base, msgs, ret, logins, rejected>>
    BY <1>3 DEF Warmup, Profile, WarmupAgain, Check
  <2> QED BY <1>2, <2>1, <2>2
<1>4. CASE UpdateLastBrowse
  BY <1>2, <1>4 DEF UpdateLastBrowse
<1>5. CASE BrowseForum
  <2>1. err' \in CallErrors
    BY <1>5 DEF BrowseForum, ChecksError, ForumErrors, ShouldPropagateForumError, IInv, TypeOK
  <2> QED BY <1>2, <1>5, <2>1 DEF BrowseForum
<1>6. CASE WriteBack
  <2>1. PICK result \in Results :
          /\ SaveAuthState(session, base, result)
          /\ CASE result = "saved" -> pc' = "report" /\ UNCHANGED <<ret, msgs>>
               [] result = "stale" -> Return("changed", <<"identityChanged">>)
               [] result = "error" -> Return("store", <<>>)
    BY <1>6 DEF WriteBack
  <2>2. result \in {"saved", "error"} /\ epoch' = epoch /\ base = epoch
    BY <1>6, <2>1, NeverStale DEF WriteBack, MustWriteBack
  <2>3. \/ pc' = "report" /\ ret' = ret /\ msgs' = msgs
        \/ pc' = "idle" /\ ret' = "store"
    BY <2>1, <2>2 DEF Return
  <2>4. /\ pc = "writeBack" /\ cfg' = cfg /\ phase' = phase /\ base' = base /\ err' = err
        /\ logins' = logins /\ rejected' = rejected /\ session' = session
    BY <1>6 DEF WriteBack
  <2>5. session.token # None
    BY <1>6 DEF WriteBack, MustWriteBack, IInv, SessionIdentity, IsComplete
  <2> QED BY <2>2, <2>3, <2>4, <2>5
<1>7. CASE SkipWriteBack
  <2>1. TokenMode' <=> TokenMode
    BY <1>7 DEF SkipWriteBack, TokenMode, Empty
  <2>2. ~TokenMode => session.token # None
    BY <1>7 DEF SkipWriteBack, IInv, SessionIdentity, IsComplete
  <2> QED BY <1>7, <2>1, <2>2 DEF SkipWriteBack, runVars, storeVars
<1>8. CASE Report
  <2>1. pc = "report" /\ pc' = "idle" /\ ret' = err
    BY <1>8 DEF Report, Return
  <2>2. /\ cfg' = cfg /\ phase' = phase /\ err' = err
        /\ logins' = logins /\ rejected' = rejected
    BY <1>8 DEF Report
  <2> QED BY <2>1, <2>2
<1> QED BY <1>1, <1>3, <1>4, <1>5, <1>6, <1>7, <1>8 DEF RunWithSession

(* The control of the handling of a refused session.                       *)
LEMMA ExpiredControl ==
  ASSUME IInv, ControlInv, HandlePasswordAuthExpired, TypeOK'
  PROVE  ControlInv'
<1> USE DEF ControlInv, RunOwnsEpoch, PhaseOfCalls, ErrorOfFailure, LoginsCounted, SaidSoFar,
            RetryLogsIn, ResolvePCs, LoginPCs, SessionPCs
<1>1. CASE Expired
  BY <1>1 DEF Expired, storeVars
<1>2. CASE ExpiredReset
  <2>1. pc = "expiredReset" /\ phase = "first" /\ logins <= 1 /\ rejected # None
    BY <1>2 DEF ExpiredReset
  <2>2. /\ cfg' = cfg /\ msgs' = msgs /\ ret' = ret /\ logins' = logins
        /\ rejected' = rejected
    BY <1>2 DEF ExpiredReset
  <2>3. CASE /\ base' = epoch' /\ auth' = NoAuth /\ phase' = "retry" /\ err' = err
             /\ pc' = IF cfg.retry THEN "expiredAccount" ELSE "nextRunNotice"
    <3>1. logins \in Nat
      BY DEF IInv, TypeOK
    <3> QED BY <2>1, <2>2, <2>3, <3>1 DEF NoAuth
  <2>4. CASE err' = "resetFailed" /\ pc' = "expiredFailed" /\ phase' = phase
    BY <2>1, <2>2, <2>4
  <2> QED BY <1>2, <2>3, <2>4 DEF ExpiredReset
<1>3. CASE ExpiredFailed
  BY <1>3 DEF ExpiredFailed, Return
<1>4. CASE RetryNotice
  <2>1. msgs = <<>> /\ msgs' = Append(msgs, "passwordAuthExpiredRetry")
    BY <1>4 DEF RetryNotice
  <2>2. msgs' = <<"passwordAuthExpiredRetry">>
    BY <2>1
  <2>3. ~TokenMode /\ epoch' = epoch
    BY <1>4 DEF RetryNotice, IInv, TokenModePath, storeVars
  <2> QED BY <1>4, <2>2, <2>3 DEF RetryNotice
<1>5. CASE NextRunNotice
  BY <1>5 DEF NextRunNotice, Return
<1> QED BY <1>1, <1>2, <1>3, <1>4, <1>5 DEF HandlePasswordAuthExpired

(* Every step keeps the control of the run. *)
LEMMA NextControl == IInv /\ ControlInv /\ [Next]_vars => ControlInv'
<1> SUFFICES ASSUME IInv, ControlInv, [Next]_vars PROVE ControlInv'
  OBVIOUS
<1> USE DEF ControlInv, RunOwnsEpoch, PhaseOfCalls, ErrorOfFailure, LoginsCounted, SaidSoFar,
            RetryLogsIn, ResolvePCs, LoginPCs, SessionPCs
<1>1. TypeOK'
  BY NextTyped DEF IInv
<1>2. CASE Start \/ Restart
  BY <1>2 DEF Start, Restart, FreshRun
<1>3. CASE UNCHANGED <<storeVars, cfg, pc, runVars>>
  <2>1. TokenMode' <=> TokenMode
    BY <1>3 DEF TokenMode, Empty
  <2> QED BY <1>3, <2>1 DEF storeVars, runVars
<1>4. CASE Heal \/ UNCHANGED vars
  BY <1>3, <1>4 DEF Heal, vars, runVars, storeVars
<1> QED BY <1>1, <1>2, <1>4, ResolveControl, SessionControl, ExpiredControl DEF Next, Run

(* Before the first run no control has been exercised. *)
LEMMA InitControl == Init => ControlInv
BY DEF Init, ControlInv, RunOwnsEpoch, PhaseOfCalls, ErrorOfFailure, LoginsCounted, SaidSoFar,
       RetryLogsIn, ResolvePCs, LoginPCs, SessionPCs

(* Runs exclude each other, so the epoch a run was handed stays the        *)
(* store's until the run ends: SaveAuthState and SaveAuthAccount never     *)
(* refuse it as stale, and RefreshIdentityChanged is never reported.       *)
THEOREM RunOwnsEpochHolds == Spec => []RunOwnsEpoch
<1>1. ControlInv => RunOwnsEpoch
  BY DEF ControlInv
<1> QED BY <1>1, InitIInv, NextIInv, InitControl, NextControl, PTL DEF Spec

(* A refresh logs in at most once, and a second time only when             *)
(* retry_on_auth_failure is set and the server refused the first session.  *)
THEOREM NoLoginLoopHolds == Spec => []NoLoginLoop
<1>1. IInv /\ ControlInv => NoLoginLoop
  BY DEF IInv, TypeOK, ControlInv, PhaseOfCalls, LoginsCounted, NoLoginLoop
<1> QED BY <1>1, InitIInv, NextIInv, InitControl, NextControl, PTL DEF Spec

(* Token mode neither writes the store nor logs in: Resolve returns before *)
(* it touches the store, and runWithSession skips the write back.          *)
THEOREM TokenModeReadOnlyHolds == Spec => TokenModeReadOnly
<1>1. ASSUME IInv, [Next]_vars, TokenMode, ~Restart, ~Start
      PROVE  UNCHANGED <<storeVars, logins>>
  <2>1. pc \in {"idle", "resolve", "newSession", "report"} \cup SessionPCs
    BY <1>1 DEF IInv, TokenModePath
  <2>2. CASE Resolve
    <3>1. ResolveToken
      BY <1>1, <2>1, <2>2
         DEF Resolve, ResolveLoad, ResolveLoadFails, ResolveReset, BindAccount, NewVisitor,
             Login, SaveLogin, ResolveFailed, SessionPCs
    <3> QED BY <3>1 DEF ResolveToken
  <2>3. CASE RunWithSession
    <3>1. ~WriteBack
      BY <1>1 DEF WriteBack, MustWriteBack
    <3> QED BY <2>3, <3>1
            DEF RunWithSession, NewSession, Warmup, Profile, WarmupAgain, Check,
                UpdateLastBrowse, BrowseForum, SkipWriteBack, Report, runVars
  <2>4. CASE HandlePasswordAuthExpired
    BY <1>1, <2>1, <2>4
       DEF HandlePasswordAuthExpired, Expired, ExpiredReset, ExpiredFailed, RetryNotice,
           NextRunNotice, SessionPCs
  <2>5. CASE Heal \/ UNCHANGED vars
    BY <2>5 DEF Heal, vars, storeVars, runVars
  <2> QED BY <1>1, <2>2, <2>3, <2>4, <2>5 DEF Next, Run
<1>2. IInv /\ [Next]_vars
        => [TokenMode /\ ~Restart => UNCHANGED <<storeVars, logins>> \/ Start]_vars
  BY <1>1
<1> QED BY <1>2, InitIInv, NextIInv, PTL DEF Spec, TokenModeReadOnly

-----------------------------------------------------------------------------
(* A batch that is not a reset holds the fields it was given.              *)
LEMMA SaveStores ==
  ASSUME StoreTypeOK, NEW s \in AuthStates, NEW e, NEW r, SaveAuthState(s, e, r)
  PROVE  /\ r = "saved" => /\ db'.token = s.token /\ db'.did = s.did
                           /\ db'.visitor = s.visitor /\ db'.account = db.account
         /\ r # "saved" => db' = db
BY DEF StoreTypeOK, Contents, SaveAuthState, NotWritten, Write, storeVars

(* Binding the account leaves the identity alone. *)
LEMMA BindStores ==
  ASSUME StoreTypeOK, NEW u, NEW e, NEW r, SaveAuthAccount(u, e, r)
  PROVE  db'.token = db.token /\ db'.did = db.did /\ db'.visitor = db.visitor
BY DEF StoreTypeOK, Contents, SaveAuthAccount, NotWritten, Write, storeVars

(* When a verdict of a session is about to be reported, the store holds    *)
(* what the session ended with.                                            *)
LEMMA NextStoreAtReport ==
  ASSUME IInv, ControlInv, StoreAtReport, [Next]_vars, TypeOK'
  PROVE  StoreAtReport'
<1> USE DEF StoreAtReport, ResolvePCs, LoginPCs, SessionPCs
<1>1. CASE Start \/ Restart
  BY <1>1 DEF Start, Restart, FreshRun
<1>2. CASE Resolve
  <2>1. session' = session /\ phase' = phase /\ pc' # "report"
    <3>1. pc' # "report"
      BY <1>2 DEF Resolve, ResolveToken, ResolveLoad, ResolveLoadFails, ResolveReset,
                  BindAccount, NewVisitor, Login, SaveLogin, ResolveFailed, Return,
                  Saved, FailedPC, AfterAccount, AfterVisitor
    <3> QED BY <1>2, <3>1
            DEF Resolve, ResolveToken, ResolveLoad, ResolveLoadFails, ResolveReset,
                BindAccount, NewVisitor, Login, SaveLogin, ResolveFailed
  <2>2. phase = "first" /\ session # NoAuth => pc \in {"expiredAccount", "expiredVisitor"}
    BY <1>2 DEF Resolve, ResolveToken, ResolveLoad, ResolveLoadFails, ResolveReset,
                BindAccount, NewVisitor, Login, SaveLogin, ResolveFailed
  <2>3. phase = "first" => session = NoAuth
    BY <2>2 DEF ControlInv, PhaseOfCalls
  <2> QED BY <2>1, <2>3
<1>3. CASE NewSession \/ Warmup \/ Profile \/ WarmupAgain \/ UpdateLastBrowse \/ BrowseForum
  <2>1. pc' \in SessionPCs
    BY <1>3 DEF NewSession, Warmup, Profile, WarmupAgain, Check, UpdateLastBrowse, BrowseForum
  <2> QED BY <2>1
<1>4. CASE WriteBack
  <2>1. PICK result \in Results :
          /\ SaveAuthState(session, base, result)
          /\ CASE result = "saved" -> pc' = "report" /\ UNCHANGED <<ret, msgs>>
               [] result = "stale" -> Return("changed", <<"identityChanged">>)
               [] result = "error" -> Return("store", <<>>)
    BY <1>4 DEF WriteBack
  <2>2. LoadAuthAccount = cfg.username /\ MadeFor(session, db.account)
    BY <1>4 DEF WriteBack, MustWriteBack, IInv, SessionIdentity, LoadAuthAccount
  <2>3. /\ LoadAuthAccount' = cfg.username
        /\ result = "saved" => LoadAuthState' = session
    BY <2>1, <2>2, SaveBound DEF IInv, TypeOK
  <2>6. result = "saved" => db'.token = session.token
    BY <2>1, SaveStores DEF IInv, TypeOK
  <2>4. pc' \in {"report", "idle"} /\ (pc' = "report" => result = "saved")
    BY <2>1 DEF Results, Return
  <2>5. session' = session /\ cfg' = cfg
    BY <1>4 DEF WriteBack
  <2> QED BY <2>3, <2>4, <2>5, <2>6
<1>5. CASE SkipWriteBack
  <2>1. /\ LoadAuthState' = LoadAuthState /\ LoadAuthAccount' = LoadAuthAccount
        /\ cfg' = cfg /\ session' = session /\ err' = err /\ pc' = "report"
        /\ (TokenMode' <=> TokenMode)
    BY <1>5 DEF SkipWriteBack, runVars, storeVars, LoadAuthState, LoadAuthAccount, TokenMode,
                Empty
  <2>2. ~TokenMode /\ err # "auth" => session = auth
    BY <1>5 DEF SkipWriteBack, MustWriteBack
  <2>3. ~TokenMode => LoadAuthState = auth /\ LoadAuthAccount = cfg.username
    BY <1>5 DEF SkipWriteBack, IInv, AtSession, AfterBinding
  <2>4. ~TokenMode => db.token = session.token
    <3>1. ~TokenMode => [session EXCEPT !.did = db.did] = LoadAuthState
      BY <1>5 DEF SkipWriteBack, IInv, SessionIdentity
    <3> QED BY <3>1 DEF LoadAuthState, IInv, TypeOK, AuthStates
  <2>5. db' = db
    BY <1>5 DEF SkipWriteBack, storeVars
  <2> QED BY <2>1, <2>2, <2>3, <2>4, <2>5
<1>6. CASE Report \/ HandlePasswordAuthExpired
  <2>1. pc' \in {"idle", "expiredReset", "expiredAccount", "expiredFailed", "nextRunNotice",
                 "newSession"}
    BY <1>6 DEF Report, HandlePasswordAuthExpired, Expired, ExpiredReset, ExpiredFailed,
                RetryNotice, NextRunNotice, Return
  <2> QED BY <2>1
<1>7. CASE UNCHANGED <<storeVars, cfg, pc, runVars>>
  <2>1. (TokenMode' <=> TokenMode) /\ LoadAuthState' = LoadAuthState /\ LoadAuthAccount' = LoadAuthAccount
    BY <1>7 DEF TokenMode, Empty, storeVars, LoadAuthState, LoadAuthAccount
  <2> QED BY <1>7, <2>1 DEF runVars, storeVars
<1>8. CASE Heal \/ UNCHANGED vars
  BY <1>7, <1>8 DEF Heal, vars, runVars, storeVars
<1> QED BY <1>1, <1>2, <1>3, <1>4, <1>5, <1>6, <1>8 DEF Next, Run, RunWithSession

(* Once the reset of a refused identity is written, the refused token does *)
(* not come back, and only a saved login brings another.                   *)
LEMMA NextErased ==
  ASSUME IInv, ControlInv, ErasedInRetry, [Next]_vars, TypeOK'
  PROVE  ErasedInRetry'
<1> USE DEF ErasedInRetry, LoginPCs
<1>1. CASE Start \/ Restart
  BY <1>1 DEF Start, Restart, FreshRun
<1>2. CASE ResolveToken \/ ResolveLoad \/ ResolveLoadFails \/ ResolveReset
  <2>1. phase' = "first" /\ pc' # "nextRunNotice"
    <3>1. pc \in ResolvePCs /\ phase' = phase
      BY <1>2 DEF ResolveToken, ResolveLoad, ResolveLoadFails, ResolveReset, ResolvePCs
    <3>2. pc' # "nextRunNotice"
      BY <1>2 DEF ResolveToken, ResolveLoad, ResolveLoadFails, ResolveReset, AfterAccount, AfterVisitor
    <3> QED BY <3>1, <3>2 DEF ControlInv, PhaseOfCalls
  <2> QED BY <2>1
<1>3. CASE BindAccount
  <2>1. PICK result \in Results :
          /\ SaveAuthAccount(cfg.username, base, result)
          /\ Saved(result, IF pc = "expiredAccount" THEN "expiredVisitor" ELSE AfterAccount(auth))
    BY <1>3 DEF BindAccount
  <2>2. db'.token = db.token /\ db'.did = db.did
    BY <2>1, BindStores DEF IInv, TypeOK
  <2>3. pc' # "nextRunNotice"
    BY <2>1 DEF Saved, FailedPC, AfterAccount, AfterVisitor
  <2>4. phase = "retry" => pc = "expiredAccount"
    BY <1>3 DEF BindAccount, ControlInv, PhaseOfCalls, ResolvePCs
  <2> QED BY <1>3, <2>2, <2>3, <2>4 DEF BindAccount
<1>4. CASE NewVisitor
  <2>1. PICK v \in Visitors, result \in Results :
          /\ auth' = [auth EXCEPT !.visitor = v]
          /\ SaveAuthState(auth', base, result)
          /\ Saved(result, AfterVisitor(auth'))
    BY <1>4 DEF NewVisitor
  <2>2. auth'.token = auth.token /\ auth'.did = auth.did /\ auth' \in AuthStates
    BY <2>1 DEF IInv, TypeOK, AuthStates
  <2>3. \/ db'.token = auth.token /\ db'.did = auth.did
        \/ db' = db
    BY <2>1, <2>2, SaveStores DEF IInv, TypeOK
  <2>4. pc' # "nextRunNotice"
    BY <2>1 DEF Saved, FailedPC, AfterVisitor
  <2>5. phase = "retry" => auth.token = None /\ auth.did = None /\ pc = "expiredVisitor"
    BY <1>4 DEF NewVisitor, ControlInv, PhaseOfCalls, ResolvePCs, RetryLogsIn
  <2> QED BY <1>4, <2>2, <2>3, <2>4, <2>5 DEF NewVisitor
<1>5. CASE Login
  <2>1. /\ pc = "login" /\ db' = db /\ phase' = phase /\ rejected' = rejected
        /\ pc' # "nextRunNotice"
    BY <1>5 DEF Login, storeVars, FailedPC
  <2>2. auth'.token = auth.token \/ auth'.token # rejected
    <3>1. CASE \E t \in Tokens, d \in DIDs :
                 t # rejected /\ auth' = [auth EXCEPT !.token = t, !.did = d]
      BY <3>1 DEF IInv, TypeOK, AuthStates
    <3>2. CASE auth' = auth
      BY <3>2
    <3> QED BY <1>5, <3>1, <3>2, Zenon DEF Login
  <2> QED BY <2>1, <2>2
<1>6. CASE SaveLogin
  <2>1. PICK result \in Results :
          /\ SaveAuthState(auth, base, result)
          /\ Saved(result, IF phase = "first" THEN "newSession" ELSE "retryNotice")
    BY <1>6 DEF SaveLogin
  <2>2. /\ result = "saved" => db'.token = auth.token
        /\ result # "saved" => db' = db
    BY <2>1, SaveStores DEF IInv, TypeOK
  <2>3. pc' \in (IF result = "saved" THEN {"newSession", "retryNotice"}
                                     ELSE {"resolveFailed", "expiredFailed"})
    BY <2>1 DEF Saved, FailedPC
  <2>4. /\ pc = "saveLogin" /\ phase' = phase /\ rejected' = rejected /\ auth' = auth
    BY <1>6 DEF SaveLogin
  <2> QED BY <2>2, <2>3, <2>4
<1>7. CASE \/ ResolveFailed \/ NewSession \/ Warmup \/ Profile \/ WarmupAgain
           \/ UpdateLastBrowse \/ BrowseForum \/ SkipWriteBack \/ Report
           \/ ExpiredFailed \/ RetryNotice \/ NextRunNotice
  <2>1. db' = db /\ auth' = auth /\ phase' = phase /\ rejected' = rejected
    BY <1>7 DEF ResolveFailed, NewSession, Warmup, Profile, WarmupAgain, Check,
                UpdateLastBrowse, BrowseForum, SkipWriteBack, Report, ExpiredFailed,
                RetryNotice, NextRunNotice, runVars, storeVars
  <2>2. pc' \in {"idle", "newSession", "report"} \cup SessionPCs
    BY <1>7 DEF ResolveFailed, NewSession, Warmup, Profile, WarmupAgain, Check,
                UpdateLastBrowse, BrowseForum, SkipWriteBack, Report, ExpiredFailed,
                RetryNotice, NextRunNotice, Return, SessionPCs
  <2> QED BY <2>1, <2>2 DEF SessionPCs
<1>8. CASE WriteBack
  <2>1. PICK result \in Results : SaveAuthState(session, base, result)
    BY <1>8 DEF WriteBack
  <2>2. session.token = db.token
    <3>1. [session EXCEPT !.did = db.did] = LoadAuthState
      BY <1>8 DEF WriteBack, MustWriteBack, IInv, SessionIdentity, SessionPCs
    <3> QED BY <3>1 DEF LoadAuthState, IInv, TypeOK, AuthStates
  <2>3. db'.token = db.token
    BY <2>1, <2>2, SaveStores DEF IInv, TypeOK
  <2>4. auth' = auth /\ phase' = phase /\ rejected' = rejected /\ pc' \in {"idle", "report"}
    BY <1>8 DEF WriteBack, Return, Results
  <2> QED BY <2>3, <2>4
<1>9. CASE Expired
  BY <1>9 DEF Expired
<1>10. CASE ExpiredReset
  <2>1. rejected' = rejected /\ rejected # None
    BY <1>10 DEF ExpiredReset, ControlInv, PhaseOfCalls
  <2>2. CASE ResetAuthState("saved") /\ auth' = NoAuth
    <3>1. db' = NoContents
      BY <2>2 DEF ResetAuthState, ResetContents, Write
    <3> QED BY <2>1, <2>2, <3>1 DEF NoContents, NoAuth
  <2>3. CASE phase' = phase /\ pc' = "expiredFailed"
    BY <1>10, <2>3 DEF ExpiredReset, ControlInv, PhaseOfCalls
  <2> QED BY <1>10, <2>2, <2>3 DEF ExpiredReset
<1>11. CASE Heal \/ UNCHANGED vars
  BY <1>11 DEF Heal, vars, runVars, storeVars
<1> QED BY <1>1, <1>2, <1>3, <1>4, <1>5, <1>6, <1>7, <1>8, <1>9, <1>10, <1>11
        DEF Next, Run, Resolve, RunWithSession, HandlePasswordAuthExpired

-----------------------------------------------------------------------------
(* One message after another. *)
LEMMA TwoMessages ==
  ASSUME NEW s \in Seq(Messages), NEW t \in Seq(Messages), Len(s) = 1, Len(t) = 1
  PROVE  Len(s \o t) = 2 /\ (s \o t)[1] = s[1] /\ (s \o t)[2] = t[1]
<1>1. Len(s \o t) = 2
  OBVIOUS
<1>2. (s \o t)[1] = s[1]
  OBVIOUS
<1>3. (s \o t)[2] = t[1]
  BY <1>1
<1> QED BY <1>1, <1>2, <1>3

(* A returning run appends its message to the notice of a retry, or to     *)
(* nothing.                                                                *)
LEMMA ReturnSays ==
  ASSUME SaidSoFar, pc # "idle", NEW m \in Messages, NEW e, Return(e, <<m>>)
  PROVE  /\ pc' = "idle" /\ ret' = e /\ LastMsg' = m
         /\ \A i \in 1..(Len(msgs') - 1) : msgs'[i] = "passwordAuthExpiredRetry"
         /\ \A x : msgs' = <<x>> => x = m /\ msgs = <<>>
         /\ Len(msgs') = 2 => msgs # <<>>
<1>1. msgs' = msgs \o <<m>>
  BY DEF Return
<1>2. CASE msgs = <<>>
  <2>1. msgs' = <<m>>
    BY <1>1, <1>2
  <2>2. Len(msgs') = 1
    BY <2>1
  <2> QED BY <1>2, <2>1, <2>2 DEF LastMsg, Return
<1>3. CASE msgs = <<"passwordAuthExpiredRetry">>
  <2>1. Len(msgs) = 1 /\ msgs \in Seq(Messages) /\ <<m>> \in Seq(Messages)
        /\ Len(<<m>>) = 1 /\ msgs[1] = "passwordAuthExpiredRetry" /\ <<m>>[1] = m
    BY <1>3 DEF Messages
  <2>2. Len(msgs') = 2 /\ msgs'[1] = "passwordAuthExpiredRetry" /\ msgs'[2] = m
    <3> DEFINE t == <<m>>
    <3> HIDE DEF t
    <3>1. /\ t \in Seq(Messages) /\ Len(t) = 1 /\ t[1] = m
          /\ msgs \in Seq(Messages) /\ Len(msgs) = 1 /\ msgs' = msgs \o t
      BY <1>1, <2>1 DEF t
    <3> QED BY <2>1, <3>1, TwoMessages
  <2>3. \A i \in 1..(Len(msgs') - 1) : i = 1
    BY <2>2
  <2>4. msgs' # <<>> /\ \A x : msgs' # <<x>>
    BY <2>2
  <2>5. msgs # <<>>
    BY <1>3
  <2> QED BY <2>2, <2>3, <2>4, <2>5 DEF LastMsg, Return
<1> QED BY <1>2, <1>3 DEF SaidSoFar

(* What the last run told the user, taken together. *)
Told == OutcomeReported /\ RotationKept /\ ExpiredIdentityErased

(* A run in progress, and a process that has not run yet, has told         *)
(* nothing.                                                                *)
LEMMA NotEndedTold ==
  ASSUME ~Ended', \/ msgs' = <<>>
                  \/ msgs' = <<"passwordAuthExpiredRetry">>
  PROVE  Told'
<1>1. Len(msgs') \in {0, 1}
  <2>1. CASE msgs' = <<>>
    BY <2>1
  <2>2. CASE msgs' = <<"passwordAuthExpiredRetry">>
    BY <2>2
  <2> QED BY <2>1, <2>2
<1>2. \A i \in 1..(Len(msgs') - 1) : msgs'[i] = "passwordAuthExpiredRetry"
  BY <1>1
<1> QED BY <1>2 DEF Told, OutcomeReported, RotationKept, ExpiredIdentityErased

(* What a run that returns with a message has to have done by then.        *)
LEMMA ReturnTold ==
  ASSUME IInv, ControlInv, ErasedInRetry, pc \notin {"idle", "expiredReset"},
         NEW m \in Messages, NEW e, Return(e, <<m>>),
         UNCHANGED <<storeVars, cfg, phase, session, rejected>>,
         m # "passwordAuthExpiredRetry",
         e = "nil" <=> m = "refreshSucceeded",
         pc = "expiredFailed" /\ phase = "first" => m = "identityResetFailed",
         ~TokenMode /\ session # NoAuth /\ m \in {"refreshSucceeded", "refreshFailed"}
           => LoadAuthState = session /\ LoadAuthAccount = cfg.username,
         m = "passwordAuthExpiredNextRun" => db = NoContents,
         m = "reloginFailed" /\ msgs = <<>> => db.token = None /\ db.did = None,
         m = "reloginFailed" /\ msgs # <<>> => db.token = session.token
  PROVE  Told'
<1>1. /\ pc' = "idle" /\ ret' = e /\ LastMsg' = m
      /\ \A i \in 1..(Len(msgs') - 1) : msgs'[i] = "passwordAuthExpiredRetry"
      /\ \A x : msgs' = <<x>> => x = m /\ msgs = <<>>
      /\ Len(msgs') = 2 => msgs # <<>>
  BY ReturnSays DEF ControlInv
<1>2. /\ db' = db /\ LoadAuthState' = LoadAuthState /\ LoadAuthAccount' = LoadAuthAccount
      /\ (TokenMode' <=> TokenMode)
  BY DEF storeVars, LoadAuthState, LoadAuthAccount, TokenMode, Empty
<1>3. OutcomeReported'
  <2>1. m # "none"
    BY DEF Messages
  <2> QED BY <1>1, <2>1 DEF OutcomeReported
<1>4. RotationKept'
  BY <1>1, <1>2 DEF RotationKept
<1>5. rejected # None /\ m # "identityResetFailed" => db.token # rejected
  <2>1. CASE phase = "retry"
    BY <2>1 DEF ErasedInRetry
  <2>2. CASE phase = "first"
    <3>1. rejected # None => pc \in {"expiredReset", "expiredFailed"}
      BY <2>2 DEF ControlInv, PhaseOfCalls
    <3> QED BY <2>2, <3>1
  <2> QED BY <2>1, <2>2 DEF IInv, TypeOK
<1>6. ExpiredIdentityErased'
  BY <1>1, <1>2, <1>5 DEF ExpiredIdentityErased
<1> QED BY <1>3, <1>4, <1>6 DEF Told

(* Every step leaves what the last run told the user true: the runs in     *)
(* progress have told nothing, and only a return says more.                *)
LEMMA NextTold ==
  ASSUME IInv, ControlInv, StoreAtReport, ErasedInRetry, Told, [Next]_vars, ControlInv',
         ErasedInRetry'
  PROVE  Told'
<1>1. ASSUME pc' # "idle" PROVE Told'
  BY <1>1, NotEndedTold DEF ControlInv, SaidSoFar, Ended
<1>2. CASE Restart
  BY <1>2, NotEndedTold DEF Restart, FreshRun, Ended
<1>3. CASE ResolveFailed
  <2>1. /\ pc = "resolveFailed" /\ phase = "first" /\ err # "nil" /\ session = NoAuth
    BY <1>3 DEF ResolveFailed, ControlInv, PhaseOfCalls, ErrorOfFailure, StoreAtReport
  <2>2. /\ Return(err, <<"refreshFailed">>)
        /\ UNCHANGED <<storeVars, cfg, phase, session, rejected>>
    BY <1>3 DEF ResolveFailed
  <2> QED BY <2>1, <2>2, ReturnTold DEF Messages
<1>4. CASE WriteBack
  <2>1. CASE pc' # "idle"
    BY <1>1, <2>1
  <2>2. CASE pc' = "idle"
    <3>1. PICK result \in Results :
            /\ SaveAuthState(session, base, result)
            /\ CASE result = "saved" -> pc' = "report" /\ UNCHANGED <<ret, msgs>>
                 [] result = "stale" -> Return("changed", <<"identityChanged">>)
                 [] result = "error" -> Return("store", <<>>)
      BY <1>4 DEF WriteBack
    <3>2. ~TokenMode /\ base = epoch /\ pc = "writeBack" /\ session # auth
      BY <1>4 DEF WriteBack, MustWriteBack, ControlInv, RunOwnsEpoch
    <3>3. result = "error"
      BY <2>2, <3>1, <3>2, NeverStale
    <3>4. ret' = "store" /\ msgs' = msgs \o <<>>
      BY <3>1, <3>3 DEF Return
    <3>5. msgs' \in {<<>>, <<"passwordAuthExpiredRetry">>}
      BY <3>2, <3>4 DEF ControlInv, SaidSoFar
    <3>6. /\ session' = session /\ auth' = auth /\ (TokenMode' <=> TokenMode)
          /\ phase' = phase /\ rejected' = rejected
      BY <1>4 DEF WriteBack, TokenMode, Empty
    <3>7. LastMsg' \in {"none", "passwordAuthExpiredRetry"}
      BY <3>5 DEF LastMsg
    <3>8. \A i \in 1..(Len(msgs') - 1) : msgs'[i] = "passwordAuthExpiredRetry"
      BY <3>5
    <3>9. OutcomeReported' /\ RotationKept'
      BY <3>2, <3>4, <3>6, <3>7, <3>8 DEF OutcomeReported, RotationKept
    <3>10. rejected' # None => db'.token # rejected'
      BY <3>2, <3>6 DEF ControlInv, PhaseOfCalls, ErasedInRetry, IInv, TypeOK
    <3>11. msgs' # <<"reloginFailed">>
      BY <3>5
    <3> QED BY <3>7, <3>9, <3>10, <3>11 DEF Told, ExpiredIdentityErased
  <2> QED BY <2>1, <2>2
<1>5. CASE Report
  <2>1. /\ pc = "report" /\ err \in Errors
        /\ UNCHANGED <<storeVars, cfg, phase, session, rejected>>
    BY <1>5 DEF Report, IInv, TypeOK
  <2>2. ~TokenMode /\ err # "auth" => LoadAuthState = session /\ LoadAuthAccount = cfg.username
    BY <2>1 DEF StoreAtReport
  <2>3. CASE err = "nil" /\ Return("nil", <<"refreshSucceeded">>)
    BY <2>1, <2>2, <2>3, ReturnTold DEF Messages
  <2>4. CASE err = "auth" /\ TokenMode /\ Return("auth", <<"tokenAuthExpired">>)
    BY <2>1, <2>2, <2>4, ReturnTold DEF Messages
  <2>5. CASE err = "auth" /\ ~TokenMode /\ phase = "retry" /\ Return("auth", <<"reloginFailed">>)
    <3>1. msgs # <<>>
      BY <2>1, <2>5 DEF ControlInv, SaidSoFar
    <3>2. db.token = session.token
      BY <2>1, <2>5 DEF StoreAtReport
    <3> QED BY <2>1, <2>2, <2>5, <3>1, <3>2, ReturnTold DEF Messages
  <2>6. CASE err \notin {"nil", "auth"} /\ Return(err, <<"refreshFailed">>)
    BY <2>1, <2>2, <2>6, ReturnTold DEF Messages
  <2> QED BY <1>5, <2>3, <2>4, <2>5, <2>6 DEF Report
<1>6. CASE ExpiredFailed
  <2>1. /\ pc = "expiredFailed" /\ err # "nil"
        /\ UNCHANGED <<storeVars, cfg, phase, session, rejected>>
    BY <1>6 DEF ExpiredFailed, ControlInv, ErrorOfFailure
  <2>2. err # "changed"
    BY DEF ControlInv, RunOwnsEpoch
  <2>3. CASE err = "resetFailed"
    <3>1. Return(err, <<"identityResetFailed">>)
      BY <1>6, <2>3 DEF ExpiredFailed
    <3> QED BY <2>1, <2>3, <3>1, ReturnTold DEF Messages
  <2>4. CASE err # "resetFailed"
    <3>1. Return(err, <<"reloginFailed">>)
      BY <1>6, <2>2, <2>4 DEF ExpiredFailed
    <3>2. phase = "retry" /\ db.token = None /\ db.did = None
      BY <2>1, <2>4 DEF ControlInv, ErrorOfFailure, ErasedInRetry, IInv, TypeOK
    <3>3. msgs = <<>>
      BY <2>1 DEF ControlInv, SaidSoFar, SessionPCs
    <3> QED BY <2>1, <3>1, <3>2, <3>3, ReturnTold DEF Messages
  <2> QED BY <2>3, <2>4
<1>7. CASE NextRunNotice
  <2>1. /\ pc = "nextRunNotice" /\ db = NoContents
        /\ UNCHANGED <<storeVars, cfg, phase, session, rejected>>
    BY <1>7 DEF NextRunNotice, ErasedInRetry
  <2>2. Return("auth", <<"passwordAuthExpiredNextRun">>)
    BY <1>7 DEF NextRunNotice
  <2> QED BY <2>1, <2>2, ReturnTold DEF Messages
<1>8. CASE Heal \/ UNCHANGED vars
  <2>1. UNCHANGED <<storeVars, cfg, pc, runVars>>
    BY <1>8 DEF Heal, vars, runVars, storeVars
  <2>2. /\ (Ended' <=> Ended) /\ LastMsg' = LastMsg /\ (TokenMode' <=> TokenMode)
        /\ LoadAuthState' = LoadAuthState /\ LoadAuthAccount' = LoadAuthAccount
    BY <2>1 DEF Ended, LastMsg, TokenMode, Empty, LoadAuthState, LoadAuthAccount, runVars, storeVars
  <2> QED BY <2>1, <2>2
          DEF Told, OutcomeReported, RotationKept, ExpiredIdentityErased, runVars, storeVars
<1>9. CASE Start \/ (Resolve /\ ~ResolveFailed)
  <2>1. pc' # "idle"
    BY <1>9 DEF Start, Resolve, ResolveToken, ResolveLoad, ResolveLoadFails, ResolveReset,
                BindAccount, NewVisitor, Login, SaveLogin, Saved, FailedPC, AfterAccount,
                AfterVisitor
  <2> QED BY <1>1, <2>1
<1>10. CASE \/ NewSession \/ Warmup \/ Profile \/ WarmupAgain \/ UpdateLastBrowse
            \/ BrowseForum \/ SkipWriteBack \/ Expired \/ ExpiredReset \/ RetryNotice
  <2>1. pc' # "idle"
    BY <1>10 DEF NewSession, Warmup, Profile, WarmupAgain, Check, UpdateLastBrowse,
                 BrowseForum, SkipWriteBack, Expired, ExpiredReset, RetryNotice
  <2> QED BY <1>1, <2>1
<1> QED BY <1>2, <1>3, <1>4, <1>5, <1>6, <1>7, <1>8, <1>9, <1>10
        DEF Next, Run, RunWithSession, HandlePasswordAuthExpired

(* The whole history of a run, by induction.                               *)
LEMMA HistoryHolds == Spec => []HistoryInv
<1>1. Init => HistoryInv
  <2> SUFFICES ASSUME Init PROVE HistoryInv
    OBVIOUS
  <2>1. StoreAtReport /\ ErasedInRetry
    BY DEF Init, StoreAtReport, ErasedInRetry, ResolvePCs, LoginPCs
  <2>2. msgs = <<>> /\ ~Ended
    BY DEF Init, Ended
  <2>3. \A i \in 1..(Len(msgs) - 1) : msgs[i] = "passwordAuthExpiredRetry"
    BY <2>2
  <2>4. OutcomeReported /\ RotationKept /\ ExpiredIdentityErased
    BY <2>2, <2>3 DEF OutcomeReported, RotationKept, ExpiredIdentityErased
  <2> QED BY <2>1, <2>4, InitIInv, InitControl DEF HistoryInv
<1>2. HistoryInv /\ [Next]_vars => HistoryInv'
  <2> SUFFICES ASSUME HistoryInv, [Next]_vars PROVE HistoryInv'
    OBVIOUS
  <2>1. IInv' /\ ControlInv'
    BY NextIInv, NextControl DEF HistoryInv
  <2>2. StoreAtReport' /\ ErasedInRetry'
    BY <2>1, NextStoreAtReport, NextErased DEF HistoryInv, IInv
  <2>3. Told'
    BY <2>1, <2>2, NextTold DEF HistoryInv, Told
  <2> QED BY <2>1, <2>2, <2>3 DEF HistoryInv, Told
<1> QED BY <1>1, <1>2, PTL DEF Spec

(* The user reads one terminal message per run, of success exactly when    *)
(* Run returns nil; only a failed write back of a rotated identity ends a  *)
(* run without one.                                                        *)
THEOREM OutcomeReportedHolds == Spec => []OutcomeReported
<1>1. HistoryInv => OutcomeReported
  BY DEF HistoryInv
<1> QED BY <1>1, HistoryHolds, PTL

(* When a password run reports the verdict of a session, the store holds   *)
(* the identity that session ended with, its rotated DID included.         *)
THEOREM RotationKeptHolds == Spec => []RotationKept
<1>1. HistoryInv => RotationKept
  BY DEF HistoryInv
<1> QED BY <1>1, HistoryHolds, PTL

(* The token refused in a run's first session is out of the store when the *)
(* run ends, unless the user was told that the reset failed; nothing is    *)
(* left when there is no retry, no token and no DID when the new login     *)
(* fails, and the new token when the retried session is refused too.       *)
THEOREM ExpiredIdentityErasedHolds == Spec => []ExpiredIdentityErased
<1>1. HistoryInv => ExpiredIdentityErased
  BY DEF HistoryInv
<1> QED BY <1>1, HistoryHolds, PTL
=============================================================================
