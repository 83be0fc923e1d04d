------------------------------ MODULE Refresh ------------------------------
(***************************************************************************)
(* One refresh after the other: internal/refresh (Service, authManager,    *)
(* runChecks) on top of the identity store.  Runtime.TryRun lets one Run   *)
(* at a time through, so a process has one run in progress at most.  A     *)
(* step is one call that leaves the package: a store method, a login, a    *)
(* session call or a notification.  The process may be killed, or the      *)
(* machine lose power, between any two of them and come back with another  *)
(* configuration.                                                          *)
(*                                                                         *)
(* Server, network and disk answer as they like until `healthy' becomes    *)
(* TRUE; from then on they answer as they should and the process stays up. *)
(***************************************************************************)
EXTENDS AuthStore, Sequences

CONSTANTS Owner,    \* the account a token, DID or visitor id was made for
          Configs,  \* configurations that pass the validation at start-up
          MaxEpoch  \* bound: resets of one process before the last faulty run

(* domain.AuthState.Complete. *)
IsComplete(s) == s.token # None /\ s.did # None /\ s.visitor # None

Identified == Tokens \cup DIDs \cup Visitors

(* buildMTeamConfigs lets a configuration through that has a complete      *)
(* token identity or none, and a user name in the latter case.             *)
ASSUME RefreshAssumption ==
  /\ MaxEpoch \in Nat
  /\ Owner \in [Identified -> Users]
  /\ Configs \subseteq [tokenAuth : AuthStates, username : Users \cup {None}, retry : BOOLEAN]
  /\ \A c \in Configs :
       \/ IsComplete(c.tokenAuth)
       \/ c.tokenAuth = NoAuth /\ c.username \in Users

VARIABLES cfg,        \* the configuration of this process
          pc,         \* the next call of the run in progress, "idle" between runs
          phase,      \* "first" session, or "retry" after a reset
          auth,       \* Run's copy of the identity
          base,       \* the epoch the run works under
          session,    \* the identity in the browse session, with rotated DIDs
          updateErr,  \* what the first UpdateLastBrowse returned
          err,        \* the error on its way up
          ctxDone,    \* the run's context has ended
          msgs,       \* the messages handed to the notifier by this run
          ret,        \* what the last run returned, "none" before it does
          logins,     \* login calls of this run
          rejected,   \* the token whose first session failed authentication
          healthy, revoked

runVars == <<phase, auth, base, session, updateErr, err, ctxDone, msgs, ret,
             logins, rejected>>
worldVars == <<healthy, revoked>>
vars == <<db, disk, epoch, cfg, pc, phase, auth, base, session, updateErr, err,
          ctxDone, msgs, ret, logins, rejected, healthy, revoked>>

TokenMode == ~Empty(cfg.tokenAuth)

(* An identity all of whose fields were made for user u. *)
MadeFor(s, u) == /\ s.token # None => Owner[s.token] = u
                 /\ s.did # None => Owner[s.did] = u
                 /\ s.visitor # None => Owner[s.visitor] = u

(* Errors as errors.Is sees them: MTAuthFailed, a context error, any other *)
(* answer of the server or network, a store error, RefreshIdentityReset-   *)
(* Failed and RefreshIdentityChanged.                                      *)
CallErrors == {"nil", "auth", "ctx", "other"}
Errors == CallErrors \cup {"store", "resetFailed", "changed"}

Messages == {"refreshFailed", "refreshSucceeded", "identityChanged",
             "tokenAuthExpired", "passwordAuthExpiredRetry",
             "passwordAuthExpiredNextRun", "reloginFailed", "identityResetFailed"}

ResolvePCs == {"resolve", "resolveReset", "resolveAccount", "resolveVisitor"}
LoginPCs == {"login", "saveLogin"}
ExpiredPCs == {"expiredReset", "expiredAccount", "expiredVisitor", "retryNotice",
               "nextRunNotice"}
SessionPCs == {"warmup", "profile", "rewarmup", "updateLastBrowse", "browseForum",
               "writeBack"}
PCs == {"idle", "resolveFailed", "expiredFailed", "newSession", "report"} \cup ResolvePCs \cup LoginPCs \cup ExpiredPCs \cup SessionPCs

TypeOK == /\ StoreTypeOK
          /\ cfg \in Configs
          /\ pc \in PCs
          /\ phase \in {"first", "retry"}
          /\ auth \in AuthStates
          /\ base \in Nat
          /\ session \in AuthStates
          /\ updateErr \in CallErrors
          /\ err \in Errors
          /\ ctxDone \in BOOLEAN
          /\ msgs \in Seq(Messages)
          /\ ret \in Errors \cup {"none"}
          /\ logins \in Nat
          /\ rejected \in Tokens \cup {None}
          /\ healthy \in BOOLEAN
          /\ revoked \subseteq Tokens

(* The locals of Service.Run before their first assignment. *)
FreshRun == /\ phase' = "first"
            /\ auth' = NoAuth
            /\ base' = 0
            /\ session' = NoAuth
            /\ updateErr' = "nil"
            /\ err' = "nil"
            /\ ctxDone' = FALSE
            /\ msgs' = <<>>
            /\ ret' = "none"
            /\ logins' = 0
            /\ rejected' = None

Init == /\ db \in LegacyContents
        /\ \E u \in Users : MadeFor(db, u)
        /\ disk = db
        /\ epoch = 0
        /\ cfg \in Configs
        /\ pc = "idle"
        /\ phase = "first"
        /\ auth = NoAuth
        /\ base = 0
        /\ session = NoAuth
        /\ updateErr = "nil"
        /\ err = "nil"
        /\ ctxDone = FALSE
        /\ msgs = <<>>
        /\ ret = "none"
        /\ logins = 0
        /\ rejected = None
        /\ healthy = FALSE
        /\ revoked = {}

-----------------------------------------------------------------------------
(* A healthy disk neither refuses a read nor a write. *)
Results == {"saved", "stale"} \cup (IF healthy THEN {} ELSE {"error"})

SaveError(result) == CASE result = "saved" -> "nil"
                       [] result = "stale" -> "changed"
                       [] result = "error" -> "store"

(* The error of an authManager method reaches Run, or                      *)
(* handlePasswordAuthExpired once the run has reset the identity.          *)
FailedPC == IF phase = "first" THEN "resolveFailed" ELSE "expiredFailed"

Saved(result, next) == /\ err' = SaveError(result)
                       /\ pc' = IF result = "saved" THEN next ELSE FailedPC

(* Run returns e after handing m to the notifier. *)
Return(e, m) == /\ pc' = "idle"
                /\ ret' = e
                /\ msgs' = msgs \o m

(* The tail of Resolve: what is missing from the identity it loaded. *)
AfterVisitor(s) == IF s.token = None \/ s.did = None THEN "login" ELSE "newSession"

AfterAccount(s) == IF s.visitor = None THEN "resolveVisitor" ELSE AfterVisitor(s)

-----------------------------------------------------------------------------
(* Service.Run, up to the call of Resolve. *)
Start == /\ pc = "idle"
         /\ epoch <= MaxEpoch \/ healthy
         /\ FreshRun
         /\ pc' = "resolve"
         /\ UNCHANGED <<storeVars, cfg, worldVars>>

(* Token mode: the configured identity, no store. *)
ResolveToken == /\ pc = "resolve"
                /\ TokenMode
                /\ auth' = cfg.tokenAuth
                /\ pc' = "newSession"
                /\ UNCHANGED <<storeVars, cfg, phase, base, session, updateErr, err,
                               ctxDone, msgs, ret, logins, rejected, worldVars>>

(* Password mode: load identity and account.  A stored identity that is    *)
(* not known to belong to the configured user has to go first.             *)
ForeignIfBound == /\ LoadAuthAccount \notin {cfg.username, None}
                  /\ ~Empty(LoadAuthState)

ForeignIdentity == LoadAuthAccount # cfg.username /\ ~Empty(LoadAuthState)

ResolveLoad ==
  /\ pc = "resolve"
  /\ ~TokenMode
  /\ auth' = LoadAuthState
  /\ base' = epoch
  /\ pc' = IF ForeignIdentity THEN "resolveReset"
            ELSE IF LoadAuthAccount # cfg.username THEN "resolveAccount"
            ELSE AfterAccount(LoadAuthState)
  /\ UNCHANGED <<storeVars, cfg, phase, session, updateErr, err, ctxDone, msgs, ret,
                 logins, rejected, worldVars>>

ResolveLoadFails ==
  /\ pc = "resolve"
  /\ ~TokenMode
  /\ ~healthy
  /\ err' = "store"
  /\ pc' = "resolveFailed"
  /\ UNCHANGED <<storeVars, cfg, phase, auth, base, session, updateErr, ctxDone, msgs,
                 ret, logins, rejected, worldVars>>

(* Mutant: the identity loaded before the reset stays in Resolve's hands. *)
ResolveResetKeepsState ==
  /\ pc = "resolveReset"
  /\ ResetAuthState("saved")
  /\ base' = epoch'
  /\ pc' = "resolveAccount"
  /\ UNCHANGED <<auth, err, cfg, phase, session, updateErr, ctxDone, msgs, ret, logins,
                 rejected, worldVars>>

ResolveReset ==
  /\ pc = "resolveReset"
  /\ \/ /\ ResetAuthState("saved")
        /\ base' = epoch'
        /\ auth' = NoAuth
        /\ pc' = "resolveAccount"
        /\ UNCHANGED err
     \/ /\ "error" \in Results
        /\ ResetAuthState("error")
        /\ err' = "resetFailed"
        /\ pc' = "resolveFailed"
        /\ UNCHANGED <<base, auth>>
  /\ UNCHANGED <<cfg, phase, session, updateErr, ctxDone, msgs, ret, logins, rejected,
                 worldVars>>

(* SaveAuthAccount, in Resolve and in HandleAuthExpired. *)
BindAccount ==
  /\ pc \in {"resolveAccount", "expiredAccount"}
  /\ \E result \in Results :
       /\ SaveAuthAccount(cfg.username, base, result)
       /\ Saved(result, IF pc = "expiredAccount" THEN "expiredVisitor" ELSE AfterAccount(auth))
  /\ UNCHANGED <<cfg, phase, auth, base, session, updateErr, ctxDone, msgs, ret, logins,
                 rejected, worldVars>>

(* GenerateVisitorID and the SaveAuthState that keeps it. *)
NewVisitor ==
  /\ pc \in {"resolveVisitor", "expiredVisitor"}
  /\ \E v \in Visitors, result \in Results :
       /\ Owner[v] = cfg.username
       /\ auth' = [auth EXCEPT !.visitor = v]
       /\ SaveAuthState(auth', base, result)
       /\ Saved(result, AfterVisitor(auth'))
  /\ UNCHANGED <<cfg, phase, base, session, updateErr, ctxDone, msgs, ret, logins,
                 rejected, worldVars>>

(* A call that fails with a context error may have outlived the run's      *)
(* context, or only its own request timeout.                               *)
ContextAfter(e) == ctxDone' \in IF e = "ctx" THEN {ctxDone, TRUE} ELSE {ctxDone}

(* loginAndSave, the login: the server issues a token and a device id to   *)
(* the configured user; the visitor id is the one sent along.              *)
Login ==
  /\ pc = "login"
  /\ logins' = logins + 1
  /\ \/ /\ ~ctxDone
        /\ \E t \in Tokens, d \in DIDs :
             /\ Owner[t] = cfg.username
             /\ Owner[d] = cfg.username
             /\ t # rejected
             /\ auth' = [auth EXCEPT !.token = t, !.did = d]
             /\ revoked' = revoked \ {t}
        /\ pc' = "saveLogin"
        /\ UNCHANGED <<err, ctxDone>>
     \/ /\ ctxDone \/ ~healthy
        /\ \E e \in CallErrors \ {"nil"} :
             /\ ctxDone => e = "ctx"
             /\ err' = e
             /\ ContextAfter(e)
        /\ pc' = FailedPC
        /\ UNCHANGED <<auth, revoked>>
  /\ UNCHANGED <<storeVars, cfg, phase, base, session, updateErr, msgs, ret, rejected,
                 healthy>>

(* loginAndSave, the save. *)
SaveLogin ==
  /\ pc = "saveLogin"
  /\ \E result \in Results :
       /\ SaveAuthState(auth, base, result)
       /\ Saved(result, IF phase = "first" THEN "newSession" ELSE "retryNotice")
  /\ UNCHANGED <<cfg, phase, auth, base, session, updateErr, ctxDone, msgs, ret, logins,
                 rejected, worldVars>>

(* Run reports the error of Resolve. *)
ResolveFailed ==
  /\ pc = "resolveFailed"
  /\ Return(err, <<"refreshFailed">>)
  /\ UNCHANGED <<storeVars, cfg, phase, auth, base, session, updateErr, err, ctxDone,
                 logins, rejected, worldVars>>

-----------------------------------------------------------------------------
(* runWithSession: the session starts from the identity Run holds. *)
NewSession ==
  /\ pc = "newSession"
  /\ session' = auth
  /\ updateErr' = "nil"
  /\ err' = "nil"
  /\ pc' = "warmup"
  /\ UNCHANGED <<storeVars, cfg, phase, auth, base, ctxDone, msgs, ret, logins, rejected,
                 worldVars>>

(* What a session call may return. *)
Answers(e) == /\ ctxDone => e = "ctx"
              /\ healthy /\ ~ctxDone => e = IF session.token \in revoked THEN "auth" ELSE "nil"
              /\ ContextAfter(e)

(* IdentityHeaders takes over the DID of every response that carries one,  *)
(* also of a refusal; a call that ends with its context may have had       *)
(* responses before only if it makes several requests.                     *)
Responds(e, requests) ==
  \/ UNCHANGED session
  \/ /\ ~ctxDone
     /\ e # "ctx" \/ requests = "several"
     /\ \E d \in DIDs : /\ Owner[d] = Owner[session.token]
                        /\ session' = [session EXCEPT !.did = d]

(* One step of runChecks that ends it when it fails. *)
CheckStartsOver(here, requests, next) ==
  /\ pc = here
  /\ \E e \in CallErrors : /\ Answers(e)
                           /\ Responds(e, requests)
                           /\ err' = e
                           /\ pc' = CASE e = "nil"   -> next
                                      [] e = "other" -> "newSession"
                                      [] OTHER       -> "writeBack"
  /\ UNCHANGED <<storeVars, cfg, phase, auth, base, updateErr, msgs, ret, logins,
                 rejected, worldVars>>

Check(here, requests, next) ==
  /\ pc = here
  /\ \E e \in CallErrors : /\ Answers(e)
                           /\ Responds(e, requests)
                           /\ err' = e
                           /\ pc' = IF e = "nil" THEN next ELSE "writeBack"
  /\ UNCHANGED <<storeVars, cfg, phase, auth, base, updateErr, msgs, ret, logins,
                 rejected, worldVars>>

Warmup == Check("warmup", "several", "profile")

Profile == Check("profile", "one", "rewarmup")

WarmupAgain == Check("rewarmup", "several", "updateLastBrowse")

UpdateLastBrowse ==
  /\ pc = "updateLastBrowse"
  /\ \E e \in CallErrors : /\ Answers(e)
                           /\ Responds(e, "one")
                           /\ updateErr' = e
  /\ pc' = "browseForum"
  /\ UNCHANGED <<storeVars, cfg, phase, auth, base, err, msgs, ret, logins, rejected,
                 worldVars>>

ShouldPropagateForumError(e) == e \in {"auth", "ctx"}

(* The errors BrowseForum returns are the ones it propagates itself. *)
ForumErrors == {e \in CallErrors : e = "nil" \/ ShouldPropagateForumError(e)}

ChecksError(e, updated) ==
  IF ShouldPropagateForumError(e) THEN e
  ELSE IF ~updated THEN updateErr
  ELSE "nil"

BrowseForum ==
  /\ pc = "browseForum"
  /\ \E e \in ForumErrors, updated \in BOOLEAN :
       /\ Answers(e)
       /\ ctxDone => ~updated
       /\ Responds(e, "several")
       /\ err' = ChecksError(e, updated)
  /\ pc' = "writeBack"
  /\ UNCHANGED <<storeVars, cfg, phase, auth, base, updateErr, msgs, ret, logins,
                 rejected, worldVars>>

-----------------------------------------------------------------------------
(* Password mode keeps what the session rotated, unless the server refused *)
(* the identity. *)
WriteBackOnSuccess == ~TokenMode /\ err = "nil" /\ session # auth

WriteBackAlways == err # "auth" /\ session # auth

MustWriteBack == ~TokenMode /\ err # "auth" /\ session # auth

WriteBack ==
  /\ pc = "writeBack"
  /\ MustWriteBack
  /\ \E result \in Results :
       /\ SaveAuthState(session, base, result)
       /\ CASE result = "saved" -> pc' = "report" /\ UNCHANGED <<ret, msgs>>
            [] result = "stale" -> Return("changed", <<"identityChanged">>)
            [] result = "error" -> Return("store", <<>>)
  /\ UNCHANGED <<cfg, phase, auth, base, session, updateErr, err, ctxDone, logins,
                 rejected, worldVars>>

SkipWriteBack ==
  /\ pc = "writeBack"
  /\ ~MustWriteBack
  /\ pc' = "report"
  /\ UNCHANGED <<storeVars, cfg, runVars, worldVars>>

(* The end of runWithSession and what Run, or handlePasswordAuthExpired    *)
(* after a retry, makes of its error.                                      *)
ReportSilentRetry ==
  /\ pc = "report"
  /\ \/ err = "nil" /\ Return("nil", <<"refreshSucceeded">>)
     \/ err = "auth" /\ TokenMode /\ Return("auth", <<"tokenAuthExpired">>)
     \/ err = "auth" /\ ~TokenMode /\ phase = "retry" /\ Return("auth", <<>>)
     \/ err \notin {"nil", "auth"} /\ Return(err, <<"refreshFailed">>)
  /\ UNCHANGED <<storeVars, cfg, phase, auth, base, session, updateErr, err, ctxDone,
                 logins, rejected, worldVars>>

Report ==
  /\ pc = "report"
  /\ \/ err = "nil" /\ Return("nil", <<"refreshSucceeded">>)
     \/ err = "auth" /\ TokenMode /\ Return("auth", <<"tokenAuthExpired">>)
     \/ err = "auth" /\ ~TokenMode /\ phase = "retry" /\ Return("auth", <<"reloginFailed">>)
     \/ err \notin {"nil", "auth"} /\ Return(err, <<"refreshFailed">>)
  /\ UNCHANGED <<storeVars, cfg, phase, auth, base, session, updateErr, err, ctxDone,
                 logins, rejected, worldVars>>

(* The first session of a password run was refused. *)
ExpiredAgain ==
  /\ pc = "report"
  /\ err = "auth" /\ ~TokenMode
  /\ rejected' = session.token
  /\ pc' = "expiredReset"
  /\ UNCHANGED <<storeVars, cfg, phase, auth, base, session, updateErr, err, ctxDone,
                 msgs, ret, logins, worldVars>>

Expired ==
  /\ pc = "report"
  /\ err = "auth" /\ ~TokenMode /\ phase = "first"
  /\ rejected' = session.token
  /\ pc' = "expiredReset"
  /\ UNCHANGED <<storeVars, cfg, phase, auth, base, session, updateErr, err, ctxDone,
                 msgs, ret, logins, worldVars>>

-----------------------------------------------------------------------------
(* HandleAuthExpired: the reset comes first, whatever follows. *)
ExpiredResetOldEpoch ==
  /\ pc = "expiredReset"
  /\ ResetAuthState("saved")
  /\ auth' = NoAuth
  /\ phase' = "retry"
  /\ pc' = IF cfg.retry THEN "expiredAccount" ELSE "nextRunNotice"
  /\ UNCHANGED <<err, base, cfg, session, updateErr, ctxDone, msgs, ret, logins, rejected,
                 worldVars>>

ExpiredResetOnlyOnRetry ==
  /\ pc = "expiredReset"
  /\ IF cfg.retry THEN ResetAuthState("saved") ELSE UNCHANGED storeVars
  /\ base' = epoch'
  /\ auth' = NoAuth
  /\ phase' = "retry"
  /\ pc' = IF cfg.retry THEN "expiredAccount" ELSE "nextRunNotice"
  /\ UNCHANGED <<err, cfg, session, updateErr, ctxDone, msgs, ret, logins, rejected, worldVars>>

ExpiredReset ==
  /\ pc = "expiredReset"
  /\ \/ /\ ResetAuthState("saved")
        /\ base' = epoch'
        /\ auth' = NoAuth
        /\ phase' = "retry"
        /\ pc' = IF cfg.retry THEN "expiredAccount" ELSE "nextRunNotice"
        /\ UNCHANGED err
     \/ /\ "error" \in Results
        /\ ResetAuthState("error")
        /\ err' = "resetFailed"
        /\ pc' = "expiredFailed"
        /\ UNCHANGED <<base, auth, phase>>
  /\ UNCHANGED <<cfg, session, updateErr, ctxDone, msgs, ret, logins, rejected, worldVars>>

(* handlePasswordAuthExpired: the branch on the error. *)
ExpiredFailed ==
  /\ pc = "expiredFailed"
  /\ Return(err, CASE err = "resetFailed" -> <<"identityResetFailed">>
                   [] err = "changed"     -> <<"identityChanged">>
                   [] OTHER               -> <<"reloginFailed">>)
  /\ UNCHANGED <<storeVars, cfg, phase, auth, base, session, updateErr, err, ctxDone,
                 logins, rejected, worldVars>>

RetryNotice ==
  /\ pc = "retryNotice"
  /\ msgs' = Append(msgs, "passwordAuthExpiredRetry")
  /\ pc' = "newSession"
  /\ UNCHANGED <<storeVars, cfg, phase, auth, base, session, updateErr, err, ctxDone, ret,
                 logins, rejected, worldVars>>

NextRunNotice ==
  /\ pc = "nextRunNotice"
  /\ Return("auth", <<"passwordAuthExpiredNextRun">>)
  /\ UNCHANGED <<storeVars, cfg, phase, auth, base, session, updateErr, err, ctxDone,
                 logins, rejected, worldVars>>

-----------------------------------------------------------------------------
(* The process is killed or the machine loses power; the next process may  *)
(* have another configuration.                                             *)
Restart == /\ ~healthy
           /\ Open
           /\ cfg' \in Configs
           /\ pc' = "idle"
           /\ FreshRun
           /\ UNCHANGED worldVars

(* From here on nothing fails but what the server has really revoked.      *)
(* Only the tokens that the process still knows make a difference: a login *)
(* grants one that is valid.                                               *)
KnownTokens == Tokens \cap {db.token, auth.token, session.token, cfg.tokenAuth.token}

Heal == /\ ~healthy
        /\ healthy' = TRUE
        /\ revoked' \in SUBSET KnownTokens
        /\ UNCHANGED <<storeVars, cfg, pc, runVars>>

Resolve == \/ ResolveToken \/ ResolveLoad \/ ResolveLoadFails \/ ResolveReset
           \/ BindAccount \/ NewVisitor \/ Login \/ SaveLogin \/ ResolveFailed

RunWithSession == \/ NewSession \/ Warmup \/ Profile \/ WarmupAgain
                  \/ UpdateLastBrowse \/ BrowseForum \/ WriteBack \/ SkipWriteBack
                  \/ Report

HandlePasswordAuthExpired == \/ Expired \/ ExpiredReset \/ ExpiredFailed
                             \/ RetryNotice \/ NextRunNotice

Run == Start \/ Resolve \/ RunWithSession \/ HandlePasswordAuthExpired

Next == Run \/ Restart \/ Heal

Spec == Init /\ [][Next]_vars

(* The part of Spec in which the world stays faulty. *)
FaultySpec == Init /\ [][Run \/ Restart]_vars

(* Cron fires again and again, and every call of a run returns: store      *)
(* methods do not block and requests end with the run's timeout.           *)
FairSpec == Spec /\ WF_vars(Run)
-----------------------------------------------------------------------------
Ended == pc = "idle" /\ ret # "none"

LastMsg == IF msgs = <<>> THEN "none" ELSE msgs[Len(msgs)]

(* Whatever is stored next to an account name was made for that account,   *)
(* now and in what a power loss would leave: Resolve and HandleAuthExpired *)
(* erase a foreign identity before they bind the account, and bind it      *)
(* before they store anything new.                                         *)
IdentityBinding == \A c \in {db, disk} : c.account # None => MadeFor(c, c.account)

(* A browse session only ever carries a complete identity of the right     *)
(* origin: the configured one in token mode, one made for the configured   *)
(* user, and stored under that name, in password mode.                     *)
SessionIdentity ==
  pc \in SessionPCs =>
    IF TokenMode
      THEN [session EXCEPT !.did = cfg.tokenAuth.did] = cfg.tokenAuth
      ELSE /\ MadeFor(session, cfg.username)
           /\ IsComplete(session)
           /\ LoadAuthAccount = cfg.username
           /\ [session EXCEPT !.did = db.did] = LoadAuthState

(* Token mode neither writes the identity store nor logs in: Resolve       *)
(* returns before it touches the store and runWithSession skips the write  *)
(* back.  Only a restart, which opens the store, may change it.            *)
TokenModeReadOnly ==
  [][TokenMode /\ ~Restart => UNCHANGED <<storeVars, logins>> \/ Start]_vars

(* As runs exclude each other, no run finds the epoch moved under it: the  *)
(* epoch Resolve or HandleAuthExpired handed to it is the store's until it *)
(* ends, and RefreshIdentityChanged is never reported.                     *)
RunOwnsEpoch ==
  /\ ~TokenMode /\ pc \notin {"idle", "resolve", "resolveFailed", "expiredFailed"}
       => base = epoch
  /\ err # "changed" /\ ret # "changed"

(* One terminal message per run, the success message exactly when Run      *)
(* returns nil, and only a failed write back ends a run without one.       *)
OutcomeReported ==
  /\ Ended => (ret = "nil" <=> LastMsg = "refreshSucceeded")
  /\ Ended /\ LastMsg \in {"none", "passwordAuthExpiredRetry"}
       => ret = "store" /\ session # auth /\ ~TokenMode
  /\ \A i \in 1..(Len(msgs) - 1) : msgs[i] = "passwordAuthExpiredRetry"

(* Every run ends with a message that tells the user its result.           *)
(* README.md: the identity is persisted "and a notification is sent".      *)
EveryRunReports == Ended => LastMsg \notin {"none", "passwordAuthExpiredRetry"}

(* When a session's verdict reaches the user, the store holds what the     *)
(* session ended with: a DID the server rotated survives the run, also a   *)
(* failed one, because the next run has to present it.                     *)
RotationKept ==
  Ended /\ ~TokenMode /\ session # NoAuth
        /\ LastMsg \in {"refreshSucceeded", "refreshFailed"}
    => LoadAuthState = session /\ LoadAuthAccount = cfg.username

(* The token refused in the first session of a run is gone from the store  *)
(* when the run ends, unless the user was told that the reset failed.      *)
(* Without a retry nothing is left, and when no session follows because    *)
(* the new login failed, neither token nor DID.  A token refused in the    *)
(* retried session, on the other hand, is the one in the store:            *)
(* handlePasswordAuthExpired does not reset a second time.                 *)
ExpiredIdentityErased ==
  /\ Ended /\ rejected # None /\ LastMsg # "identityResetFailed" => db.token # rejected
  /\ Ended /\ LastMsg = "passwordAuthExpiredNextRun" => db = NoContents
  /\ Ended /\ msgs = <<"reloginFailed">> => db.token = None /\ db.did = None
  /\ Ended /\ LastMsg = "reloginFailed" /\ Len(msgs) = 2 => db.token = session.token

(* message.go: whenever the user reads that the new login failed, "the     *)
(* local token, DID and visitorid have been cleared and the next refresh   *)
(* will try to log in again".                                              *)
ReloginFailedMeansCleared ==
  Ended /\ LastMsg = "reloginFailed" => db.token = None \/ db.did = None

(* No login loop: a run logs in at most once, and once more only when      *)
(* retry_on_auth_failure is set and the first session was refused.         *)
NoLoginLoop == logins <= IF cfg.retry /\ rejected # None THEN 2 ELSE 1

(* Every run that starts ends: no error path of Run goes in circles.       *)
RunEnds == pc # "idle" ~> pc = "idle"

(* Whatever crashes, power losses, changed configurations and failures     *)
(* left in the store, once server and disk work again a password user's    *)
(* runs come to succeed, and then all of them do.                          *)
Recovers == (healthy /\ ~TokenMode) ~> [](pc = "idle" => ret = "nil")

-----------------------------------------------------------------------------
(* What makes IdentityBinding and SessionIdentity inductive: what is known *)
(* of the run's copy of the identity at each point of the run.             *)

(* Token mode never comes near the calls that write the store. *)
TokenModePath ==
  TokenMode => pc \in {"idle", "resolve", "newSession", "report"} \cup SessionPCs

(* The account is bound only when the store holds no identity. *)
BeforeBinding ==
  ~TokenMode /\ pc \in {"resolveAccount", "expiredAccount"}
    => Empty(LoadAuthState) /\ auth = NoAuth

(* From then on the run's identity is made for the bound account, *)
AfterBinding ==
  ~TokenMode /\ pc \in {"resolveVisitor", "expiredVisitor", "newSession", "retryNotice"}
                        \cup LoginPCs \cup SessionPCs
    => /\ LoadAuthAccount = cfg.username
       /\ MadeFor(auth, cfg.username)
       /\ pc \in LoginPCs => auth.visitor # None
       /\ pc = "saveLogin" => IsComplete(auth)

(* and complete and stored when the session starts. *)
AtSession ==
  pc \in {"newSession", "retryNotice"} \cup SessionPCs
    => /\ IsComplete(auth)
       /\ IF TokenMode THEN auth = cfg.tokenAuth ELSE LoadAuthState = auth

IInv == /\ TypeOK
        /\ TokenModePath
        /\ BeforeBinding
        /\ AfterBinding
        /\ AtSession
        /\ IdentityBinding
        /\ SessionIdentity

-----------------------------------------------------------------------------
(* What makes the other invariants inductive: what a run has done so far   *)
(* at each point of it.                                                    *)

(* Which calls belong to which phase, and whose first session was refused. *)
PhaseOfCalls ==
  /\ pc \in ResolvePCs \cup {"resolveFailed", "expiredReset"} => phase = "first"
  /\ pc \in {"expiredAccount", "expiredVisitor", "retryNotice", "nextRunNotice"}
       => phase = "retry"
  /\ phase = "first" /\ rejected # None => pc \in {"idle", "expiredReset", "expiredFailed"}
  /\ phase = "retry" \/ pc = "expiredReset" => rejected # None
  /\ phase = "retry" /\ ~cfg.retry => pc \in {"idle", "nextRunNotice"}

(* An error path carries an error; before the retry, only a failed reset   *)
(* leads to handlePasswordAuthExpired's branch on it.                      *)
ErrorOfFailure ==
  /\ pc \in {"resolveFailed", "expiredFailed"} => err # "nil"
  /\ pc = "expiredFailed" /\ phase = "first" => err = "resetFailed"

(* One login per phase, and none before its place in the phase.            *)
LoginsCounted ==
  /\ logins <= IF phase = "retry" THEN 2 ELSE 1
  /\ phase = "first" /\ pc \in ResolvePCs \cup {"login"} => logins = 0
  /\ phase = "retry" /\ pc \in {"expiredAccount", "expiredVisitor", "nextRunNotice", "login"}
       => logins <= 1
  /\ phase = "retry" /\ ~cfg.retry => logins <= 1

(* Until a run returns, the notice before the retry is all it has said.    *)
SaidSoFar ==
  pc # "idle" =>
    /\ ret = "none"
    /\ msgs = IF phase = "retry" /\ pc \in {"newSession", "report"} \cup SessionPCs
                 THEN <<"passwordAuthExpiredRetry">> ELSE <<>>

(* A refused session had a token to reject, and the retry starts without   *)
(* token and DID, so it logs in.                                           *)
RetryLogsIn ==
  /\ pc = "report" /\ ~TokenMode => session.token # None
  /\ pc \in {"expiredAccount", "expiredVisitor"} => auth.token = None /\ auth.did = None

ControlInv == /\ RunOwnsEpoch /\ PhaseOfCalls /\ ErrorOfFailure /\ LoginsCounted
              /\ SaidSoFar /\ RetryLogsIn

(* What the report and an error path find in session and store. *)
StoreAtReport ==
  /\ phase = "first" /\ pc \in ResolvePCs \cup LoginPCs \cup {"resolveFailed"}
       => session = NoAuth
  /\ pc = "report" /\ ~TokenMode /\ err # "auth"
       => LoadAuthState = session /\ LoadAuthAccount = cfg.username
  /\ pc = "report" /\ ~TokenMode => db.token = session.token

(* After the reset the refused token is gone for good, and until the new   *)
(* login is saved there is no other.                                       *)
ErasedInRetry ==
  /\ phase = "retry" => db.token # rejected /\ auth.token # rejected
  /\ phase = "retry" /\ pc \in {"expiredAccount", "expiredVisitor", "expiredFailed"} \cup LoginPCs
       => db.token = None /\ db.did = None
  /\ pc = "nextRunNotice" => db = NoContents

HistoryInv == /\ IInv /\ ControlInv /\ StoreAtReport /\ ErasedInRetry
              /\ OutcomeReported /\ RotationKept /\ ExpiredIdentityErased
=============================================================================
