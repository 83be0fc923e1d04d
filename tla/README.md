# A TLA+ verification of mtlogin

mtlogin keeps an M-Team account alive: on a cron schedule it presents a stored
login to the server the way a browser would, logs in again when the login has
expired, stores what the server rotates, and tells the user the outcome over
several notification channels.  This directory models the parts of it that keep
state or run concurrently, model-checks them on small instances and proves the
most important properties for instances of any size.

Paths are relative to the repository.

## 1. Inventory

| Component | State | Operations | Correct when |
|---|---|---|---|
| identity store, `internal/store` | four LevelDB keys (token, DID, visitor id, account), an in-memory epoch, a mutex | `Open`, `LoadAuthState`, `LoadAuthAccount`, `SaveAuthState`, `SaveAuthAccount`, `ResetAuthState` | a write back that a reset has overtaken never lands; the epoch moves with an erasure and an erasure with the epoch |
| authentication manager, `internal/refresh/auth_manager.go` | none of its own; works on store and config | `Resolve`, `HandleAuthExpired`, `loginAndSave` | an identity is never stored, or used, under another account's name |
| refresh service, `internal/refresh/{service,auth,checks}.go` | the locals of one run | `Run`, `runWithSession`, `handlePasswordAuthExpired`, `runChecks` | rotated DIDs survive, a token refused in the first session does not, at most one extra login, every run reports, runs end and recover |
| messages, `internal/refresh/message.go` | none | `buildMessage` | the message says what is in the store |
| browse session, `pkg/apikit/apimtbrowse` | the session's identity (`mttransport.State`) | `Warmup`, `Profile`, `UpdateLastBrowse`, `BrowseForum` and its phases | best effort never hides a refusal, nor forgets a success |
| login client, `pkg/apikit/apimtauth` | none | `Config.Validate`, `Login`, `login`, TOTP | one coherent identity or an error; a code at most once |
| response protocol, `pkg/apikit/internal/mtproto` | none | `ParseResponse`, `Signature` | errors fall into the right class |
| runtime, `internal/runtime` | `stopped`, a cancel function, the run lock | `TryRun`, `Stop` | one run at a time; none after `Stop` |
| scheduler, `internal/scheduler` | cron, a cancel function | `Start`, `Stop`, `runWithDelay` | jobs never queue up, and end at shutdown |
| application and main, `internal/app`, `main.go` | the opened resources, the exit code | `New`, `RunOnce`, `Start`, `Close`, `execute` | nothing is used after it was closed, nothing is left open, the exit code is honest |
| notification manager, `pkg/apikit/apinotify/manager.go` | `closing`, a wait group; per call an error channel | `Notify`, `Close` | failures are reported completely, nobody blocks, nothing is sent through a closed notifier |
| TLS client, `pkg/apicore/tlsclient.go` | caches of clients and cookie jars, `closed`, a wait group | `RoundTrip`, `acquire`, `Close` | no client is dropped under a request; one jar per cookie scope; every `Close` waits |
| notification channels, `pkg/apikit/apinotify/*` | none | `Send` of each of the seven channels | a message that the service did not take is reported wherever the answer shows it; `Send` ends with its context |
| request pipeline, `pkg/apicore`, `pkg/apikit/internal/mttransport` | the session's identity, the cookie jar, the proxy in a context | the chained trippers of login, session and manager | each request carries its own identity, cookies, proxy and TLS profile |
| configuration loader, `pkg/conf`, `internal/app/config.go`, `apinotify.LoadConfig` | none | `LoadApp`, `Validate`, `buildMTeamConfigs`, `LoadConfig`, `SecondsDuration` | what passes gives a process whose requests end and whose delays are in range |
| logging, utilities | none | lines of output, random strings, HMAC | mostly not modelled, section 7 |

How they interact: cron fires jobs in goroutines of their own (`scheduler`);
each waits for a random delay and calls `Runtime.TryRun`, which lets one
`Service.Run` at a time through.  `Run` asks the authentication manager for an
identity (store, perhaps a login), hands it to a browse session, runs the checks,
writes the session's identity back under the epoch it was loaded with, and sends
a message.  If the server refuses the session, the identity is erased first and
then, if so configured, a new login and a second session follow.  A signal makes
`App.Close` stop the runtime, then the scheduler, then close notifier, transport
and store, while jobs may be anywhere in that chain.  Sessions, logins and
channels all send through one transport, each with its own chain of trippers.

What is hard here, and listed line by line under `hazards` in `PROJECT.json`:
shutdown against jobs that have passed the first checks; write backs minutes
after the load; crashes and power losses between the reset, the binding of the
account, the visitor id and the login; a configuration that changes between two
processes; partial failure in almost every operation; a retry that must not
become a loop; a best-effort phase that must not swallow a refusal; wait groups,
a buffered error channel and a cache that outlive or do not outlive their users;
a DID that any response may rotate; services that refuse with status 200; numbers
of seconds that are checked before they are converted.

## 2. Modules

| Module | Models | Runs |
|---|---|---|
| `AuthStore` | the operations of the store, as parts of other modules' actions | |
| `StoreClients` | any number of goroutines using the store concurrently | `store_clients` |
| `Refresh` | `Service`, `authManager`, `runChecks` on top of `AuthStore` | `refresh`, `refresh_silent`, `refresh_stale_claim` |
| `KeepAlive` | what `Refresh` assumes of `runChecks`: five calls and their errors | |
| `Checks` | `runChecks` and `BrowseForum` request by request; implements `KeepAlive` | `checks` |
| `Login` | validation of the credentials, both attempts of a login | `login` |
| `Lifecycle` | `execute`, `App`, `Runtime`, `Scheduler` | `lifecycle` |
| `TLSClient` | the shared transport | `tls_client` |
| `NotifyManager` | `Manager.Notify` against `Manager.Close`, a `Send` being one step | |
| `Channels` | `Send` of every notification channel, as parts of another module's actions | |
| `Delivery` | composes `NotifyManager` with a `Send` of `Channels`; implements `NotifyManager` | `delivery` |
| `Pipeline` | the chains of trippers, the way of a request and of its answer | `pipeline` |
| `Settings` | configuration files, their validation, the durations made of them | `settings` |
| `Shutdown` | composes `Lifecycle`, `NotifyManager` and `TLSClient`; implements `Lifecycle` | `shutdown` |
| `StoreClientsProofs`, `RefreshProofs`, `LifecycleProofs`, `ChecksProofs`, `TLSClientProofs`, `DeliveryProofs`, `ShutdownProofs` | theorems and proofs about the module of that name | |
| `ClientProofs` | theorems and proofs about `Pipeline`, `Login` and `Settings` | |
| `MC...` | model values, owners, configurations and symmetry for TLC | |

In every module some definitions stand next to the one they are a faulty variant
of (`NoEpochCheck` next to `EpochIsCurrent`, `NoRecheck` next to `Recheck`).
No specification uses them; each is a bug that could be made in that place, and
`PROJECT.json` names the property that notices it.

### State and steps

*AuthStore.*  `db` is the content every method sees, `disk` what a power loss
would leave (writes are not synced), `epoch` the counter in memory.  Each method
holds the mutex from its first line to its last and is one step.  A failed
LevelDB write is assumed to leave nothing in the journal.  `Open` starts from
`db` (the process was killed) or `disk` (the power failed) with epoch 0.

*Refresh.*  `pc` is the next call that leaves the package: a store method, the
login, a session call, a notification.  `auth` and `base` are the identity and
the epoch that `Run` holds, `session` the identity inside the browse session
with the DIDs that responses rotated, `msgs` and `ret` what the run has told its
user and its caller.  Server, network and disk answer as they like until `Heal`;
`Restart` may come between any two calls, with another configuration.  Tokens,
DIDs and visitor ids are values with an `Owner`, the account they were made for.
A request that ends with its own time-out looks like a context error while the
run's context goes on: `ContextAfter` allows both.  The branch of `Resolve` for
an incomplete `token_auth` is not in the model, because `Config.Validate` refuses
such a configuration at start-up; that it does is checked in module `Login`.
`RunOwnsEpoch` shows that the branch for a changed epoch is never taken either:
`Lifecycle` shows that runs exclude each other, so nobody moves the epoch under
a run.  It stays in the model, as it is in the code.

*Checks.*  One step per HTTP request.  `updateErr` and `forumUpdated` are the
locals of `runChecks` and `BrowseForum`, `updated` and `fatal` record what the
server accepted and the first error that has to be returned.  A list in a
response is empty or not.  `Calls` maps all forum steps to the single stage
`"forum"` of `KeepAlive`.

*Login.*  Every combination of set and empty credentials that passes `Validate`,
every class of response, and the end of the context before any step.  The
check of the context in `RoundTrip` and the call of `client.Do` are two steps,
so the context may end in between; `endedAt` remembers where login was then.

*Lifecycle.*  `main` is the next step of `execute`, `at[t]` the place of a
goroutine in `runWithDelay` and `TryRun`.  Each atomic load, context check and
lock operation of `TryRun`, and each of the three of `Runtime.Stop`, is a step
of its own.  `ClosedOnError` has the list of closes of each error path of
`App.New`.

*TLSClient*, *NotifyManager.*  What happens under a mutex is one step, all else
interleaves.  No channel of the repository implements `io.Closer` today;
`Closable` models the branch that `Manager.Close` has for those that will.

*Pipeline.*  Each tripper is an operator on the request it hands on; the chains
apply them in the order of the code.  A request goes onto the wire with what the
last tripper made of it (`flight`), and its answer updates the session's
identity, the jar and two histories: `learned`, the DID that the session began
with or the last in an answer that arrived, and `given`, the cookies that M-Team
set.  `kept` is what the next session begins with: the stored DID, which the
write back of the last session may or may not have replaced, or in token mode
the configured one.  An answer may be lost or cut
off after its headers (`Broken`), so that its cookies stay and its DID does not.
A User-Agent is the set of products that it names, because
`profileForUserAgent` looks for substrings.

*Channels*, *Delivery.*  One message is followed through one channel of any kind,
request by request, while the sends of the other channels and of an overlapping
call are the single steps of `NotifyManager`.  The answer to a message is any
status with any body, from the service or from something in front of it;
`Replies` assumes only that a code in the body is true.  `Hiding` lists, per kind
of channel, the answers with status 200 that the code takes for success although
they do not say that the message was taken.

*Settings.*  A float64 is NaN or a number of half nanoseconds; a Duration has
four bits; a conversion that does not fit gives any of the results that Go's
targets give.  `LoadApp`, `buildMTeamConfigs`, `LoadConfig` and the rest of
`App.New` are one step each, then cron ticks.  A `notify.toml` that is refused
leaves the base channel and a manager with 300 s; one that is accepted without a
time-out has 10 s.

*Shutdown.*  The steps are those of the three instances, joined where the code
calls from one part into another: a run calls `Notify` and `RoundTrip`, a channel
calls `RoundTrip`, `App.Close` calls both `Close` methods.  Where `Lifecycle` has
one step for closing a resource, the last step of the part's `Close` is that
step and the others leave `Lifecycle`'s variables alone.

## 3. Runs

| Run | Instance | What it shows |
|---|---|---|
| `store_clients` | 3 goroutines, 1 value per key, 3 resets per process, restarts | `NoStaleWrite`, `EpochMovesWithErasure` |
| `refresh` | 2 users, 4 configurations (password with and without retry, a token that overrides a user name), `MaxEpoch` 1 | whose identity is used and stored (`IdentityBinding`, `SessionIdentity`), that a run owns its epoch, that it reports (`OutcomeReported`), keeps rotated DIDs (`RotationKept`), erases the token refused in the first session (`ExpiredIdentityErased`), does not loop (`NoLoginLoop`), that token mode leaves the store alone, that every run ends (`RunEnds`), and `Recovers`: after any history, runs succeed for good once the world works |
| `checks` | the 15 endpoints of a warm-up | `SuccessMeansUpdated`, `RefusalSurfaces`, `ImplementsCalls` |
| `login` | everything, no bound | `GrantedOrError`, `LoginRequests` (at most two, the second with a code, none without credentials), `LateRequest` (after the end of the context at most the request that was past the check) |
| `lifecycle` | 3 overlapping jobs | `OneRunAtATime`, `StopIsFinal`, `NoUseAfterClose`, `CleanExit`, which includes an honest exit code; `ShutdownCompletes`, `JobsEnd` |
| `tls_client` | 3 requesting goroutines, 2 closing ones, 3 keys of which 2 share a scope | `OneJarPerScope`, `CloseMeansDrained`, `WaitGroupDiscipline`, `CloseReturns` |
| `delivery` | 2 overlapping calls, 2 channels of which 1 can be closed, 1 send in detail through each of the 7 kinds | `FailuresReported`, `NoSendAfterClose`, `LossReported`, `EverybodyReturns`, `ImplementsManager` with its fairness |
| `pipeline` | login, session, 2 channels of which 1 has its own proxy, 4 DIDs, all User-Agents | `IdentityOnWire`, `CookiesStayHome`, `OwnRoute` |
| `settings` | 6 numbers and NaN for each setting, Durations of 4 bits, 1 optional channel | `RequestsBounded`, `DelayInRange` |
| `shutdown` | 1 job and the main goroutine, 2 notifications to 2 channels, 1 request per run and per send | `NothingRefused`, `ImplementsLifecycle` with its fairness |

Two runs end in a counterexample; each shows that the code does something else
than a text of the repository says.

* `refresh_silent`: when the write back fails with a store error,
  `runWithSession` returns it without a notification (`service.go:88-91`).  The
  user of a run that had announced a new login hears nothing more.  The
  repository's README says of every refresh that the identity is persisted and a
  notification sent, and a test comment says that the final failure must be
  received.  `OutcomeReported`, which holds, says that this is the only such path.
* `refresh_stale_claim`: a session refused after a new login sends
  `messageReloginFailed`, which says that token, DID and visitor id have been
  cleared (`message.go:85`).  On this path nothing is cleared (`auth.go:38-44`,
  on purpose, to avoid a loop), and the next run uses the stored token.

One edge is left out of `RequestsBounded` on purpose: `refresh.timeout` is
compared with 0 before it is converted (`app.go:93`), so that a number below one
nanosecond, NaN, or one that overflows may be accepted and leave a run without a
deadline.  Its requests still have time-outs, because `mt.timeout` is checked
after its conversion; that they do is what the property says.

`LossReported` says what a nil error of `Notify` is worth.  QQPush, Telegram and
ntfy look at the status alone (`qqpush.go:50`, `telegram.go:41`, `ntfy.go:82`), so
status 200 with an error in the body, or with the page of a proxy, counts as
sent.  DingTalk and Feishu accept an empty body (`dingtalk.go:72`,
`feishu.go:67`), and both and Weixin JSON without an error code.  These answers
are in the model, and the property excepts them by name; all other losses are
reported.

`ExpiredIdentityErased` is about the token refused in the first session.  One
refused in the retried session stays, as its last conjunct says and as
`refresh_stale_claim` shows against the words of the message.

### Bounds

* `MaxEpoch` limits resets per process before `Heal`; with 1 a run starts both
  before and after a reset of an earlier run of the same process, and every run
  may reset once more in `Resolve` and once in `HandleAuthExpired`.  The bound
  guards only `Start`, so no run is cut off.  The proofs do not depend on it.
* Two users are enough for "another account", two tokens of one user for "the
  token that was refused and its successor", two DIDs for a rotation.
* Three jobs: one that runs, one that passes the checks, one that comes late.
  Three clients of the store: one that resets, one overtaken, one in time.
* Two channels exceed the buffer of the faulty variant by one; two calls overlap
  each other and `Close`.
* `MaxDID` 4: the client's own DID, one from a login and two rotations.
* The numbers of `settings` are -1, 0, 1, 2, 6 and 16 half nanoseconds: negative,
  zero, less than a nanosecond, one, an ordinary one and one that overflows the
  4-bit Duration; a millisecond has `PerMilli` = 4 nanoseconds, so that
  most Durations are not whole milliseconds.
* `shutdown`: one job is enough there, as `lifecycle` has the interleavings of
  jobs; two notifications meet both the run and its shutdown, `MaxRequests` 1
  keeps each user of the transport to one request at a time.
* When the world heals, the server may have revoked any of the tokens that the
  process still knows; others make no difference, as a login grants a valid one.
* The two runs that end in a counterexample use `FaultySpec`, the part of the
  specification before `Heal`.

### Deadlock and fairness

Deadlock is checked in all runs.  Where a system ends, an explicit step repeats
its final state (`Done`, `Closed`, `AllOver`, `Ended`, `Refused`,
`Exited`).

* `Refresh`, `WF(Run)`: cron fires again and again, store methods do not block,
  every request has a time-out (`mt.timeout` must be positive) and the run a
  deadline.
* `Lifecycle`, weak fairness of main and of each goroutine: the Go scheduler is
  fair to runnable goroutines, timers fire, a run ends with its deadline.  The
  lock needs no strong fairness, because jobs use `TryLock` and only `Stop` waits
  once new runs are refused.
* `TLSClient`, `NotifyManager`, `Shutdown`: requests and sends end with their
  time-outs, which `settings` shows that they have.
* `Delivery`: the goroutine of a send goes on, the timer of its context fires and the
  transport gives up a request whose context has ended.  Nothing is assumed of
  the service.

## 4. Proofs

All theorems hold for every value of the constants under the named assumptions;
TLC evaluates these in every run.

* `StoreClientsProofs` (`StoreAssumption`: the absent value is no value;
  `ClientsAssumption`).  `NoStaleWrite` is not inductive: a state in which an
  overtaken client still holds the current epoch would break it.
  `EpochsOrdered` excludes such states: no client is ahead of the store, and an
  overtaken one is behind.  `TypeCorrect`, `EpochContract`, `ErasureContract`
  (the epoch and the erasure move together, in both directions).
* `RefreshProofs` (`RefreshAssumption`: what validation guarantees of a
  configuration, and that every value has one owner).  `IInv` says, for each
  stretch of `pc`, what is known of the run's copy of the identity: nothing is
  left of an old one when the account is bound (`BeforeBinding`), everything
  after it belongs to the account (`AfterBinding`), it is complete and stored
  when the session begins (`AtSession`), and token mode never gets there
  (`TokenModePath`).  `IdentityBinding` covers `disk` as well, so the order
  reset, bind, store is shown to be safe under a power loss at any point.
  `TypeCorrect`, `IdentityBound`, `SessionIdentityHolds`.

  The other properties speak of the whole run, so `HistoryInv` adds what a run
  remembers.  `ControlInv` says for every `pc` which calls have been made, which
  error they have left, how many logins have been counted and what has been
  said; `StoreAtReport` says what is in the store when a message about a session
  goes out, `ErasedInRetry` what is gone from it between the reset and the new
  login.  `RunOwnsEpochHolds` rests on the fact that a run is alone with the
  store: the epoch moves only with its own reset, whose new value it takes over.
  `NoLoginLoopHolds`, `TokenModeReadOnlyHolds`, `OutcomeReportedHolds`,
  `RotationKeptHolds`, `ExpiredIdentityErasedHolds`.
* `LifecycleProofs` (`LifecycleAssumption`: main is not a job).  `IInv` ties the
  lock to its holder, main's position to the open resources, and the flag to
  everything after `Stop`; `CodeTells` ties the exit code to the failures of the
  process.  `TypeCorrect`, `MutualExclusion`, `StopFinal`,
  `ResourcesOutliveRuns`, `NothingLeftBehind`.
* `ChecksProofs` (`ChecksAssumption`: a warm-up has at least one request).
  `Progress` says what the two flags mean in each stage.
  `ChecksTellTheTruth`, `RefusalNeverLost`, and `PhasesImplementCalls`: `Checks`
  implements `KeepAlive`, so `Refresh` may treat `runChecks` as five calls.

* `TLSClientProofs` (`TLSClientAssumption`: being idle is no key, and there are
  finitely many callers, without which a wait group counts nothing).  `IInv`: the
  wait group is the number of callers that hold a client (`CountsInFlight`), a
  cached client's jar is still there (`JarsKept`), and `closeDone` comes after
  the flag and the drain (`CloseOrder`); a counter of 0 alone would not say that
  nobody uses a client.  `OneJarPerScopeHolds`, `CloseMeansDrainedHolds`,
  `WaitGroupDisciplineHolds`.
* `DeliveryProofs` (`NotifyAssumption`: calls and channels are finite;
  `DeliveryAssumption`: the send in detail is one of them).  `ManagerRefined` shows that a `Send` in detail is one step of
  `NotifyManager`; `ManagerInv` is inductive for `NotifyManager` and carried over:
  the wait group counts the calls that were let in, a goroutine lives only within
  its call, and the error buffer holds the failed sends that have ended, hence
  never more than there are channels (`NobodyBlocksHolds`, the safety core of
  `EverybodyReturns`).  `SendInv` and `SendFollowed` tie the request-level `Send` to
  what the service took.  `FailuresReportedHolds`, `NoSendAfterCloseHolds`,
  `LossReportedHolds`; its core, `VerdictTells`, goes through the verdicts
  of all kinds and answers.
* `ClientProofs`.  For `Pipeline` (`PipelineAssumption`: the channels are none of
  the M-Team clients): the properties are inductive only together with
  `RunWithoutProxy` (no channel ever touches the context of the run),
  `NothingLost` (the session's DID is the last it was told, the jar has what
  M-Team gave), `OneAtATime` (login and session, which share identity and jar,
  are never on the wire together) and `ScopesApart`.
  `IdentityOnWireHolds`, `CookiesStayHomeHolds`, `OwnRouteHolds`.
  For `Login`, which has no constants: `SentSoFar` derives the number of requests
  from step and attempt, `OwnDIDs` says whose DID a request carried,
  and `PastTheCheck` that a login which is about to send after the end of its
  context was about to send before.  `GrantedOrErrorHolds`, `LoginRequestsHolds`,
  `LateRequestHolds`.
  For `Settings` (`SettingsAssumption`: the numbers are integers, a Duration has
  some width, a millisecond has nanoseconds): what each stage of `App.New` has
  checked is still true of the durations it made.
  `RequestsBoundedHolds`, `DelayInRangeHolds`; `WrapFits` and `SampleBetween` are
  the arithmetic behind the second, for a Duration of any width.
* `ShutdownProofs` (`ShutdownAssumption`: main is not a job and the run not a
  channel).  `LifecycleRefined`, `ManagerUsedAsPromised` and
  `TransportUsedAsPromised`: the composed process takes only steps that
  `Lifecycle`, `NotifyManager` and `TLSClient` know.  `NothingRefusedHolds` needs
  the chain of who works for whom: main is past `AwaitJobs` when something is
  closed (`ClosedLate`), then no thread is in `TryRun` (`MainStages`), without a
  run nobody is in `Notify` (`RunsNotify`), without a call no goroutine sends
  (`SendsOfCall`), and without a send no channel has a request on its way
  (`RequestsOfSend`).

Every safety invariant and every action property of the passing runs is proved.
Each inductive invariant was checked as an invariant of the run of its module,
on the run's constants, before it was proved; the runs themselves check the
properties it was made for.

Only model-checked, because the prover has no reasoning about fairness:
`RunEnds`, `Recovers`, `ShutdownCompletes`, `JobsEnd`, `CloseReturns`,
`EverybodyReturns`, and the fairness of `ImplementsManager` and
`ImplementsLifecycle`, whose initial states and steps are proved.  The claims of
the two runs that end with a violation are false and have no theorem.  Every
`TypeOK` is part of an inductive invariant and so proved with it.

## 5. Correspondence

`map` in `PROJECT.json` gives the lines of every definition.  Names follow the
code (`SaveAuthState`, `BrowseForum`, `shouldPropagateForumError`); where Go has
one function with several calls, there is one action per call and a disjunction
with the name of the function.  `Login` and `Settings` name their specifications
`LoginSpec` and `SettingsSpec`, so that one module of proofs can extend both.

## 6. Plan

All components of section 1 are modelled as far as section 7 says, and the
safety properties are proved.  What would come next:

1. The properties of `Lifecycle` within `Shutdown`, by carrying its inductive
   invariant over the way `DeliveryProofs` does for `NotifyManager`.
2. The safety cores of the liveness properties, as `NobodyBlocks` is for
   `EverybodyReturns`: that in every reachable state that is not final some
   step of a goroutine is possible.

## 7. Not modelled

* The logger and its output, and the redaction of secrets in log lines
  (`pkg/log/sanitize.go`): what it does is defined by regular expressions on
  text, which a model would only repeat.
* The syntax of TOML, of crontabs and of JSON, HMAC signatures, the arithmetic
  of TOTP, random strings, the wording of messages and the copying of fields
  between structs: data that no property distinguishes.
* Headers that depend on nothing but the configuration.
* `timeoutMilliseconds` on machines with an `int` of 32 bits.
* A second `Scheduler.Stop` or `Manager.Close`: the program calls each once.
