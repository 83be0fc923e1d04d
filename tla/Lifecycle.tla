----------------------------- MODULE Lifecycle -----------------------------
(***************************************************************************)
(* A process from start to exit: execute in main.go, App.New, Start,       *)
(* RunOnce and Close, the Runtime with its run lock and the Scheduler with *)
(* its cron jobs.                                                          *)
(*                                                                         *)
(* The threads are the main goroutine and the goroutines in which cron     *)
(* runs its jobs; a signal may arrive at any time.  Each atomic load, lock *)
(* operation and context check of TryRun is a step of its own, so that     *)
(* Stop can come between any two of them.  What a refresh does is left to  *)
(* module Refresh; here a run in progress is a user of the resources that  *)
(* App.New opened.                                                         *)
(***************************************************************************)
EXTENDS Naturals

CONSTANTS Jobs,   \* goroutines cron has for jobs that overlap in time
          Main,   \* the main goroutine
          NoOne   \* the holder of a free mutex

ASSUME LifecycleAssumption == Main \notin Jobs /\ NoOne \notin Jobs \cup {Main}

Threads == Jobs \cup {Main}

VARIABLES main,        \* the next step of execute
          localRun,    \* LOCAL_TEST_RUN=true
          code,        \* the exit code so far
          failed,      \* history: some step reported an error
          open,        \* resources opened and not closed
          signalled,   \* SIGINT or SIGTERM has cancelled the root context
          stopped,     \* Runtime.stopped
          rtCancelled, \* Runtime.cancel was called
          runMu,       \* the holder of Runtime.runMu
          schedDone,   \* Scheduler.cancel was called
          cron,        \* the cron loop fires jobs
          at           \* at[t]: where thread t is in runWithDelay and TryRun

vars == <<main, localRun, code, failed, open, signalled, stopped, rtCancelled, runMu,
          schedDone, cron, at>>

Resources == {"store", "transport", "notify"}

NewSteps == {"loadConfig", "openStore", "newTransport", "newAuthClient", "newBrowseClient",
             "newScheduler"}

CloseSteps == {"stopRuntime", "cancelRuns", "awaitRun", "stopScheduler", "awaitJobs",
               "closeNotify", "closeTransport", "closeStore"}

(* App.Close, step by step: Runtime.Stop sets the flag and waits for the   *)
(* run lock, Scheduler.Stop cancels the delays and waits for the jobs,     *)
(* then the resources go in the reverse order of their opening.            *)
CloseBeforeWaiting == [stopRuntime    |-> "cancelRuns",
                       cancelRuns     |-> "closeNotify",
                       closeNotify    |-> "closeTransport",
                       closeTransport |-> "closeStore",
                       closeStore     |-> "awaitRun",
                       awaitRun       |-> "stopScheduler",
                       stopScheduler  |-> "awaitJobs",
                       awaitJobs      |-> "exit"]

CloseOrder == [stopRuntime    |-> "cancelRuns",
               cancelRuns     |-> "awaitRun",
               awaitRun       |-> "stopScheduler",
               stopScheduler  |-> "awaitJobs",
               awaitJobs      |-> "closeNotify",
               closeNotify    |-> "closeTransport",
               closeTransport |-> "closeStore",
               closeStore     |-> "exit"]

TryRunSteps == {"checkStopped", "checkDelayCtx", "checkRootCtx", "tryLock", "recheck",
                "running"}

TypeOK == /\ main \in NewSteps \cup {"execute", "once", "wait", "exit"} \cup CloseSteps
          /\ localRun \in BOOLEAN
          /\ code \in {0, 1}
          /\ failed \in BOOLEAN
          /\ open \subseteq Resources
          /\ signalled \in BOOLEAN
          /\ stopped \in BOOLEAN
          /\ rtCancelled \in BOOLEAN
          /\ runMu \in Threads \cup {NoOne}
          /\ schedDone \in BOOLEAN
          /\ cron \in BOOLEAN
          /\ at \in [Threads -> TryRunSteps \cup {"out", "delay"}]

Init == /\ main = "loadConfig"
        /\ localRun \in BOOLEAN
        /\ code = 0
        /\ failed = FALSE
        /\ open = {}
        /\ signalled = FALSE
        /\ stopped = FALSE
        /\ rtCancelled = FALSE
        /\ runMu = NoOne
        /\ schedDone = FALSE
        /\ cron = FALSE
        /\ at = [t \in Threads |-> "out"]

runtimeVars == <<stopped, rtCancelled, runMu>>
schedVars == <<schedDone, cron>>

-----------------------------------------------------------------------------
(* App.New has a list of resources to close before each of its returns     *)
(* with an error.                                                          *)
ClosedOnError == [loadConfig      |-> {},
                  openStore       |-> {},
                  newTransport    |-> {"store"},
                  newAuthClient   |-> {"transport", "store"},
                  newBrowseClient |-> {"transport", "store"},
                  newScheduler    |-> {"notify", "transport", "store"}]

(* One forgotten close: that of the manager, opened just before.           *)
NotifyForgotten(step) == open \ (ClosedOnError[step] \ {"notify"})

ReleaseOnError(step) == open \ ClosedOnError[step]

(* A step of App.New opens a resource, or fails, and execute returns 1.    *)
NewStep(step, opens, next) ==
  /\ main = step
  /\ \/ /\ main' = next
        /\ open' = open \cup opens
        /\ UNCHANGED <<code, failed>>
     \/ /\ main' = "exit"
        /\ open' = ReleaseOnError(step)
        /\ code' = 1
        /\ failed' = TRUE
  /\ UNCHANGED <<localRun, signalled, runtimeVars, schedVars, at>>

LoadConfig == NewStep("loadConfig", {}, "openStore")
OpenStore == NewStep("openStore", {"store"}, "newTransport")
NewTransport == NewStep("newTransport", {"transport"}, "newAuthClient")
NewAuthClient == NewStep("newAuthClient", {}, "newBrowseClient")
NewBrowseClient == NewStep("newBrowseClient", {"notify"}, "newScheduler")
NewScheduler == NewStep("newScheduler", {}, "execute")

(* execute, RunOnce: the main goroutine calls TryRun. *)
RunOnce == /\ main = "execute"
           /\ localRun
           /\ main' = "once"
           /\ at' = [at EXCEPT ![Main] = "checkStopped"]
           /\ UNCHANGED <<localRun, code, failed, open, signalled, runtimeVars, schedVars>>

(* execute, Start: Scheduler.Start starts cron, then main waits. *)
StartScheduler == /\ main = "execute"
                  /\ ~localRun
                  /\ main' = "wait"
                  /\ cron' = TRUE
                  /\ UNCHANGED <<localRun, code, failed, open, signalled, runtimeVars,
                                 schedDone, at>>

StartFails == /\ main = "execute"
              /\ ~localRun
              /\ main' = "stopRuntime"
              /\ code' = 1
              /\ failed' = TRUE
              /\ UNCHANGED <<localRun, open, signalled, runtimeVars, schedVars, at>>

WaitEnds == /\ main = "wait"
            /\ signalled
            /\ main' = "stopRuntime"
            /\ UNCHANGED <<localRun, code, failed, open, signalled, runtimeVars, schedVars, at>>

-----------------------------------------------------------------------------
(* Runtime.Stop: the flag, the cancellation, the wait for the run lock. *)
StopRuntime == /\ main = "stopRuntime"
               /\ stopped' = TRUE
               /\ main' = CloseOrder.stopRuntime
               /\ UNCHANGED <<localRun, code, failed, open, signalled, rtCancelled, runMu,
                              schedVars, at>>

CancelRuns == /\ main = "cancelRuns"
              /\ rtCancelled' = TRUE
              /\ main' = CloseOrder.cancelRuns
              /\ UNCHANGED <<localRun, code, failed, open, signalled, stopped, runMu,
                             schedVars, at>>

AwaitRun == /\ main = "awaitRun"
            /\ runMu = NoOne
            /\ main' = CloseOrder.awaitRun
            /\ UNCHANGED <<localRun, code, failed, open, signalled, runtimeVars, schedVars, at>>

(* Scheduler.Stop: cron.Stop ends the loop and waits for the jobs. *)
StopScheduler == /\ main = "stopScheduler"
                 /\ schedDone' = TRUE
                 /\ cron' = FALSE
                 /\ main' = CloseOrder.stopScheduler
                 /\ UNCHANGED <<localRun, code, failed, open, signalled, runtimeVars, at>>

AwaitJobs == /\ main = "awaitJobs"
             /\ \A j \in Jobs : at[j] = "out"
             /\ main' = CloseOrder.awaitJobs
             /\ UNCHANGED <<localRun, code, failed, open, signalled, runtimeVars, schedVars,
                            at>>

(* A resource that fails to close does not keep the next one from closing, *)
(* and turns the exit code into 1.                                         *)
CloseResource(step, r) ==
  /\ main = step
  /\ \/ UNCHANGED <<code, failed>>
     \/ code' = 1 /\ failed' = TRUE
  /\ open' = open \ {r}
  /\ main' = CloseOrder[step]
  /\ UNCHANGED <<localRun, signalled, runtimeVars, schedVars, at>>

CloseNotify == CloseResource("closeNotify", "notify")
CloseTransport == CloseResource("closeTransport", "transport")
CloseStore == CloseResource("closeStore", "store")

-----------------------------------------------------------------------------
Signal == /\ ~signalled
          /\ signalled' = TRUE
          /\ UNCHANGED <<main, localRun, code, failed, open, runtimeVars, schedVars, at>>

(* Cron fires: a goroutine starts runWithDelay, with a delay or without. *)
Tick(j) == /\ cron
           /\ at[j] = "out"
           /\ at' = [at EXCEPT ![j] = "delay"]
           /\ UNCHANGED <<main, localRun, code, failed, open, signalled, runtimeVars, schedVars>>

(* The contexts of the three checks: the one passed to TryRun is the       *)
(* scheduler's for a job and the root context for RunOnce; the runtime's   *)
(* own ends with the root context or with Stop.                            *)
DelayCtxDone(t) == signalled \/ (t \in Jobs /\ schedDone)

RootCtxDone == signalled \/ rtCancelled

(* TryRun returns: the deferred unlock, and execute takes RunOnce's error. *)
Leave(t, ok) ==
  /\ at' = [at EXCEPT ![t] = "out"]
  /\ IF t = Main
       THEN /\ main' = "stopRuntime"
            /\ code' = IF ok THEN code ELSE 1
            /\ failed' = (failed \/ ~ok)
       ELSE UNCHANGED <<main, code, failed>>

Unlock(t) == runMu' = IF runMu = t THEN NoOne ELSE runMu

Goto(t, step) == /\ at' = [at EXCEPT ![t] = step]
                 /\ UNCHANGED <<main, code, failed>>

(* runWithDelay: the timer fires, or the scheduler's context ends first. *)
Delay(t) == /\ at[t] = "delay"
            /\ \/ Goto(t, "checkStopped")
               \/ DelayCtxDone(t) /\ Leave(t, FALSE)
            /\ UNCHANGED <<localRun, open, signalled, runtimeVars, schedVars>>

(* One early return of TryRun. *)
EarlyCheck(t, step, refuse, next) ==
  /\ at[t] = step
  /\ IF refuse THEN Leave(t, FALSE) ELSE Goto(t, next)
  /\ UNCHANGED <<localRun, open, signalled, runtimeVars, schedVars>>

CheckStopped(t) == EarlyCheck(t, "checkStopped", stopped, "checkDelayCtx")

CheckDelayCtx(t) == EarlyCheck(t, "checkDelayCtx", DelayCtxDone(t), "checkRootCtx")

CheckRootCtx(t) == EarlyCheck(t, "checkRootCtx", RootCtxDone, "tryLock")

(* TryLock fails while another run holds the lock: SchedulerBusy. *)
TryLockAnyway(t) ==
  /\ at[t] = "tryLock"
  /\ runMu' = t
  /\ Goto(t, "recheck")
  /\ UNCHANGED <<localRun, open, signalled, stopped, rtCancelled, schedVars>>

LockInstead(t) ==
  /\ at[t] = "tryLock"
  /\ runMu = NoOne
  /\ runMu' = t
  /\ Goto(t, "recheck")
  /\ UNCHANGED <<localRun, open, signalled, stopped, rtCancelled, schedVars>>

TryLock(t) ==
  /\ at[t] = "tryLock"
  /\ IF runMu = NoOne
       THEN runMu' = t /\ Goto(t, "recheck")
       ELSE UNCHANGED runMu /\ Leave(t, FALSE)
  /\ UNCHANGED <<localRun, open, signalled, stopped, rtCancelled, schedVars>>

(* The second look at the flag, with the lock held. *)
NoRecheck(t) ==
  /\ at[t] = "recheck"
  /\ UNCHANGED runMu
  /\ Goto(t, "running")
  /\ UNCHANGED <<localRun, open, signalled, stopped, rtCancelled, schedVars>>

RecheckLeaksLock(t) ==
  /\ at[t] = "recheck"
  /\ UNCHANGED runMu
  /\ IF stopped THEN Leave(t, FALSE) ELSE Goto(t, "running")
  /\ UNCHANGED <<localRun, open, signalled, stopped, rtCancelled, schedVars>>

Recheck(t) ==
  /\ at[t] = "recheck"
  /\ IF stopped
       THEN Unlock(t) /\ Leave(t, FALSE)
       ELSE UNCHANGED runMu /\ Goto(t, "running")
  /\ UNCHANGED <<localRun, open, signalled, stopped, rtCancelled, schedVars>>

(* Service.Run returns, with its error or without. *)
RunReturns(t) ==
  /\ at[t] = "running"
  /\ Unlock(t)
  /\ \E ok \in BOOLEAN : Leave(t, ok)
  /\ UNCHANGED <<localRun, open, signalled, stopped, rtCancelled, schedVars>>

Thread(t) == \/ Delay(t) \/ CheckStopped(t) \/ CheckDelayCtx(t) \/ CheckRootCtx(t)
             \/ TryLock(t) \/ Recheck(t) \/ RunReturns(t)

Assemble == \/ LoadConfig \/ OpenStore \/ NewTransport \/ NewAuthClient
            \/ NewBrowseClient \/ NewScheduler

Execute == RunOnce \/ StartScheduler \/ StartFails \/ WaitEnds

Close == \/ StopRuntime \/ CancelRuns \/ AwaitRun \/ StopScheduler \/ AwaitJobs
         \/ CloseNotify \/ CloseTransport \/ CloseStore

Done == main = "exit" /\ UNCHANGED vars

Next == \/ Assemble \/ Execute \/ Close \/ Signal \/ Done
        \/ \E j \in Jobs : Tick(j)
        \/ \E t \in Threads : Thread(t)

(* Every goroutine keeps running: timers fire, and a run ends because its  *)
(* requests carry timeouts and its contexts end with the process.          *)
Fairness == /\ WF_vars(Assemble \/ Execute \/ Close)
            /\ \A t \in Threads : WF_vars(Thread(t))

Spec == Init /\ [][Next]_vars /\ Fairness

-----------------------------------------------------------------------------
Running == {t \in Threads : at[t] = "running"}

(* One refresh at a time, whatever ticks overlap, and it holds the lock    *)
(* that Stop waits for.                                                    *)
OneRunAtATime == \A t \in Running : runMu = t

(* Once Runtime.Stop has returned, no refresh is in progress and none will *)
(* begin: a job that passed the early checks before Stop finds the flag    *)
(* when it looks again under the lock.                                     *)
StopIsFinal ==
  main \in {"stopScheduler", "awaitJobs", "closeNotify", "closeTransport", "closeStore", "exit"}
    => Running = {}

(* A refresh only runs while store, transport and notifier are all open:   *)
(* App.Close closes nothing under a running job.                           *)
NoUseAfterClose == Running # {} => open = Resources

(* The process leaves nothing behind, on every path through New, RunOnce,  *)
(* Start and Close: no resource is open, no job is alive, cron is stopped, *)
(* and the exit code is 0 exactly when every step, the deferred Close      *)
(* included, went well.                                                    *)
CleanExit == main = "exit" => /\ open = {}
                              /\ ~cron
                              /\ \A t \in Threads : at[t] = "out"
                              /\ code = 0 <=> ~failed

(* After a signal, and in any case after a local run, the process exits:   *)
(* Stop, the jobs and the run lock never wait for each other in a circle.  *)
ShutdownCompletes == (signalled \/ localRun) ~> main = "exit"

(* A job that cron started ends: it runs, is skipped or is cancelled, and  *)
(* never queues behind the run in progress.                                *)
JobsEnd == \A j \in Jobs : at[j] # "out" ~> at[j] = "out"

-----------------------------------------------------------------------------
(* The strengthening that makes the safety properties inductive.  What     *)
(* matters for them, besides who holds the lock, is how far main has come. *)
AllOut == \A t \in Threads : at[t] = "out"

LockHeld == \A t \in Threads : at[t] \in {"recheck", "running"} => runMu = t

MainInTryRun == at[Main] # "out" => main = "once"

StageFacts ==
  /\ main \in NewSteps \cup {"execute"} => ~cron /\ AllOut
  /\ main \in {"cancelRuns", "awaitRun", "stopScheduler", "awaitJobs"} => stopped
  /\ main = "awaitJobs" => ~cron
  /\ main \in {"closeNotify", "closeTransport", "closeStore", "exit"} => ~cron /\ AllOut

OpenFacts ==
  /\ main \in {"execute", "once", "wait", "stopRuntime", "cancelRuns", "awaitRun",
               "stopScheduler", "awaitJobs", "closeNotify"} => open = Resources
  /\ main = "loadConfig" => open = {}
  /\ main = "openStore" => open = {}
  /\ main = "newTransport" => open = {"store"}
  /\ main \in {"newAuthClient", "newBrowseClient"} => open = {"store", "transport"}
  /\ main = "newScheduler" => open = Resources
  /\ main = "closeTransport" => open = {"store", "transport"}
  /\ main = "closeStore" => open = {"store"}
  /\ main = "exit" => open = {}

(* The exit code so far tells whether a step has failed.                   *)
CodeTells == code = IF failed THEN 1 ELSE 0

(* Every reachable state: types, lock, stages of main, open resources and  *)
(* the finality of Stop together.                                          *)
IInv == /\ TypeOK
        /\ LockHeld
        /\ MainInTryRun
        /\ StageFacts
        /\ OpenFacts
        /\ StopIsFinal
=============================================================================
