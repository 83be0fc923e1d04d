-------------------------- MODULE LifecycleProofs --------------------------
(***************************************************************************)
(* Mutual exclusion and orderly shutdown, proved for any number of cron    *)
(* jobs that overlap.                                                      *)
(***************************************************************************)
EXTENDS Lifecycle, TLAPS

(* The process starts in a state that satisfies the inductive invariant.   *)
LEMMA InitIInv == Init => IInv
BY LifecycleAssumption
   DEF Init, IInv, TypeOK, NewSteps, CloseSteps, TryRunSteps, Threads, LockHeld,
       MainInTryRun, StageFacts, AllOut, OpenFacts, StopIsFinal, Running, Resources

(* Every step of App.New keeps the invariant: nothing runs yet, and what   *)
(* was opened is closed when a later step fails.                           *)
LEMMA AssembleIInv == IInv /\ Assemble => IInv'
<1> SUFFICES ASSUME IInv, Assemble PROVE IInv'
  OBVIOUS
<1> USE DEF IInv, NewStep, ReleaseOnError, ClosedOnError, runtimeVars, schedVars
<1>0. ~cron /\ AllOut
  BY DEF Assemble, LoadConfig, OpenStore, NewTransport, NewAuthClient,
         NewBrowseClient, NewScheduler,
         StageFacts, NewSteps
<1>1. UNCHANGED <<localRun, signalled, stopped, rtCancelled, runMu, schedDone, cron, at>>
  BY DEF Assemble, LoadConfig, OpenStore, NewTransport, NewAuthClient,
         NewBrowseClient, NewScheduler
<1>2. main' \in NewSteps \cup {"execute", "exit"}
  BY DEF Assemble, LoadConfig, OpenStore, NewTransport, NewAuthClient,
         NewBrowseClient, NewScheduler, NewSteps
<1>3. TypeOK'
  <2>1. open' \subseteq Resources /\ code' \in {0, 1} /\ failed' \in BOOLEAN
    BY DEF Assemble, LoadConfig, OpenStore, NewTransport, NewAuthClient,
         NewBrowseClient, NewScheduler,
           TypeOK, Resources
  <2> QED BY <1>1, <1>2, <2>1 DEF TypeOK
<1>4. OpenFacts'
  BY DEF Assemble, LoadConfig, OpenStore, NewTransport, NewAuthClient,
         NewBrowseClient, NewScheduler,
         OpenFacts, Resources
<1>5. LockHeld' /\ MainInTryRun' /\ StopIsFinal' /\ AllOut'
  BY <1>0, <1>1, LifecycleAssumption
     DEF LockHeld, MainInTryRun, StopIsFinal, AllOut, Running, Threads
<1>6. StageFacts'
  BY <1>0, <1>1, <1>2, <1>5 DEF StageFacts, NewSteps
<1> QED BY <1>3, <1>4, <1>5, <1>6

(* execute's choice between RunOnce and Start, and its wait.               *)
LEMMA ExecuteIInv == IInv /\ Execute => IInv'
<1> SUFFICES ASSUME IInv, Execute PROVE IInv'
  OBVIOUS
<1> USE DEF IInv, runtimeVars, schedVars
<1>1. CASE RunOnce
  <2>1. AllOut /\ main' = "once" /\ at' = [at EXCEPT ![Main] = "checkStopped"]
    BY <1>1 DEF RunOnce, StageFacts
  <2>2. TypeOK'
    BY <1>1, <2>1 DEF RunOnce, TypeOK, TryRunSteps
  <2>3. LockHeld'
    BY <1>1, <2>1, LifecycleAssumption DEF RunOnce, LockHeld, AllOut, Threads, TypeOK
  <2>4. MainInTryRun' /\ StageFacts' /\ OpenFacts' /\ StopIsFinal'
    BY <1>1, <2>1
       DEF RunOnce, MainInTryRun, StageFacts, NewSteps, OpenFacts, StopIsFinal
  <2> QED BY <2>2, <2>3, <2>4
<1>2. CASE StartScheduler \/ StartFails \/ WaitEnds
  <2>1. main' \in {"wait", "stopRuntime"} /\ open = Resources /\ main # "once"
    BY <1>2 DEF StartScheduler, StartFails, WaitEnds, OpenFacts
  <2>2. UNCHANGED <<open, localRun, signalled, stopped, rtCancelled, runMu, schedDone, at>>
    BY <1>2 DEF StartScheduler, StartFails, WaitEnds
  <2>3. TypeOK'
    BY <1>2, <2>1, <2>2 DEF StartScheduler, StartFails, WaitEnds, TypeOK, CloseSteps
  <2>4. LockHeld' /\ MainInTryRun'
    BY <2>1, <2>2 DEF LockHeld, MainInTryRun
  <2>5. StageFacts' /\ OpenFacts' /\ StopIsFinal'
    BY <2>1, <2>2 DEF StageFacts, NewSteps, OpenFacts, StopIsFinal
  <2> QED BY <2>3, <2>4, <2>5
<1> QED BY <1>1, <1>2 DEF Execute

(* App.Close: the stage main reaches only gets what the stages before it   *)
(* have established.  Waiting for the lock after setting the flag is what  *)
(* makes Stop final.                                                       *)
LEMMA CloseIInv == IInv /\ Close => IInv'
<1> SUFFICES ASSUME IInv, Close PROVE IInv'
  OBVIOUS
<1> USE DEF IInv, runtimeVars, schedVars, CloseOrder
<1>1. main \in CloseSteps /\ main' \in (CloseSteps \ {"stopRuntime"}) \cup {"exit"}
  BY DEF Close, StopRuntime, CancelRuns, AwaitRun, StopScheduler, AwaitJobs, CloseNotify,
         CloseTransport, CloseStore, CloseResource, CloseSteps
<1>2. UNCHANGED <<at, runMu, localRun, signalled>>
  BY DEF Close, StopRuntime, CancelRuns, AwaitRun, StopScheduler, AwaitJobs, CloseNotify,
         CloseTransport, CloseStore, CloseResource
<1>3. at[Main] = "out"
  BY <1>1 DEF MainInTryRun, CloseSteps
<1>4. TypeOK'
  <2>1. /\ stopped' \in BOOLEAN /\ rtCancelled' \in BOOLEAN /\ schedDone' \in BOOLEAN
        /\ cron' \in BOOLEAN /\ code' \in {0, 1} /\ failed' \in BOOLEAN
        /\ open' \subseteq Resources
    BY DEF Close, StopRuntime, CancelRuns, AwaitRun, StopScheduler, AwaitJobs, CloseNotify,
           CloseTransport, CloseStore, CloseResource, TypeOK
  <2> QED BY <1>1, <1>2, <2>1 DEF TypeOK
<1>5. LockHeld' /\ MainInTryRun'
  BY <1>2, <1>3 DEF LockHeld, MainInTryRun
<1>6. OpenFacts'
  BY DEF Close, StopRuntime, CancelRuns, AwaitRun, StopScheduler, AwaitJobs, CloseNotify,
         CloseTransport, CloseStore, CloseResource, OpenFacts, Resources
<1>7. StopIsFinal'
  <2>1. CASE AwaitRun
    <3>1. runMu = NoOne
      BY <2>1 DEF AwaitRun
    <3>2. Running = {}
      BY <3>1, LifecycleAssumption DEF Running, LockHeld, Threads
    <3> QED BY <3>2, <1>2 DEF StopIsFinal, Running
  <2>2. CASE StopRuntime \/ CancelRuns
    BY <2>2 DEF StopRuntime, CancelRuns, StopIsFinal
  <2>3. CASE ~AwaitRun /\ ~StopRuntime /\ ~CancelRuns
    <3>1. Running = {}
      BY <2>3 DEF Close, StopScheduler, AwaitJobs, CloseNotify, CloseTransport,
                  CloseStore, CloseResource, StopIsFinal
    <3> QED BY <3>1, <1>2 DEF StopIsFinal, Running
  <2> QED BY <2>1, <2>2, <2>3
<1>8. StageFacts'
  <2>1. CASE StopRuntime \/ CancelRuns
    BY <2>1 DEF StopRuntime, CancelRuns, StageFacts, NewSteps
  <2>2. CASE AwaitRun
    BY <2>2 DEF AwaitRun, StageFacts, NewSteps
  <2>3. CASE StopScheduler
    BY <2>3 DEF StopScheduler, StageFacts, NewSteps
  <2>4. CASE AwaitJobs
    BY <2>4, <1>3 DEF AwaitJobs, StageFacts, NewSteps, AllOut, Threads
  <2>5. CASE CloseNotify \/ CloseTransport \/ CloseStore
    BY <2>5 DEF CloseNotify, CloseTransport, CloseStore, CloseResource, StageFacts,
                NewSteps, AllOut
  <2> QED BY <2>1, <2>2, <2>3, <2>4, <2>5 DEF Close
<1> QED BY <1>4, <1>5, <1>6, <1>7, <1>8

(* A thread inside runWithDelay or TryRun tells in which stage main is:    *)
(* neither before the scheduler was started nor after the jobs were        *)
(* awaited.                                                                *)
LEMMA ThreadStage ==
  ASSUME IInv, NEW t \in Threads, at[t] # "out"
  PROVE  /\ main \in {"once", "wait", "stopRuntime", "cancelRuns", "awaitRun",
                      "stopScheduler", "awaitJobs"}
         /\ t = Main => main = "once"
BY DEF IInv, TypeOK, StageFacts, AllOut, CloseSteps, MainInTryRun

(* A step that moves thread t on, or out of TryRun with or without the     *)
(* unlock, keeps the invariant: the lock stays with the thread that runs,  *)
(* and "running" is reached only with the flag unset.                      *)
LEMMA ThreadIInv ==
  ASSUME IInv, NEW t \in Threads, Thread(t)
  PROVE  IInv'
<1> USE DEF IInv, runtimeVars, schedVars
<1>0. at[t] # "out" /\ at[t] \in TryRunSteps \cup {"delay"}
  BY DEF Thread, Delay, CheckStopped, CheckDelayCtx, CheckRootCtx, EarlyCheck, TryLock,
         Recheck, RunReturns, TypeOK, TryRunSteps
<1>1. UNCHANGED <<localRun, open, signalled, stopped, rtCancelled, schedDone, cron>>
  BY DEF Thread, Delay, CheckStopped, CheckDelayCtx, CheckRootCtx, EarlyCheck, TryLock,
         Recheck, RunReturns
<1>2. /\ main \in {"once", "wait", "stopRuntime", "cancelRuns", "awaitRun",
                   "stopScheduler", "awaitJobs"}
      /\ t = Main => main = "once"
  BY <1>0, ThreadStage
<1>3. PICK step \in TryRunSteps \cup {"out"} : at' = [at EXCEPT ![t] = step]
  BY DEF Thread, Delay, CheckStopped, CheckDelayCtx, CheckRootCtx, EarlyCheck, TryLock,
         Recheck, RunReturns, Leave, Goto, TryRunSteps
<1>4. \/ UNCHANGED <<main, code, failed>>
      \/ /\ t = Main /\ main' = "stopRuntime" /\ step = "out"
         /\ code' \in {0, 1} /\ failed' \in BOOLEAN
  <2>1. ASSUME NEW ok \in BOOLEAN, Leave(t, ok)
        PROVE  \/ UNCHANGED <<main, code, failed>>
               \/ /\ t = Main /\ main' = "stopRuntime" /\ step = "out"
                  /\ code' \in {0, 1} /\ failed' \in BOOLEAN
    <3>1. step = "out"
      <4>1. at'[t] = step
        BY <1>3 DEF TypeOK
      <4>2. at'[t] = "out"
        BY <2>1 DEF Leave, TypeOK
      <4> QED BY <4>1, <4>2
    <3> QED BY <2>1, <3>1 DEF Leave, TypeOK
  <2>2. ASSUME NEW s, Goto(t, s) PROVE UNCHANGED <<main, code, failed>>
    BY <2>2 DEF Goto
  <2> QED BY <2>1, <2>2
          DEF Thread, Delay, CheckStopped, CheckDelayCtx, CheckRootCtx, EarlyCheck,
              TryLock, Recheck, RunReturns
<1>5. /\ runMu' \in {runMu, t, NoOne}
      /\ runMu' # runMu => runMu \in {t, NoOne}
      /\ step \in {"recheck", "running"} => runMu' = t
  <2>1. at'[t] = step
    BY <1>3 DEF TypeOK
  <2>2. CASE Delay(t) \/ CheckStopped(t) \/ CheckDelayCtx(t) \/ CheckRootCtx(t)
    <3>1. UNCHANGED runMu /\ at'[t] \notin {"recheck", "running"}
      BY <2>2 DEF Delay, CheckStopped, CheckDelayCtx, CheckRootCtx, EarlyCheck, Leave,
                  Goto, TypeOK
    <3> QED BY <2>1, <3>1
  <2>3. CASE TryLock(t)
    BY <2>1, <2>3 DEF TryLock, Leave, Goto, TypeOK
  <2>4. CASE Recheck(t)
    BY <2>1, <2>4 DEF Recheck, Unlock, Leave, Goto, TypeOK, LockHeld
  <2>5. CASE RunReturns(t)
    BY <2>1, <2>5 DEF RunReturns, Unlock, Leave, TypeOK
  <2> QED BY <2>2, <2>3, <2>4, <2>5 DEF Thread
<1>6. step = "running" => ~stopped
  <2>1. at'[t] = step
    BY <1>3 DEF TypeOK
  <2> QED BY <2>1
          DEF Thread, Delay, CheckStopped, CheckDelayCtx, CheckRootCtx, EarlyCheck,
              TryLock, Recheck, RunReturns, Leave, Goto, TypeOK
<1>7. TypeOK'
  <2>1. at' \in [Threads -> TryRunSteps \cup {"out", "delay"}]
    BY <1>3 DEF TypeOK
  <2>2. runMu' \in Threads \cup {NoOne}
    BY <1>5 DEF TypeOK
  <2>3. /\ main' \in NewSteps \cup {"execute", "once", "wait", "exit"} \cup CloseSteps
        /\ code' \in {0, 1} /\ failed' \in BOOLEAN
    BY <1>4 DEF TypeOK, CloseSteps
  <2> QED BY <1>1, <2>1, <2>2, <2>3 DEF TypeOK
<1>8. LockHeld'
  <2> SUFFICES ASSUME NEW u \in Threads, at'[u] \in {"recheck", "running"}
               PROVE  runMu' = u
    BY DEF LockHeld
  <2>1. CASE u = t
    BY <2>1, <1>3, <1>5 DEF TypeOK
  <2>2. CASE u # t
    <3>1. at[u] \in {"recheck", "running"}
      BY <2>2, <1>3 DEF TypeOK
    <3>2. runMu = u
      BY <3>1 DEF LockHeld
    <3> QED BY <2>2, <3>2, <1>5, LifecycleAssumption DEF Threads
  <2> QED BY <2>1, <2>2
<1>9. MainInTryRun'
  BY <1>2, <1>3, <1>4 DEF MainInTryRun, TypeOK, Threads
<1>10. StageFacts'
  BY <1>1, <1>2, <1>4 DEF StageFacts, NewSteps
<1>11. OpenFacts'
  BY <1>1, <1>2, <1>4 DEF OpenFacts
<1>12. StopIsFinal'
  <2>1. CASE main' \in {"stopScheduler", "awaitJobs"}
    <3>1. main' = main /\ stopped /\ Running = {}
      BY <2>1, <1>4 DEF StageFacts, StopIsFinal
    <3>2. step # "running"
      BY <3>1, <1>6
    <3>3. Running' = {}
      BY <3>1, <3>2, <1>3 DEF Running, TypeOK
    <3> QED BY <3>3 DEF StopIsFinal
  <2>2. CASE main' \notin {"stopScheduler", "awaitJobs"}
    BY <2>2, <1>2, <1>4 DEF StopIsFinal
  <2> QED BY <2>1, <2>2
<1> QED BY <1>7, <1>8, <1>9, <1>10, <1>11, <1>12

(* Cron starts a job only while its loop runs, hence not before Start and  *)
(* not after Scheduler.Stop.                                               *)
LEMMA TickIInv ==
  ASSUME IInv, NEW j \in Jobs, Tick(j)
  PROVE  IInv'
<1> USE DEF IInv, runtimeVars, schedVars
<1>1. j \in Threads /\ j # Main
  BY LifecycleAssumption DEF Threads
<1>2. at' = [at EXCEPT ![j] = "delay"] /\ cron
  BY DEF Tick
<1>3. UNCHANGED <<main, localRun, code, failed, open, signalled, stopped, rtCancelled,
                  runMu, schedDone, cron>>
  BY DEF Tick
<1>4. TypeOK'
  BY <1>2, <1>3 DEF TypeOK
<1>5. LockHeld' /\ MainInTryRun'
  BY <1>1, <1>2, <1>3 DEF LockHeld, MainInTryRun, TypeOK, Threads
<1>6. StageFacts' /\ OpenFacts'
  BY <1>2, <1>3 DEF StageFacts, OpenFacts
<1>7. StopIsFinal'
  BY <1>2, <1>3 DEF StopIsFinal, Running, TypeOK
<1> QED BY <1>4, <1>5, <1>6, <1>7

(* Every step of the process keeps the invariant.                          *)
LEMMA NextIInv == IInv /\ [Next]_vars => IInv'
<1> SUFFICES ASSUME IInv, [Next]_vars PROVE IInv'
  OBVIOUS
<1>1. CASE Signal \/ Done \/ UNCHANGED vars
  <2>1. /\ UNCHANGED <<main, localRun, code, failed, open, stopped, rtCancelled, runMu,
                       schedDone, cron, at>>
        /\ signalled' \in {signalled, TRUE}
    BY <1>1 DEF Signal, Done, vars, runtimeVars, schedVars
  <2>2. TypeOK'
    BY <2>1 DEF IInv, TypeOK
  <2>3. LockHeld' /\ MainInTryRun' /\ StageFacts' /\ OpenFacts' /\ StopIsFinal'
    BY <2>1 DEF IInv, LockHeld, MainInTryRun, StageFacts, AllOut, OpenFacts, StopIsFinal,
                Running
  <2> QED BY <2>2, <2>3 DEF IInv
<1>2. CASE Assemble
  BY <1>2, AssembleIInv
<1>3. CASE Execute
  BY <1>3, ExecuteIInv
<1>4. CASE Close
  BY <1>4, CloseIInv
<1>5. ASSUME NEW j \in Jobs, Tick(j) PROVE IInv'
  BY <1>5, TickIInv
<1>6. ASSUME NEW t \in Threads, Thread(t) PROVE IInv'
  BY <1>6, ThreadIInv
<1> QED BY <1>1, <1>2, <1>3, <1>4, <1>5, <1>6 DEF Next

(* Every reachable state is well typed.                                    *)
THEOREM TypeCorrect == Spec => []TypeOK
BY InitIInv, NextIInv, PTL DEF Spec, IInv

(* However many ticks overlap, one refresh runs at a time.                 *)
THEOREM MutualExclusion == Spec => []OneRunAtATime
<1>1. IInv => OneRunAtATime
  BY DEF IInv, LockHeld, OneRunAtATime, Running
<1> QED BY <1>1, InitIInv, NextIInv, PTL DEF Spec

(* After Runtime.Stop no refresh is in progress and none begins.           *)
THEOREM StopFinal == Spec => []StopIsFinal
BY InitIInv, NextIInv, PTL DEF Spec, IInv

(* App.Close closes no resource under a running refresh.                   *)
THEOREM ResourcesOutliveRuns == Spec => []NoUseAfterClose
<1>1. IInv => NoUseAfterClose
  <2> SUFFICES ASSUME IInv, NEW t \in Threads, at[t] = "running"
               PROVE  open = Resources
    BY DEF NoUseAfterClose, Running
  <2>1. main \in {"once", "wait", "stopRuntime", "cancelRuns", "awaitRun",
                  "stopScheduler", "awaitJobs"}
    BY ThreadStage
  <2> QED BY <2>1 DEF IInv, OpenFacts
<1> QED BY <1>1, InitIInv, NextIInv, PTL DEF Spec

(* The exit code tells of every failed step, from start to exit.           *)
LEMMA CodeTellsAlways == Spec => []CodeTells
<1>1. Init => CodeTells
  BY DEF Init, CodeTells
<1>2. TypeOK /\ CodeTells /\ [Next]_vars => CodeTells'
  <2> SUFFICES ASSUME TypeOK, CodeTells, [Next]_vars PROVE CodeTells'
    OBVIOUS
  <2>1. CASE UNCHANGED <<code, failed>>
    BY <2>1 DEF CodeTells
  <2>2. CASE Assemble \/ Execute
    BY <2>2 DEF Assemble, LoadConfig, OpenStore, NewTransport, NewAuthClient,
         NewBrowseClient, NewScheduler,
                NewStep, Execute, RunOnce, StartScheduler, StartFails, WaitEnds, CodeTells
  <2>3. CASE Close
    BY <2>3 DEF Close, StopRuntime, CancelRuns, AwaitRun, StopScheduler, AwaitJobs,
                CloseNotify, CloseTransport, CloseStore, CloseResource, CodeTells
  <2>4. ASSUME NEW t \in Threads, Thread(t) PROVE CodeTells'
    <3>1. ASSUME NEW ok \in BOOLEAN, Leave(t, ok) PROVE CodeTells'
      <4>1. CASE UNCHANGED <<code, failed>>
        BY <4>1 DEF CodeTells
      <4>2. CASE t = Main /\ ok
        <5>1. code' = code /\ failed' = (failed \/ FALSE)
          BY <3>1, <4>2 DEF Leave
        <5> QED BY <5>1 DEF CodeTells, TypeOK
      <4>3. CASE t = Main /\ ~ok
        <5>1. code' = 1 /\ failed' = TRUE
          BY <3>1, <4>3 DEF Leave
        <5> QED BY <5>1 DEF CodeTells
      <4> QED BY <3>1, <4>1, <4>2, <4>3 DEF Leave
    <3>2. ASSUME NEW s, Goto(t, s) PROVE CodeTells'
      BY <3>2 DEF Goto, CodeTells
    <3> QED BY <2>4, <3>1, <3>2
            DEF Thread, Delay, CheckStopped, CheckDelayCtx, CheckRootCtx, EarlyCheck,
                TryLock, Recheck, RunReturns
  <2> QED BY <2>1, <2>2, <2>3, <2>4 DEF Next, Signal, Done, Tick, vars
<1> QED BY <1>1, <1>2, TypeCorrect, PTL DEF Spec

(* At exit no resource is open, no job is alive, cron is stopped and the   *)
(* exit code tells of every failure.                                       *)
THEOREM NothingLeftBehind == Spec => []CleanExit
<1>1. IInv /\ CodeTells => CleanExit
  BY DEF IInv, StageFacts, OpenFacts, AllOut, CleanExit, CodeTells
<1> QED BY <1>1, InitIInv, NextIInv, CodeTellsAlways, PTL DEF Spec
=============================================================================
