--------------------------- MODULE ShutdownProofs ---------------------------
(***************************************************************************)
(* App.Close finds manager and transport idle, for any number of jobs,     *)
(* calls, channels and requests, and the composed process takes only the   *)
(* steps of Lifecycle.                                                     *)
(***************************************************************************)
EXTENDS Shutdown, TLAPS

(* A thread in runWithDelay or TryRun moves on, or leaves: it does so      *)
(* before main comes to the resources, and only RunReturns leaves a run.   *)
LEMMA ThreadMoves ==
  ASSUME IInv, NEW t \in L!Threads, L!Thread(t)
  PROVE  /\ at' \in [L!Threads -> L!TryRunSteps \cup {"out", "delay"}]
         /\ \A u \in L!Threads \ {t} : at'[u] = at[u]
         /\ at[t] # "out" /\ (t = Main => main = "once")
         /\ \/ main' = main
            \/ t = Main /\ main' = "stopRuntime" /\ at'[t] = "out"
         /\ UNCHANGED cron
<1>1. Shapes /\ MainStages
  BY DEF IInv
<1>2. at[t] # "out" /\ UNCHANGED cron
  BY DEF L!Thread, L!Delay, L!CheckStopped, L!CheckDelayCtx, L!CheckRootCtx, L!EarlyCheck,
         L!TryLock, L!Recheck, L!RunReturns, L!schedVars
<1>3. \/ \E ok \in BOOLEAN : L!Leave(t, ok)
      \/ \E step \in L!TryRunSteps : L!Goto(t, step)
  BY DEF L!Thread, L!Delay, L!CheckStopped, L!CheckDelayCtx, L!CheckRootCtx, L!EarlyCheck,
         L!TryLock, L!Recheck, L!RunReturns, L!TryRunSteps
<1>4. ASSUME NEW ok \in BOOLEAN, L!Leave(t, ok)
      PROVE  /\ at' = [at EXCEPT ![t] = "out"]
             /\ main' = main \/ (t = Main /\ main' = "stopRuntime")
  BY <1>4 DEF L!Leave
<1>5. ASSUME NEW step \in L!TryRunSteps, L!Goto(t, step)
      PROVE  at' = [at EXCEPT ![t] = step] /\ main' = main
  BY <1>5 DEF L!Goto
<1>6. t = Main => main = "once"
  BY <1>1, <1>2 DEF MainStages
<1>7. CASE \E ok \in BOOLEAN : L!Leave(t, ok)
  BY <1>1, <1>2, <1>4, <1>6, <1>7 DEF Shapes
<1>8. CASE \E step \in L!TryRunSteps : L!Goto(t, step)
  BY <1>1, <1>2, <1>5, <1>6, <1>8 DEF Shapes
<1> QED BY <1>3, <1>7, <1>8

(* A run that leaves has returned from Notify and RoundTrip.               *)
LEMMA ThreadIInv ==
  ASSUME IInv, NEW t \in L!Threads, Thread(t)
  PROVE  IInv'
<1>1. L!Thread(t) /\ (at[t] = "running" => RunFree) /\ UNCHANGED <<notifyVars, transportVars>>
  BY DEF Thread
<1>2. /\ at' \in [L!Threads -> L!TryRunSteps \cup {"out", "delay"}]
      /\ \A u \in L!Threads \ {t} : at'[u] = at[u]
      /\ at[t] # "out" /\ (t = Main => main = "once")
      /\ \/ main' = main
         \/ t = Main /\ main' = "stopRuntime" /\ at'[t] = "out"
      /\ UNCHANGED cron
  BY <1>1, ThreadMoves
<1>3. UNCHANGED <<call, send, using, refusing, closed>>
  BY <1>1 DEF notifyVars, transportVars
<1>4. Main \in L!Threads
  BY DEF L!Threads
<1>5. main \notin L!NewSteps \cup {"execute"} \cup Closed
  BY <1>2 DEF IInv, MainStages, L!AllOut
<1>6. Shapes'
  BY <1>2, <1>3 DEF IInv, Shapes
<1>7. MainStages'
  <2>1. at'[Main] # "out" => main' = "once"
    BY <1>2, <1>4 DEF IInv, MainStages
  <2>2. main' \notin L!NewSteps \cup {"execute"} \cup Closed
    BY <1>2, <1>5 DEF L!NewSteps, Closed
  <2>3. main' = "awaitJobs" => ~cron'
    BY <1>2 DEF IInv, MainStages
  <2> QED BY <2>1, <2>2, <2>3 DEF MainStages
<1>8. ClosedLate'
  BY <1>3, <1>5 DEF IInv, ClosedLate
<1>9. RunsNotify'
  <2>1. CASE at[t] = "running"
    BY <1>1, <1>3, <2>1 DEF RunsNotify, RunFree
  <2>2. CASE at[t] # "running"
    <3>1. Running \subseteq Running'
      BY <1>2, <2>2 DEF Running
    <3> QED BY <1>3, <3>1 DEF IInv, RunsNotify, RunFree
  <2> QED BY <2>1, <2>2
<1>10. SendsOfCall' /\ RequestsOfSend' /\ \A c \in Calls : call'[c] # "refused"
  BY <1>3 DEF IInv, SendsOfCall, RequestsOfSend
<1> QED BY <1>6, <1>7, <1>8, <1>9, <1>10 DEF IInv

(* A signal, or cron starting a job, which it does only between Start and  *)
(* Scheduler.Stop.                                                         *)
LEMMA SignalsIInv == IInv /\ Signals => IInv'
<1> SUFFICES ASSUME IInv, Signals PROVE IInv'
  OBVIOUS
<1>1. UNCHANGED <<call, send, using, refusing, closed>>
  BY DEF Signals, notifyVars, transportVars
<1>2. CASE L!Signal
  <2>1. UNCHANGED <<main, cron, at>>
    BY <1>2 DEF L!Signal, L!schedVars
  <2> QED BY <1>1, <2>1
          DEF IInv, Shapes, MainStages, L!AllOut, ClosedLate, RunsNotify, Running, RunFree,
              SendsOfCall, RequestsOfSend
<1>3. ASSUME NEW j \in Jobs, L!Tick(j) PROVE IInv'
  <2>1. UNCHANGED <<main, cron>> /\ cron /\ at' = [at EXCEPT ![j] = "delay"] /\ at[j] = "out"
    BY <1>3 DEF L!Tick, L!schedVars
  <2>2. j \in L!Threads /\ j # Main
    BY ShutdownAssumption DEF L!Threads
  <2>3. Shapes'
    BY <1>1, <2>1 DEF IInv, Shapes
  <2>4. MainStages'
    BY <2>1, <2>2 DEF IInv, MainStages, Shapes, L!Threads
  <2>5. Running' = Running
    BY <2>1, <2>2 DEF IInv, Shapes, Running
  <2>6. /\ ClosedLate' /\ RunsNotify' /\ SendsOfCall' /\ RequestsOfSend'
        /\ \A c \in Calls : call'[c] # "refused"
    BY <1>1, <2>1, <2>5
       DEF IInv, ClosedLate, RunsNotify, RunFree, SendsOfCall, RequestsOfSend
  <2> QED BY <2>3, <2>4, <2>6 DEF IInv
<1> QED BY <1>2, <1>3 DEF Signals

-----------------------------------------------------------------------------
(* While a run is in progress, neither manager nor transport is closed.    *)
LEMMA RunFindsOpen ==
  ASSUME IInv, Running # {}
  PROVE  ~refusing /\ ~closed
BY DEF IInv, ClosedLate, MainStages, L!AllOut, Running

(* The steps of runs and channels leave the process where it is.           *)
LEMMA AppStays ==
  ASSUME IInv, UNCHANGED <<main, cron, at, refusing, closed>>
  PROVE  /\ MainStages' /\ ClosedLate' /\ Running' = Running
         /\ at' \in [L!Threads -> L!TryRunSteps \cup {"out", "delay"}]
BY DEF IInv, Shapes, MainStages, L!AllOut, ClosedLate, Running

(* A request begins under a user that has none on its way. *)
LEMMA RoundTripTakes ==
  ASSUME IInv, NEW u \in Users, RoundTrip(u)
  PROVE  /\ UNCHANGED <<main, cron, at, refusing, closed, call, send>>
         /\ \E k \in {"mteam", "webhook", Idle} : using' = [using EXCEPT ![u] = k]
<1>1. UNCHANGED <<main, cron, at, refusing, call, send>>
  BY DEF RoundTrip, appVars, notifyVars
<1>2. KeyOf(u) \in {"mteam", "webhook"}
  BY DEF KeyOf
<1>3. UNCHANGED closed /\ using[u] = Idle
  BY DEF RoundTrip, T!Reuse, T!Create
<1>4. using' = [using EXCEPT ![u] = KeyOf(u)] \/ using' = using
  BY DEF RoundTrip, T!Reuse, T!Create, T!Take
<1>5. using = [using EXCEPT ![u] = Idle]
  BY <1>3 DEF IInv, Shapes
<1> QED BY <1>1, <1>2, <1>3, <1>4, <1>5

(* The requests of a run, and of a Send. *)
LEMMA RequestIInv ==
  ASSUME IInv,
         RunRequests \/ (\E c \in Calls, n \in Channels : ChannelRequests(c, n))
  PROVE  IInv'
<1>1. PICK u \in Users :
        /\ RoundTrip(u)
        /\ u = Run => Running # {}
        /\ u \in Channels => \E c \in Calls : send[c][u] = "sending"
  BY ShutdownAssumption DEF RunRequests, ChannelRequests, Users
<1>2. /\ UNCHANGED <<main, cron, at, refusing, closed, call, send>>
      /\ \E k \in {"mteam", "webhook", Idle} : using' = [using EXCEPT ![u] = k]
  BY <1>1, RoundTripTakes
<1>3. /\ using' \in [Users -> {"mteam", "webhook", Idle}]
      /\ \A v \in Users \ {u} : using'[v] = using[v]
  BY <1>2 DEF IInv, Shapes
<1>4. /\ MainStages' /\ ClosedLate' /\ Running' = Running
      /\ at' \in [L!Threads -> L!TryRunSteps \cup {"out", "delay"}]
  BY <1>2, AppStays
<1>5. Shapes'
  BY <1>2, <1>3, <1>4 DEF IInv, Shapes
<1>6. RunsNotify'
  BY <1>1, <1>2, <1>3, <1>4 DEF IInv, RunsNotify, RunFree, Users
<1>7. SendsOfCall' /\ \A c \in Calls : call'[c] # "refused"
  BY <1>2 DEF IInv, SendsOfCall
<1>8. RequestsOfSend'
  BY <1>1, <1>2, <1>3 DEF IInv, RequestsOfSend, Users
<1> QED BY <1>4, <1>5, <1>6, <1>7, <1>8 DEF IInv

(* A request ends. *)
LEMMA RespondsIInv ==
  ASSUME IInv, NEW u \in Users, Responds(u)
  PROVE  IInv'
<1>1. /\ UNCHANGED <<main, cron, at, refusing, closed, call, send>>
      /\ using' = [using EXCEPT ![u] = Idle]
  BY DEF Responds, T!Return, appVars, notifyVars
<1>2. /\ using' \in [Users -> {"mteam", "webhook", Idle}]
      /\ \A v \in Users : using'[v] = using[v] \/ using'[v] = Idle
  BY <1>1 DEF IInv, Shapes
<1>3. /\ MainStages' /\ ClosedLate' /\ Running' = Running
      /\ at' \in [L!Threads -> L!TryRunSteps \cup {"out", "delay"}]
  BY <1>1, AppStays
<1>4. Shapes'
  BY <1>1, <1>2, <1>3 DEF IInv, Shapes
<1>5. RunsNotify'
  BY <1>1, <1>2, <1>3 DEF IInv, RunsNotify, RunFree, Users
<1>6. SendsOfCall' /\ RequestsOfSend' /\ \A c \in Calls : call'[c] # "refused"
  BY <1>1, <1>2 DEF IInv, SendsOfCall, RequestsOfSend, Users
<1> QED BY <1>3, <1>4, <1>5, <1>6 DEF IInv

(* A run calls Notify: the manager takes the call. *)
LEMMA NotifyIInv ==
  ASSUME IInv, NEW c \in Calls, RunNotifies(c)
  PROVE  IInv'
<1>1. Running # {} /\ ~refusing
  BY RunFindsOpen DEF RunNotifies
<1>2. /\ UNCHANGED <<main, cron, at, refusing, closed, using, send>>
      /\ call[c] = "idle" /\ call' = [call EXCEPT ![c] = "sending"]
  BY <1>1 DEF RunNotifies, N!Notify, N!Accepts, appVars, transportVars
<1>3. /\ call' \in [Calls -> {"idle", "sending", "collect", "returned", "refused"}]
      /\ call'[c] = "sending" /\ \A d \in Calls \ {c} : call'[d] = call[d]
  BY <1>2 DEF IInv, Shapes
<1>4. /\ MainStages' /\ ClosedLate' /\ Running' = Running
      /\ at' \in [L!Threads -> L!TryRunSteps \cup {"out", "delay"}]
  BY <1>2, AppStays
<1>5. Shapes'
  BY <1>2, <1>3, <1>4 DEF IInv, Shapes
<1>6. RunsNotify'
  BY <1>1, <1>4 DEF RunsNotify
<1>7. SendsOfCall' /\ RequestsOfSend' /\ \A d \in Calls : call'[d] # "refused"
  BY <1>2, <1>3 DEF IInv, SendsOfCall, RequestsOfSend
<1> QED BY <1>4, <1>5, <1>6, <1>7 DEF IInv

(* Notify starts a goroutine for a channel, joins them, and returns.       *)
LEMMA CallIInv ==
  ASSUME IInv, NEW c \in Calls, NotifyGoesOn(c)
  PROVE  IInv'
<1>1. /\ UNCHANGED <<main, cron, at, closed, using>> /\ N!Caller(c)
  BY DEF NotifyGoesOn, appVars, transportVars
<1>2. UNCHANGED refusing
  BY <1>1 DEF N!Caller, N!Join, N!Collect, N!Spawn
<1>3. /\ MainStages' /\ ClosedLate' /\ Running' = Running
      /\ at' \in [L!Threads -> L!TryRunSteps \cup {"out", "delay"}]
  BY <1>1, <1>2, AppStays
<1>4. CASE N!Join(c) \/ N!Collect(c)
  <2>1. /\ UNCHANGED send
        /\ \/ /\ call[c] = "sending" /\ call' = [call EXCEPT ![c] = "collect"]
              /\ \A n \in Channels : send[c][n] = "done"
           \/ call[c] = "collect" /\ call' = [call EXCEPT ![c] = "returned"]
    BY <1>4 DEF N!Join, N!Collect
  <2>2. /\ call' \in [Calls -> {"idle", "sending", "collect", "returned", "refused"}]
        /\ call[c] \in {"sending", "collect"} /\ call'[c] \in {"collect", "returned"}
        /\ \A d \in Calls \ {c} : call'[d] = call[d]
    BY <2>1 DEF IInv, Shapes
  <2>3. Shapes'
    BY <1>1, <1>3, <2>1, <2>2 DEF IInv, Shapes
  <2>4. RunsNotify'
    BY <1>3, <2>2 DEF IInv, RunsNotify, RunFree
  <2>5. SendsOfCall'
    BY <2>1, <2>2 DEF IInv, SendsOfCall
  <2>6. RequestsOfSend' /\ \A d \in Calls : call'[d] # "refused"
    BY <1>1, <2>1, <2>2 DEF IInv, RequestsOfSend
  <2> QED BY <1>3, <2>3, <2>4, <2>5, <2>6 DEF IInv
<1>5. ASSUME NEW n \in Channels, N!Spawn(c, n) PROVE IInv'
  <2>1. /\ UNCHANGED call /\ call[c] = "sending" /\ send[c][n] = "none"
        /\ send' = [send EXCEPT ![c][n] = "sending"]
    BY <1>5 DEF N!Spawn
  <2>2. send' \in [Calls -> [Channels -> {"none", "sending", "report", "done"}]]
    BY <2>1 DEF IInv, Shapes
  <2>3. \A d \in Calls, m \in Channels :
          send'[d][m] = IF d = c /\ m = n THEN "sending" ELSE send[d][m]
    BY <2>1 DEF IInv, Shapes
  <2>4. Shapes'
    BY <1>1, <1>3, <2>1, <2>2 DEF IInv, Shapes
  <2>5. RunsNotify' /\ \A d \in Calls : call'[d] # "refused"
    BY <1>1, <1>3, <2>1 DEF IInv, RunsNotify, RunFree
  <2>6. SendsOfCall' /\ RequestsOfSend'
    BY <1>1, <2>1, <2>3 DEF IInv, SendsOfCall, RequestsOfSend
  <2> QED BY <1>3, <2>4, <2>5, <2>6 DEF IInv
<1> QED BY <1>1, <1>4, <1>5 DEF N!Caller

(* A Send ends only without a request on its way. *)
LEMMA SenderIInv ==
  ASSUME IInv, NEW c \in Calls, NEW n \in Channels, SendGoesOn(c, n)
  PROVE  IInv'
<1>1. UNCHANGED <<main, cron, at, closed, using>> /\ N!Sender(c, n) /\ using[n] = Idle
  BY DEF SendGoesOn, appVars, transportVars
<1>2. /\ UNCHANGED <<refusing, call>> /\ send[c][n] \in {"sending", "report"}
      /\ \E x \in {"report", "done"} : send' = [send EXCEPT ![c][n] = x]
  BY <1>1 DEF N!Sender, N!SendSucceeds, N!SendFails, N!ReportError
<1>3. /\ MainStages' /\ ClosedLate' /\ Running' = Running
      /\ at' \in [L!Threads -> L!TryRunSteps \cup {"out", "delay"}]
  BY <1>1, <1>2, AppStays
<1>4. PICK x \in {"report", "done"} : send' = [send EXCEPT ![c][n] = x]
  BY <1>2
<1>5. /\ send' \in [Calls -> [Channels -> {"none", "sending", "report", "done"}]]
      /\ \A d \in Calls, m \in Channels :
           send'[d][m] = IF d = c /\ m = n THEN x ELSE send[d][m]
  BY <1>4 DEF IInv, Shapes
<1>6. Shapes'
  BY <1>1, <1>2, <1>3, <1>5 DEF IInv, Shapes
<1>7. RunsNotify' /\ \A d \in Calls : call'[d] # "refused"
  BY <1>1, <1>2, <1>3 DEF IInv, RunsNotify, RunFree
<1>8. SendsOfCall'
  BY <1>2, <1>5 DEF IInv, SendsOfCall
<1>9. RequestsOfSend'
  <2> SUFFICES ASSUME NEW m \in Channels, using'[m] # Idle
               PROVE  \E d \in Calls : send'[d][m] = "sending"
    BY DEF RequestsOfSend
  <2>1. m # n /\ \E d \in Calls : send[d][m] = "sending"
    BY <1>1 DEF IInv, RequestsOfSend
  <2> QED BY <2>1, <1>5
<1> QED BY <1>3, <1>6, <1>7, <1>8, <1>9 DEF IInv

-----------------------------------------------------------------------------
(* A step of main that moves no thread into a run, and after which the     *)
(* facts about its stages hold, keeps the invariant.                       *)
LEMMA MainMoves ==
  ASSUME IInv, UNCHANGED <<call, send, using>>, Running' = Running,
         at' \in [L!Threads -> L!TryRunSteps \cup {"out", "delay"}],
         MainStages', ClosedLate'
  PROVE  IInv'
<1>1. Shapes'
  BY DEF IInv, Shapes
<1>2. RunsNotify' /\ SendsOfCall' /\ RequestsOfSend' /\ \A c \in Calls : call'[c] # "refused"
  BY DEF IInv, RunsNotify, RunFree, SendsOfCall, RequestsOfSend
<1> QED BY <1>1, <1>2 DEF IInv

(* App.New and execute. *)
LEMMA BeginIInv ==
  ASSUME IInv, L!Assemble \/ L!Execute, UNCHANGED <<notifyVars, transportVars>>
  PROVE  IInv'
<1>1. UNCHANGED <<call, send, using, refusing, closed>>
  BY DEF notifyVars, transportVars
<1>2. main \in L!NewSteps \cup {"execute", "wait"}
  BY DEF L!Assemble, L!LoadConfig, L!OpenStore, L!NewTransport, L!NewAuthClient, L!NewBrowseClient,
         L!NewScheduler, L!NewStep, L!Execute, L!RunOnce, L!StartScheduler, L!StartFails,
         L!WaitEnds, L!NewSteps
<1>3. main # "once" /\ main \notin Closed
  BY <1>2 DEF L!NewSteps, Closed
<1>4. ~refusing /\ ~closed /\ ClosedLate'
  BY <1>1, <1>3 DEF IInv, ClosedLate
<1>5. at[Main] = "out"
  BY <1>3 DEF IInv, MainStages
<1>6. CASE L!Assemble
  <2>1. UNCHANGED <<at, cron>> /\ main' \in L!NewSteps \cup {"execute", "exit"}
    BY <1>6 DEF L!Assemble, L!LoadConfig, L!OpenStore, L!NewTransport, L!NewAuthClient, L!NewBrowseClient,
                L!NewScheduler, L!NewStep, L!NewSteps, L!schedVars
  <2>2. ~cron /\ L!AllOut
    BY <1>6 DEF IInv, MainStages, L!Assemble, L!LoadConfig, L!OpenStore, L!NewTransport,
                L!NewAuthClient, L!NewBrowseClient, L!NewScheduler, L!NewStep, L!NewSteps
  <2>3. MainStages'
    BY <1>5, <2>1, <2>2 DEF MainStages, L!AllOut, Closed
  <2>4. Running' = Running /\ at' \in [L!Threads -> L!TryRunSteps \cup {"out", "delay"}]
    BY <2>1 DEF IInv, Shapes, Running
  <2> QED BY <1>1, <1>4, <2>3, <2>4, MainMoves
<1>7. CASE L!RunOnce
  <2>1. main' = "once" /\ at' = [at EXCEPT ![Main] = "checkStopped"] /\ UNCHANGED cron
    BY <1>7 DEF L!RunOnce, L!schedVars
  <2>2. at' \in [L!Threads -> L!TryRunSteps \cup {"out", "delay"}]
    BY <2>1 DEF IInv, Shapes, L!TryRunSteps
  <2>3. Running' = Running
    BY <1>5, <2>1 DEF IInv, Shapes, Running
  <2>4. MainStages'
    BY <2>1 DEF MainStages, L!NewSteps, Closed
  <2> QED BY <1>1, <1>4, <2>2, <2>3, <2>4, MainMoves
<1>8. CASE L!StartScheduler \/ L!StartFails \/ L!WaitEnds
  <2>1. UNCHANGED at /\ main' \in {"wait", "stopRuntime"}
    BY <1>8 DEF L!StartScheduler, L!StartFails, L!WaitEnds
  <2>2. MainStages'
    BY <1>5, <2>1 DEF MainStages, L!NewSteps, Closed
  <2>3. Running' = Running /\ at' \in [L!Threads -> L!TryRunSteps \cup {"out", "delay"}]
    BY <2>1 DEF IInv, Shapes, Running
  <2> QED BY <1>1, <1>4, <2>2, <2>3, MainMoves
<1> QED BY <1>6, <1>7, <1>8 DEF L!Execute

(* App.Close up to the resources: when AwaitJobs passes, every job has     *)
(* ended and cron starts none.                                             *)
LEMMA StopIInv ==
  ASSUME IInv, UNCHANGED <<notifyVars, transportVars>>,
         \/ L!StopRuntime \/ L!CancelRuns \/ L!AwaitRun \/ L!StopScheduler \/ L!AwaitJobs
         \/ L!CloseStore
  PROVE  IInv'
<1> USE DEF L!CloseOrder
<1>1. UNCHANGED <<call, send, using, refusing, closed>>
  BY DEF notifyVars, transportVars
<1>2. UNCHANGED at /\ main # "once"
  BY DEF L!StopRuntime, L!CancelRuns, L!AwaitRun, L!StopScheduler, L!AwaitJobs,
         L!CloseStore, L!CloseResource
<1>3. at[Main] = "out"
  BY <1>2 DEF IInv, MainStages
<1>4. Running' = Running /\ at' \in [L!Threads -> L!TryRunSteps \cup {"out", "delay"}]
  BY <1>2 DEF IInv, Shapes, Running
<1>5. CASE L!StopRuntime \/ L!CancelRuns \/ L!AwaitRun
  <2>1. main \notin Closed /\ main' \in {"cancelRuns", "awaitRun", "stopScheduler"}
    BY <1>5 DEF L!StopRuntime, L!CancelRuns, L!AwaitRun, Closed
  <2>2. ClosedLate' /\ MainStages'
    BY <1>1, <1>2, <1>3, <2>1 DEF IInv, ClosedLate, MainStages, L!NewSteps, Closed
  <2> QED BY <1>1, <1>4, <2>2, MainMoves
<1>6. CASE L!StopScheduler
  <2>1. main = "stopScheduler" /\ main' = "awaitJobs" /\ cron' = FALSE
    BY <1>6 DEF L!StopScheduler
  <2>2. ClosedLate' /\ MainStages'
    BY <1>1, <1>2, <1>3, <2>1 DEF IInv, ClosedLate, MainStages, L!NewSteps, Closed
  <2> QED BY <1>1, <1>4, <2>2, MainMoves
<1>7. CASE L!AwaitJobs
  <2>1. /\ main = "awaitJobs" /\ main' = "closeNotify" /\ UNCHANGED cron
        /\ \A j \in Jobs : at[j] = "out"
    BY <1>7 DEF L!AwaitJobs, L!schedVars
  <2>2. ~cron' /\ L!AllOut'
    BY <1>2, <1>3, <2>1 DEF IInv, MainStages, L!AllOut, L!Threads
  <2>3. ClosedLate' /\ MainStages'
    BY <1>2, <1>3, <2>1, <2>2 DEF ClosedLate, MainStages, Closed
  <2> QED BY <1>1, <1>4, <2>3, MainMoves
<1>8. CASE L!CloseStore
  <2>1. main = "closeStore" /\ main' = "exit" /\ UNCHANGED cron
    BY <1>8 DEF L!CloseStore, L!CloseResource, L!schedVars
  <2>2. ClosedLate' /\ MainStages'
    BY <1>2, <1>3, <2>1 DEF IInv, ClosedLate, MainStages, L!AllOut, Closed
  <2> QED BY <1>1, <1>4, <2>2, MainMoves
<1> QED BY <1>5, <1>6, <1>7, <1>8

(* Manager.Close and TLSClient.Close. *)
LEMMA CloseIInv ==
  ASSUME IInv, CloseManager \/ CloseTransport
  PROVE  IInv'
<1> USE DEF L!CloseOrder
<1>1. main \in {"closeNotify", "closeTransport"} /\ main' \in Closed
  BY DEF CloseManager, CloseTransport, appVars, L!CloseNotify, L!CloseTransport,
         L!CloseResource, Closed
<1>2. UNCHANGED <<at, cron>>
  BY DEF CloseManager, CloseTransport, appVars, L!CloseNotify, L!CloseTransport,
         L!CloseResource, L!schedVars
<1>3. UNCHANGED <<call, send, using>>
  BY DEF CloseManager, CloseTransport, N!Close, N!Drain, N!CloseReturn, T!Close, T!Drain,
         notifyVars, transportVars
<1>4. ~cron /\ L!AllOut /\ at[Main] = "out"
  BY <1>1 DEF IInv, MainStages, Closed
<1>5. ClosedLate' /\ MainStages'
  BY <1>1, <1>2, <1>4 DEF ClosedLate, MainStages, L!AllOut, Closed
<1>6. Running' = Running /\ at' \in [L!Threads -> L!TryRunSteps \cup {"out", "delay"}]
  BY <1>2 DEF IInv, Shapes, Running
<1> QED BY <1>3, <1>5, <1>6, MainMoves

(* Every step keeps the invariant. *)
LEMMA NextIInv == IInv /\ [Next]_vars => IInv'
<1> SUFFICES ASSUME IInv, [Next]_vars PROVE IInv'
  OBVIOUS
<1>1. CASE UNCHANGED vars
  <2>1. UNCHANGED <<main, cron, at, refusing, closed, call, send, using>>
    BY <1>1 DEF vars, appVars, notifyVars, transportVars
  <2> QED BY <2>1, AppStays, MainMoves
<1>2. CASE MainGoroutine
  BY <1>2, BeginIInv, StopIInv, CloseIInv DEF MainGoroutine, MainAlone
<1>3. CASE Next /\ ~MainGoroutine
  BY <1>1, <1>3, ThreadIInv, SignalsIInv, RequestIInv, RespondsIInv, NotifyIInv, CallIInv,
     SenderIInv DEF Next, Exited
<1> QED BY <1>1, <1>2, <1>3

(* At the start nothing runs and nothing is closed. *)
LEMMA InitIInv == Init => IInv
<1> SUFFICES ASSUME Init PROVE IInv
  OBVIOUS
<1> USE DEF Init, L!Init, N!Init, T!Init
<1>1. Shapes
  BY DEF Shapes
<1>2. MainStages
  BY DEF MainStages, L!AllOut, L!Threads
<1>3. ClosedLate /\ SendsOfCall /\ RequestsOfSend /\ \A c \in Calls : call[c] # "refused"
  BY DEF ClosedLate, SendsOfCall, RequestsOfSend, Users
<1>4. RunsNotify
  BY DEF RunsNotify, RunFree, Users
<1> QED BY <1>1, <1>2, <1>3, <1>4 DEF IInv

(* App.Close finds manager and transport idle, and refuses nobody.         *)
THEOREM NothingRefusedHolds == Spec => []NothingRefused
<1>1. IInv => NothingRefused
  <2> SUFFICES ASSUME IInv, refusing \/ closed
               PROVE  /\ \A c \in Calls : call[c] \in {"idle", "returned"}
                      /\ \A u \in Users : using[u] = Idle
                      /\ Running = {}
    BY DEF IInv, NothingRefused
  <2>1. Running = {}
    BY DEF IInv, ClosedLate, MainStages, L!AllOut, Running
  <2>2. RunFree
    BY <2>1 DEF IInv, RunsNotify
  <2>3. \A c \in Calls : call[c] \in {"idle", "returned"}
    BY <2>2 DEF IInv, Shapes, RunFree
  <2>4. \A n \in Channels : using[n] = Idle
    BY <2>3 DEF IInv, RequestsOfSend, SendsOfCall
  <2> QED BY <2>1, <2>2, <2>3, <2>4 DEF RunFree, Users
<1> QED BY <1>1, InitIInv, NextIInv, PTL DEF Spec

(* The safety part of ImplementsLifecycle: manager and transport, their    *)
(* Close included, take no step that Lifecycle does not know.              *)
THEOREM LifecycleRefined == Spec => L!Init /\ [][L!Next]_(L!vars)
<1>1. Init => L!Init
  BY DEF Init
<1>2. [Next]_vars => [L!Next]_(L!vars)
  <2> SUFFICES ASSUME Next \/ UNCHANGED vars PROVE L!Next \/ UNCHANGED L!vars
    OBVIOUS
  <2>1. CASE UNCHANGED appVars
    BY <2>1 DEF appVars, L!vars
  <2>2. CASE MainAlone
    BY <2>2 DEF MainAlone, L!Next, L!Close
  <2>3. CASE CloseManager \/ CloseTransport
    BY <2>1, <2>3 DEF CloseManager, CloseTransport, L!Next, L!Close
  <2>4. CASE Signals \/ \E t \in L!Threads : Thread(t)
    BY <2>4 DEF Signals, Thread, L!Next
  <2> QED BY <2>1, <2>2, <2>3, <2>4
          DEF Next, MainGoroutine, RunRequests, RoundTrip, RunNotifies, NotifyGoesOn, ChannelRequests,
              SendGoesOn, Responds, Exited, vars
<1> QED BY <1>1, <1>2, PTL DEF Spec

(* Seen from the notification manager, the process is one of its clients:  *)
(* runs, channels and App.Close call it as NotifyManager lets them, so     *)
(* that what holds for every behaviour of that module holds here.          *)
THEOREM ManagerUsedAsPromised == Spec => N!Init /\ [][N!Next]_(N!vars)
<1>1. Init => N!Init
  BY DEF Init
<1>2. [Next]_vars => [N!Next]_(N!vars)
  <2> SUFFICES ASSUME Next \/ UNCHANGED vars PROVE N!Next \/ UNCHANGED N!vars
    OBVIOUS
  <2>1. CASE UNCHANGED notifyVars
    BY <2>1 DEF notifyVars, N!vars
  <2>2. CASE CloseManager
    BY <2>2 DEF CloseManager, N!Next, N!Closing
  <2>3. ASSUME NEW c \in Calls,
               \/ RunNotifies(c) \/ NotifyGoesOn(c)
               \/ \E n \in Channels : SendGoesOn(c, n)
        PROVE  N!Next
    BY <2>3 DEF RunNotifies, NotifyGoesOn, SendGoesOn, N!Next
  <2> QED BY <2>1, <2>2, <2>3
          DEF Next, MainGoroutine, MainAlone, CloseTransport, Signals, Thread, RunRequests,
              RoundTrip, ChannelRequests, Responds, Exited, vars
<1> QED BY <1>1, <1>2, PTL DEF Spec

(* And so is it seen from the transport.                                   *)
THEOREM TransportUsedAsPromised == Spec => T!Init /\ [][T!Next]_(T!vars)
<1>1. Init => T!Init
  BY DEF Init
<1>2. [Next]_vars => [T!Next]_(T!vars)
  <2> SUFFICES ASSUME Next \/ UNCHANGED vars PROVE T!Next \/ UNCHANGED T!vars
    OBVIOUS
  <2>1. CASE UNCHANGED transportVars
    BY <2>1 DEF transportVars, T!vars
  <2>2. CASE CloseTransport
    BY <2>2 DEF CloseTransport, T!Next
  <2>3. ASSUME NEW u \in Users, RoundTrip(u) PROVE T!Next
    <3>1. KeyOf(u) \in DOMAIN ScopeOf
      BY DEF KeyOf, ScopeOf
    <3> QED BY <2>3, <3>1 DEF RoundTrip, T!Next
  <2>4. ASSUME NEW u \in Users, Responds(u) PROVE T!Next
    BY <2>4 DEF Responds, T!Next
  <2> QED BY <2>1, <2>2, <2>3, <2>4
          DEF Next, MainGoroutine, MainAlone, CloseManager, Signals, Thread, RunRequests,
              RunNotifies, NotifyGoesOn, ChannelRequests, SendGoesOn, Exited, vars, Users
<1> QED BY <1>1, <1>2, PTL DEF Spec
=============================================================================
