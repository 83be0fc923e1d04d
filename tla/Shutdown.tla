------------------------------ MODULE Shutdown ------------------------------
(***************************************************************************)
(* A process with the parts it shuts down: Lifecycle, where a run is one   *)
(* state and a resource closes in one step, together with the notification *)
(* manager and the transport that runs use and App.Close closes.           *)
(*                                                                         *)
(* The goroutine of a run sends M-Team requests and calls Notify, one      *)
(* after the other; the goroutines of the channels send requests of their  *)
(* own through the same transport.  The steps of the parts are those of    *)
(* their modules; this module says who takes them and when.                *)
(***************************************************************************)
EXTENDS Naturals, FiniteSets

CONSTANTS Jobs, Main, NoOne,  \* as in Lifecycle
          Calls,              \* calls of Notify in the life of the process
          Channels,           \* the channels that send requests
          Run,                \* the goroutine of the run, as a user of the transport
          MaxRequests         \* requests of a run, and of one Send

ASSUME ShutdownAssumption == Main \notin Jobs /\ Run \notin Channels

VARIABLES main, localRun, code, failed, open, signalled, stopped, rtCancelled, runMu,
          schedDone, cron, at
VARIABLES refusing, wg, call, send, errCh, sendFailed, result, closer, closedSet
VARIABLES closed, done, clients, jars, made, inflight, using, closing
VARIABLES budget  \* the requests that the run and each Send may still send

appVars == <<main, localRun, code, failed, open, signalled, stopped, rtCancelled, runMu,
             schedDone, cron, at>>
notifyVars == <<refusing, wg, call, send, errCh, sendFailed, result, closer, closedSet>>
transportVars == <<closed, done, clients, jars, made, inflight, using, closing>>
vars == <<appVars, notifyVars, transportVars, budget>>

Users == Channels \cup {Run}
Closer == "App.Close"
Idle == "idle"

(* The run's client has the cookie scope of M-Team, a channel's has none. *)
ScopeOf == [k \in {"mteam", "webhook"} |-> IF k = "mteam" THEN "mteam" ELSE "none"]

KeyOf(u) == IF u = Run THEN "mteam" ELSE "webhook"

L == INSTANCE Lifecycle

(* None of the channels implements io.Closer. *)
N == INSTANCE NotifyManager WITH closing <- refusing, failed <- sendFailed, Closable <- {}

T == INSTANCE TLSClient WITH Callers <- Users, Closers <- {Closer},
                             Keys <- DOMAIN ScopeOf, Scope <- ScopeOf, NoScope <- "none"

FullBudget == [u \in Users |-> MaxRequests]

Init == L!Init /\ N!Init /\ T!Init /\ budget = FullBudget

-----------------------------------------------------------------------------
Running == {t \in L!Threads : at[t] = "running"}

(* The goroutine of the run is neither in Notify nor in RoundTrip. *)
RunFree == /\ using[Run] = Idle
           /\ \A c \in Calls : call[c] \notin {"sending", "collect"}

(* The process: a run returns from its last call before it returns, and    *)
(* starts with all of its requests to send.                                *)
Thread(t) == /\ at[t] = "running" => RunFree
             /\ L!Thread(t)
             /\ budget' = IF at'[t] = "running" THEN [budget EXCEPT ![Run] = MaxRequests]
                          ELSE budget
             /\ UNCHANGED <<notifyVars, transportVars>>

Signals == /\ L!Signal \/ \E j \in Jobs : L!Tick(j)
           /\ UNCHANGED <<notifyVars, transportVars, budget>>

RoundTrip(u) == /\ budget[u] > 0
                /\ T!Reuse(u, KeyOf(u)) \/ T!Create(u, KeyOf(u))
                /\ budget' = [budget EXCEPT ![u] = @ - 1]
                /\ UNCHANGED <<appVars, notifyVars>>

RunRequests == Running # {} /\ RunFree /\ RoundTrip(Run)

RunNotifies(c) == /\ Running # {}
                  /\ RunFree
                  /\ N!Notify(c)
                  /\ UNCHANGED <<appVars, transportVars, budget>>

NotifyGoesOn(c) == /\ N!Caller(c)
                   /\ budget' = [u \in Users |-> IF u \in Channels /\ send'[c][u] # send[c][u]
                                                   THEN MaxRequests ELSE budget[u]]
                   /\ UNCHANGED <<appVars, transportVars>>

(* A Send: its requests, and its end. *)
ChannelRequests(c, n) == send[c][n] = "sending" /\ using[n] = Idle /\ RoundTrip(n)

SendGoesOn(c, n) == /\ using[n] = Idle
                    /\ N!Sender(c, n)
                    /\ UNCHANGED <<appVars, transportVars, budget>>

Responds(u) == T!Return(u) /\ UNCHANGED <<appVars, notifyVars, budget>>

-----------------------------------------------------------------------------
(* The main goroutine: App.New and execute, Runtime.Stop and               *)
(* Scheduler.Stop, then Manager.Close, TLSClient.Close and the store.      *)
MainAlone == /\ \/ L!Assemble \/ L!Execute \/ L!StopRuntime \/ L!CancelRuns \/ L!AwaitRun
                \/ L!StopScheduler \/ L!AwaitJobs \/ L!CloseStore
             /\ UNCHANGED <<notifyVars, transportVars, budget>>

CloseManager == /\ main = "closeNotify"
                /\ \/ N!Close /\ UNCHANGED appVars
                   \/ N!Drain /\ UNCHANGED appVars
                   \/ N!CloseReturn /\ L!CloseNotify
                /\ UNCHANGED <<transportVars, budget>>

CloseTransport == /\ main = "closeTransport"
                  /\ \/ T!Close(Closer) /\ UNCHANGED appVars
                     \/ T!Drain(Closer) /\ L!CloseTransport
                  /\ UNCHANGED <<notifyVars, budget>>

MainGoroutine == MainAlone \/ CloseManager \/ CloseTransport

Exited == main = "exit" /\ UNCHANGED vars

Next == \/ MainGoroutine \/ Signals \/ RunRequests \/ Exited
        \/ \E t \in L!Threads : Thread(t)
        \/ \E c \in Calls : \/ RunNotifies(c) \/ NotifyGoesOn(c)
                            \/ \E n \in Channels : ChannelRequests(c, n) \/ SendGoesOn(c, n)
        \/ \E u \in Users : Responds(u)

(* Every goroutine goes on, and a request ends by its time-out. *)
Fairness == /\ WF_vars(MainGoroutine)
            /\ \A t \in L!Threads : WF_vars(Thread(t))
            /\ \A c \in Calls : WF_vars(NotifyGoesOn(c))
            /\ \A c \in Calls, n \in Channels : WF_vars(SendGoesOn(c, n))
            /\ \A u \in Users : WF_vars(Responds(u))

Spec == Init /\ [][Next]_vars /\ Fairness

-----------------------------------------------------------------------------
(* App.Close finds manager and transport idle: no call of Notify was       *)
(* refused and no request is under way when they close, whoever sent it,   *)
(* so neither a run nor a channel ever meets a part that has been closed.  *)
NothingRefused ==
  /\ \A c \in Calls : call[c] # "refused"
  /\ refusing \/ closed => /\ \A c \in Calls : call[c] \in {"idle", "returned"}
                           /\ \A u \in Users : using[u] = Idle
                           /\ Running = {}

(* With manager and transport as they are, the process is the one that     *)
(* Lifecycle describes, its fairness included: a run ends and a resource   *)
(* closes, because every Notify, every Send and every request does.        *)
ImplementsLifecycle == L!Spec

-----------------------------------------------------------------------------
(* What makes NothingRefused inductive: the goroutines of runs and jobs    *)
(* are gone when main comes to the resources, on every path; *)
Shapes == /\ at \in [L!Threads -> L!TryRunSteps \cup {"out", "delay"}]
          /\ call \in [Calls -> {"idle", "sending", "collect", "returned", "refused"}]
          /\ send \in [Calls -> [Channels -> {"none", "sending", "report", "done"}]]
          /\ using \in [Users -> {"mteam", "webhook", Idle}]

Closed == {"closeNotify", "closeTransport", "closeStore", "exit"}

MainStages == /\ at[Main] # "out" => main = "once"
              /\ main \in L!NewSteps \cup {"execute"} \cup Closed => ~cron /\ L!AllOut
              /\ main = "awaitJobs" => ~cron

ClosedLate == refusing \/ closed => main \in Closed

(* and whoever notifies or has a request on its way belongs to a run that  *)
(* has not returned.                                                       *)
RunsNotify == Running = {} => RunFree

SendsOfCall ==
  \A c \in Calls, n \in Channels : send[c][n] \in {"sending", "report"} => call[c] = "sending"

RequestsOfSend ==
  \A n \in Channels : using[n] # Idle => \E c \in Calls : send[c][n] = "sending"

IInv == /\ Shapes
        /\ MainStages
        /\ ClosedLate
        /\ RunsNotify
        /\ SendsOfCall
        /\ RequestsOfSend
        /\ \A c \in Calls : call[c] # "refused"
=============================================================================
