--------------------------- MODULE NotifyManager ---------------------------
(***************************************************************************)
(* Manager.Notify and Manager.Close, pkg/apikit/apinotify/manager.go.  A   *)
(* call of Notify starts one goroutine per channel, waits for all of them  *)
(* and collects their errors from a buffered Go channel; Close refuses new *)
(* calls, waits for the ones in progress and closes the notifiers that can *)
(* be closed.                                                              *)
(*                                                                         *)
(* The parts under Manager.mu are single steps.  What a notifier sends is  *)
(* left out: a Send returns nil or an error, or panics.                    *)
(***************************************************************************)
EXTENDS Integers, FiniteSets

CONSTANTS Calls,     \* calls of Notify
          Channels,  \* the notifiers that are enabled, the base one included
          Closable   \* the notifiers that implement io.Closer

ASSUME NotifyAssumption == /\ Closable \subseteq Channels
                           /\ IsFiniteSet(Calls)
                           /\ IsFiniteSet(Channels)

VARIABLES closing,   \* Manager.closing
          wg,        \* Manager.wg
          call,      \* where each call is
          send,      \* send[c][n]: the goroutine of call c for notifier n
          errCh,     \* the errors in the buffer of each call
          failed,    \* history: the notifiers whose Send failed or panicked
          result,    \* the errors each call has returned
          closer,    \* where Close is
          closedSet  \* the notifiers Close has closed

vars == <<closing, wg, call, send, errCh, failed, result, closer, closedSet>>

TypeOK == /\ closing \in BOOLEAN
          /\ wg \in Nat
          /\ call \in [Calls -> {"idle", "sending", "collect", "returned", "refused"}]
          /\ send \in [Calls -> [Channels -> {"none", "sending", "report", "done"}]]
          /\ errCh \in [Calls -> SUBSET Channels]
          /\ failed \in [Calls -> SUBSET Channels]
          /\ result \in [Calls -> SUBSET Channels]
          /\ closer \in {"idle", "drain", "close", "returned"}
          /\ closedSet \subseteq Closable

Init == /\ closing = FALSE
        /\ wg = 0
        /\ call = [c \in Calls |-> "idle"]
        /\ send = [c \in Calls |-> [n \in Channels |-> "none"]]
        /\ errCh = [c \in Calls |-> {}]
        /\ failed = [c \in Calls |-> {}]
        /\ result = [c \in Calls |-> {}]
        /\ closer = "idle"
        /\ closedSet = {}

-----------------------------------------------------------------------------
(* The check of the flag, under the lock. *)
AcceptsAlways == TRUE

Accepts == ~closing

Notify(c) ==
  /\ call[c] = "idle"
  /\ IF Accepts
       THEN call' = [call EXCEPT ![c] = "sending"] /\ wg' = wg + 1
       ELSE call' = [call EXCEPT ![c] = "refused"] /\ UNCHANGED wg
  /\ UNCHANGED <<closing, send, errCh, failed, result, closer, closedSet>>

(* The loop starts a goroutine for the next notifier. *)
Spawn(c, n) ==
  /\ call[c] = "sending"
  /\ send[c][n] = "none"
  /\ send' = [send EXCEPT ![c][n] = "sending"]
  /\ UNCHANGED <<closing, wg, call, errCh, failed, result, closer, closedSet>>

SendSucceeds(c, n) ==
  /\ send[c][n] = "sending"
  /\ send' = [send EXCEPT ![c][n] = "done"]
  /\ UNCHANGED <<closing, wg, call, errCh, failed, result, closer, closedSet>>

(* An error, or a panic that the deferred function recovers. *)
SendFailsSilently(c, n) ==
  /\ send[c][n] = "sending"
  /\ failed' = [failed EXCEPT ![c] = @ \cup {n}]
  /\ send' = [send EXCEPT ![c][n] = "done"]
  /\ UNCHANGED <<closing, wg, call, errCh, result, closer, closedSet>>

SendFails(c, n) ==
  /\ send[c][n] = "sending"
  /\ failed' = [failed EXCEPT ![c] = @ \cup {n}]
  /\ send' = [send EXCEPT ![c][n] = "report"]
  /\ UNCHANGED <<closing, wg, call, errCh, result, closer, closedSet>>

(* The size of the buffer of errCh. *)
OneError == 1

Capacity == Cardinality(Channels)

(* errCh <- SendError, which blocks while the buffer is full; wg.Done. *)
ReportError(c, n) ==
  /\ send[c][n] = "report"
  /\ Cardinality(errCh[c]) < Capacity
  /\ errCh' = [errCh EXCEPT ![c] = @ \cup {n}]
  /\ send' = [send EXCEPT ![c][n] = "done"]
  /\ UNCHANGED <<closing, wg, call, failed, result, closer, closedSet>>

(* wg.Wait and close(errCh). *)
Join(c) ==
  /\ call[c] = "sending"
  /\ \A n \in Channels : send[c][n] = "done"
  /\ call' = [call EXCEPT ![c] = "collect"]
  /\ UNCHANGED <<closing, wg, send, errCh, failed, result, closer, closedSet>>

(* The errors are joined, and the deferred Done tells Close. *)
Collect(c) ==
  /\ call[c] = "collect"
  /\ result' = [result EXCEPT ![c] = errCh[c]]
  /\ call' = [call EXCEPT ![c] = "returned"]
  /\ wg' = wg - 1
  /\ UNCHANGED <<closing, send, errCh, failed, closer, closedSet>>

-----------------------------------------------------------------------------
Close == /\ closer = "idle"
         /\ closing' = TRUE
         /\ closer' = "drain"
         /\ UNCHANGED <<wg, call, send, errCh, failed, result, closedSet>>

Drain == /\ closer = "drain"
         /\ wg = 0
         /\ closer' = "close"
         /\ UNCHANGED <<closing, wg, call, send, errCh, failed, result, closedSet>>

(* A notifier that fails to close does not keep the others open; the       *)
(* joined error is returned after the last one.                            *)
CloseNotifier(n) == /\ closer = "close"
                    /\ n \in Closable \ closedSet
                    /\ closedSet' = closedSet \cup {n}
                    /\ UNCHANGED <<closing, wg, call, send, errCh, failed, result, closer>>

CloseReturn == /\ closer = "close"
               /\ closedSet = Closable
               /\ closer' = "returned"
               /\ UNCHANGED <<closing, wg, call, send, errCh, failed, result, closedSet>>

Sender(c, n) == SendSucceeds(c, n) \/ SendFails(c, n) \/ ReportError(c, n)

Caller(c) == Join(c) \/ Collect(c) \/ \E n \in Channels : Spawn(c, n)

Closing == Drain \/ CloseReturn \/ \E n \in Channels : CloseNotifier(n)

AllOver == /\ closer = "returned"
           /\ \A c \in Calls : call[c] \in {"returned", "refused"}
           /\ UNCHANGED vars

Next == \/ \E c \in Calls : Notify(c) \/ Caller(c) \/ \E n \in Channels : Sender(c, n)
        \/ Close \/ Closing
        \/ AllOver

(* Every send ends, because its context has a time-out; Notify and Close   *)
(* go on once they were called.                                            *)
Fairness == /\ \A c \in Calls : WF_vars(Caller(c))
            /\ \A c \in Calls, n \in Channels : WF_vars(Sender(c, n))
            /\ WF_vars(Closing)

Spec == Init /\ [][Next]_vars /\ Fairness

-----------------------------------------------------------------------------
(* What Notify returns is the set of notifiers that failed or panicked,    *)
(* each of them and no other: one channel's failure neither hides nor      *)
(* stops another.  And every goroutine has ended when errCh is closed: a   *)
(* later send on it would panic outside of the recover.                    *)
FailuresReported ==
  \A c \in Calls :
    /\ call[c] \in {"collect", "returned"} => \A n \in Channels : send[c][n] = "done"
    /\ call[c] = "returned" => result[c] = failed[c]

(* No notifier is closed while a message is on its way through it, and     *)
(* none is used afterwards.                                                *)
NoSendAfterClose ==
  closer \in {"close", "returned"}
    => \A c \in Calls, n \in Channels : send[c][n] \in {"none", "done"}

(* Every Notify returns, and Close does after the last one: no goroutine   *)
(* with an error blocks on errCh, although nobody receives from it before  *)
(* all of them have ended.                                                 *)
EverybodyReturns == /\ \A c \in Calls : call[c] = "sending" ~> call[c] = "returned"
                    /\ closer = "drain" ~> closer = "returned"

(* The buffer of errCh has room whenever a goroutine has an error for it:  *)
(* nobody receives from it before all goroutines have ended.               *)
NobodyBlocks ==
  \A c \in Calls, n \in Channels : send[c][n] = "report" => Cardinality(errCh[c]) < Capacity

-----------------------------------------------------------------------------
(* What makes them inductive: Manager.wg counts the calls that were let    *)
(* in; *)
Active == {c \in Calls : call[c] \in {"sending", "collect"}}

CountsCalls == wg = Cardinality(Active)

(* a call has goroutines only between its start and wg.Wait; *)
SendsOfCall ==
  \A c \in Calls, n \in Channels :
    /\ call[c] \in {"idle", "refused"} => send[c][n] = "none"
    /\ call[c] \in {"collect", "returned"} => send[c][n] = "done"

(* the buffer holds the errors of the goroutines that have ended; *)
ErrorsKept ==
  \A c \in Calls :
    /\ errCh[c] = {n \in failed[c] : send[c][n] = "done"}
    /\ \A n \in Channels : /\ send[c][n] \in {"none", "sending"} => n \notin failed[c]
                           /\ send[c][n] = "report" => n \in failed[c]
    /\ call[c] = "returned" => result[c] = failed[c]

(* and Close closes nothing before the last call has returned. *)
CloseOrder == /\ closer # "idle" => closing
              /\ closer \in {"close", "returned"} => Active = {}

ManagerInv == TypeOK /\ CountsCalls /\ SendsOfCall /\ ErrorsKept /\ CloseOrder
=============================================================================
