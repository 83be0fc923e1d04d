------------------------------ MODULE Delivery ------------------------------
(***************************************************************************)
(* Manager.Notify and Close together with the Send of a channel: one       *)
(* message is followed through one channel of any kind, request by request *)
(* as in module Channels, while the other sends are the single steps of    *)
(* NotifyManager.                                                          *)
(***************************************************************************)
EXTENDS NotifyManager

CONSTANTS Message,  \* the call of Notify whose message is followed
          Channel   \* and the channel it is followed through

ASSUME DeliveryAssumption == Message \in Calls /\ Channel \in Channels

VARIABLES kind, pc, over, posts, taken, answer, returned

sendVars == <<kind, pc, over, posts, taken, answer, returned>>
managerVars == vars
deliveryVars == <<managerVars, sendVars>>

C == INSTANCE Channels WITH result <- returned

DeliveryInit == Init /\ C!Init

-----------------------------------------------------------------------------
InSend == send[Message][Channel] = "sending"

(* The steps inside of Send. *)
Inside(A) == InSend /\ A /\ UNCHANGED managerVars

(* Send returns to the goroutine of Notify, or panics somewhere. *)
SendEnds == /\ \/ returned = "nil" /\ SendSucceeds(Message, Channel)
               \/ returned = "error" /\ SendFails(Message, Channel)
               \/ ReportError(Message, Channel)
            /\ UNCHANGED sendVars

Panics == pc # "returned" /\ SendFails(Message, Channel) /\ UNCHANGED sendVars

(* The steps of all others. *)
OtherSends(c, n) == <<c, n>> # <<Message, Channel>> /\ Sender(c, n) /\ UNCHANGED sendVars

Notifies(c) == Notify(c) /\ UNCHANGED sendVars
GoesOn(c) == Caller(c) /\ UNCHANGED sendVars
Closes == Close /\ UNCHANGED sendVars
ClosesOn == Closing /\ UNCHANGED sendVars

DeliveryNext ==
  \/ Inside(C!Local) \/ Inside(C!World) \/ Inside(C!Abandon) \/ Inside(C!ContextEnds)
  \/ SendEnds \/ Panics
  \/ \E c \in Calls : Notifies(c) \/ GoesOn(c) \/ \E n \in Channels : OtherSends(c, n)
  \/ Closes \/ ClosesOn
  \/ AllOver /\ UNCHANGED sendVars

(* The goroutine of the send goes on, the timer of its context fires, and  *)
(* the transport gives up a request whose context has ended.  Nothing is   *)
(* asked of the service.                                                   *)
DeliveryFairness ==
  /\ WF_deliveryVars(Inside(C!Local))
  /\ WF_deliveryVars(Inside(C!ContextEnds))
  /\ WF_deliveryVars(Inside(C!Abandon))
  /\ WF_deliveryVars(SendEnds)
  /\ \A c \in Calls : WF_deliveryVars(GoesOn(c))
  /\ \A c \in Calls, n \in Channels : WF_deliveryVars(OtherSends(c, n))
  /\ WF_deliveryVars(ClosesOn)

DeliverySpec == DeliveryInit /\ [][DeliveryNext]_deliveryVars /\ DeliveryFairness

-----------------------------------------------------------------------------
(* A message is posted at most once, and when Notify has returned without  *)
(* naming the channel the service has taken it, or the message was posted  *)
(* and answered with status 200 and a body that hides the loss: any but an *)
(* acknowledgement at QQPush, Telegram and ntfy, JSON without a code at    *)
(* Weixin, that or nothing at DingTalk and Feishu.  All else is reported:  *)
(* an error code or a page at the latter three, any other status, a token  *)
(* that was refused, a broken connection, silence until the time-out, and  *)
(* a panic.                                                                *)
LossReported ==
  /\ posts <= 1
  /\ call[Message] = "returned" /\ Channel \notin result[Message]
       => taken \/ (posts = 1 /\ answer \in C!Hiding)

(* With its Send in detail the manager is the one of NotifyManager, which  *)
(* takes it for granted that every Send returns: neither the request for a *)
(* token nor the one with the message outlives the context, however silent *)
(* the service.                                                            *)
ImplementsManager == Spec

-----------------------------------------------------------------------------
(* The goroutine that ends without an error has had a nil from Send. *)
SendFollowed ==
  send[Message][Channel] \in {"report", "done"} /\ Channel \notin failed[Message]
    => returned = "nil"

DeliveryInv == ManagerInv /\ C!SendInv /\ SendFollowed
=============================================================================
