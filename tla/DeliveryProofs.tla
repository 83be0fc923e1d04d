--------------------------- MODULE DeliveryProofs ---------------------------
(***************************************************************************)
(* Notify and Close for any number of calls and channels, and one message  *)
(* through a channel of any kind: every failure is reported, no error      *)
(* blocks its goroutine, nothing is sent through a closed notifier, and a  *)
(* message that is not reported was taken.  The detailed manager takes the *)
(* steps of the abstract one.                                              *)
(***************************************************************************)
EXTENDS Delivery, FiniteSetTheorems, TLAPS

(* The calls in progress are finitely many. *)
LEMMA ActiveFinite == IsFiniteSet(Active)
BY NotifyAssumption, FS_Subset DEF Active

(* A call that is let in is one more in progress. *)
LEMMA EntersCounted ==
  ASSUME CountsCalls, NEW c, c \notin Active, Active' = Active \cup {c}, wg' = wg + 1
  PROVE  CountsCalls' /\ wg' \in Nat
<1>1. Cardinality(Active \cup {c}) = Cardinality(Active) + 1 /\ Cardinality(Active) \in Nat
  BY ActiveFinite, FS_AddElement, FS_CardinalityType
<1> QED BY <1>1 DEF CountsCalls

(* A call that returns is one less. *)
LEMMA LeavesCounted ==
  ASSUME CountsCalls, NEW c, c \in Active, Active' = Active \ {c}, wg' = wg - 1
  PROVE  CountsCalls' /\ wg' \in Nat
<1>1. /\ Cardinality(Active \ {c}) = Cardinality(Active) - 1
      /\ Cardinality(Active \ {c}) \in Nat
  BY ActiveFinite, FS_RemoveElement, FS_CardinalityType
<1> QED BY <1>1 DEF CountsCalls

(* A step of one goroutine of a call in progress. *)
LEMMA SenderInv ==
  ASSUME ManagerInv, NEW c \in Calls, NEW n \in Channels, Sender(c, n)
  PROVE  ManagerInv'
<1> USE DEF ManagerInv
<1>1. /\ send[c][n] \in {"sending", "report"} /\ call[c] = "sending"
      /\ UNCHANGED <<closing, wg, call, result, closer, closedSet>>
  <2>1. send[c][n] \in {"sending", "report"}
        /\ UNCHANGED <<closing, wg, call, result, closer, closedSet>>
    BY DEF Sender, SendSucceeds, SendFails, ReportError
  <2>2. call[c] = "sending"
    BY <2>1 DEF SendsOfCall, TypeOK
  <2> QED BY <2>1, <2>2
<1>2. \E s \in {"report", "done"} : send' = [send EXCEPT ![c][n] = s]
  BY DEF Sender, SendSucceeds, SendFails, ReportError
<1>3. send' \in [Calls -> [Channels -> {"none", "sending", "report", "done"}]]
  BY <1>2 DEF TypeOK
<1>4. /\ send'[c][n] \in {"report", "done"}
      /\ \A d \in Calls, m \in Channels : <<d, m>> # <<c, n>> => send'[d][m] = send[d][m]
  BY <1>2 DEF TypeOK
<1>5. errCh' \in [Calls -> SUBSET Channels] /\ failed' \in [Calls -> SUBSET Channels]
  BY DEF TypeOK, Sender, SendSucceeds, SendFails, ReportError
<1>6. TypeOK' /\ CountsCalls' /\ CloseOrder'
  BY <1>1, <1>3, <1>5 DEF TypeOK, CountsCalls, CloseOrder, Active
<1>7. SendsOfCall'
  BY <1>1, <1>4 DEF SendsOfCall
<1>8. ErrorsKept'
  <2>1. ASSUME NEW d \in Calls, d # c
        PROVE  /\ errCh'[d] = errCh[d] /\ failed'[d] = failed[d]
               /\ \A m \in Channels : send'[d][m] = send[d][m]
    BY <1>4, <2>1 DEF TypeOK, Sender, SendSucceeds, SendFails, ReportError
  <2>2. ASSUME NEW d \in Calls, d # c
        PROVE  /\ errCh'[d] = {m \in failed'[d] : send'[d][m] = "done"}
               /\ \A m \in Channels : /\ send'[d][m] \in {"none", "sending"} => m \notin failed'[d]
                                      /\ send'[d][m] = "report" => m \in failed'[d]
               /\ call'[d] = "returned" => result'[d] = failed'[d]
    BY <1>1, <2>1, <2>2 DEF ErrorsKept, TypeOK
  <2>3. /\ errCh[c] = {m \in failed[c] : send[c][m] = "done"} /\ failed[c] \subseteq Channels
        /\ \A m \in Channels : /\ send[c][m] \in {"none", "sending"} => m \notin failed[c]
                               /\ send[c][m] = "report" => m \in failed[c]
    BY DEF ErrorsKept, TypeOK
  <2>4. /\ errCh'[c] = {m \in failed'[c] : send'[c][m] = "done"}
        /\ \A m \in Channels : /\ send'[c][m] \in {"none", "sending"} => m \notin failed'[c]
                               /\ send'[c][m] = "report" => m \in failed'[c]
    <3>1. CASE SendSucceeds(c, n)
      <4>1. /\ send[c][n] = "sending" /\ send'[c][n] = "done"
            /\ errCh'[c] = errCh[c] /\ failed'[c] = failed[c]
        BY <3>1 DEF SendSucceeds, TypeOK
      <4> QED BY <1>4, <2>3, <4>1
    <3>2. CASE SendFails(c, n)
      <4>1. /\ send[c][n] = "sending" /\ send'[c][n] = "report"
            /\ errCh'[c] = errCh[c] /\ failed'[c] = failed[c] \cup {n}
        BY <3>2 DEF SendFails, TypeOK
      <4> QED BY <1>4, <2>3, <4>1
    <3>3. CASE ReportError(c, n)
      <4>1. /\ send[c][n] = "report" /\ send'[c][n] = "done"
            /\ errCh'[c] = errCh[c] \cup {n} /\ failed'[c] = failed[c]
        BY <3>3 DEF ReportError, TypeOK
      <4> QED BY <1>4, <2>3, <4>1
    <3> QED BY <3>1, <3>2, <3>3 DEF Sender
  <2>5. call'[c] # "returned"
    BY <1>1
  <2> QED BY <2>2, <2>4, <2>5 DEF ErrorsKept
<1> QED BY <1>6, <1>7, <1>8

(* The steps of Notify itself: it starts, spawns, joins and collects.      *)
LEMMA CallerInv ==
  ASSUME ManagerInv, NEW c \in Calls, Notify(c) \/ Caller(c)
  PROVE  ManagerInv'
<1> USE DEF ManagerInv
<1>1. CASE Notify(c) /\ Accepts
  <2>1. /\ call[c] = "idle" /\ call' = [call EXCEPT ![c] = "sending"] /\ wg' = wg + 1
        /\ ~closing /\ UNCHANGED <<closing, send, errCh, failed, result, closer, closedSet>>
    BY <1>1 DEF Notify, Accepts
  <2>2. c \notin Active /\ Active' = Active \cup {c}
    BY <2>1 DEF Active, TypeOK
  <2>3. CountsCalls' /\ wg' \in Nat
    BY <2>1, <2>2, EntersCounted
  <2>4. TypeOK'
    BY <2>1, <2>3 DEF TypeOK
  <2>5. SendsOfCall'
    BY <2>1 DEF SendsOfCall, TypeOK
  <2>6. ErrorsKept'
    BY <2>1 DEF ErrorsKept, TypeOK
  <2>7. CloseOrder'
    BY <2>1 DEF CloseOrder, TypeOK
  <2> QED BY <2>3, <2>4, <2>5, <2>6, <2>7
<1>2. CASE Notify(c) /\ ~Accepts
  <2>1. /\ call[c] = "idle" /\ call' = [call EXCEPT ![c] = "refused"]
        /\ UNCHANGED <<wg, closing, send, errCh, failed, result, closer, closedSet>>
    BY <1>2 DEF Notify
  <2>2. Active' = Active
    BY <2>1 DEF Active, TypeOK
  <2> QED BY <2>1, <2>2 DEF TypeOK, CountsCalls, SendsOfCall, ErrorsKept, CloseOrder
<1>3. ASSUME NEW n \in Channels, Spawn(c, n) PROVE ManagerInv'
  <2>1. /\ call[c] = "sending" /\ send[c][n] = "none"
        /\ send' = [send EXCEPT ![c][n] = "sending"]
        /\ UNCHANGED <<closing, wg, call, errCh, failed, result, closer, closedSet>>
    BY <1>3 DEF Spawn
  <2>2. /\ send'[c][n] = "sending"
        /\ \A d \in Calls, m \in Channels : <<d, m>> # <<c, n>> => send'[d][m] = send[d][m]
        /\ send' \in [Calls -> [Channels -> {"none", "sending", "report", "done"}]]
    BY <2>1 DEF TypeOK
  <2>3. TypeOK' /\ CountsCalls' /\ CloseOrder'
    BY <2>1, <2>2 DEF TypeOK, CountsCalls, CloseOrder, Active
  <2>4. SendsOfCall'
    BY <2>1, <2>2 DEF SendsOfCall
  <2>5. ErrorsKept'
    <3>1. ASSUME NEW d \in Calls
          PROVE  /\ failed[d] \subseteq Channels
                 /\ {m \in failed[d] : send'[d][m] = "done"} = {m \in failed[d] : send[d][m] = "done"}
      BY <2>1, <2>2 DEF TypeOK
    <3> QED BY <2>1, <2>2, <3>1 DEF ErrorsKept
  <2> QED BY <2>3, <2>4, <2>5
<1>4. CASE Join(c)
  <2>1. /\ call[c] = "sending" /\ \A n \in Channels : send[c][n] = "done"
        /\ call' = [call EXCEPT ![c] = "collect"]
        /\ UNCHANGED <<closing, wg, send, errCh, failed, result, closer, closedSet>>
    BY <1>4 DEF Join
  <2>2. Active' = Active
    BY <2>1 DEF Active, TypeOK
  <2>3. SendsOfCall'
    BY <2>1 DEF SendsOfCall, TypeOK
  <2> QED BY <2>1, <2>2, <2>3 DEF TypeOK, CountsCalls, ErrorsKept, CloseOrder
<1>5. CASE Collect(c)
  <2>1. /\ call[c] = "collect" /\ call' = [call EXCEPT ![c] = "returned"] /\ wg' = wg - 1
        /\ result' = [result EXCEPT ![c] = errCh[c]]
        /\ UNCHANGED <<closing, send, errCh, failed, closer, closedSet>>
    BY <1>5 DEF Collect
  <2>2. c \in Active /\ Active' = Active \ {c}
    BY <2>1 DEF Active, TypeOK
  <2>3. CountsCalls' /\ wg' \in Nat
    BY <2>1, <2>2, LeavesCounted
  <2>4. TypeOK'
    BY <2>1, <2>3 DEF TypeOK
  <2>5. SendsOfCall'
    BY <2>1 DEF SendsOfCall, TypeOK
  <2>6. errCh[c] = failed[c]
    <3>1. failed[c] \subseteq Channels /\ \A n \in Channels : send[c][n] = "done"
      BY <2>1 DEF SendsOfCall, TypeOK
    <3> QED BY <3>1 DEF ErrorsKept
  <2>7. ErrorsKept'
    <3>1. /\ call'[c] = "returned" /\ result'[c] = errCh[c]
          /\ \A d \in Calls : d # c => call'[d] = call[d] /\ result'[d] = result[d]
      BY <2>1 DEF TypeOK
    <3> QED BY <2>1, <2>6, <3>1 DEF ErrorsKept
  <2>8. CloseOrder'
    BY <2>1, <2>2 DEF CloseOrder
  <2> QED BY <2>3, <2>4, <2>5, <2>7, <2>8
<1> QED BY <1>1, <1>2, <1>3, <1>4, <1>5 DEF Caller

(* The steps of Close. *)
LEMMA ClosingInv ==
  ASSUME ManagerInv, Close \/ Closing
  PROVE  ManagerInv'
<1>1. UNCHANGED <<wg, call, send, errCh, failed, result>>
  BY DEF Close, Closing, Drain, CloseReturn, CloseNotifier
<1>2. Active' = Active
  BY <1>1 DEF Active
<1>3. CountsCalls' /\ SendsOfCall' /\ ErrorsKept'
  BY <1>1, <1>2 DEF ManagerInv, CountsCalls, SendsOfCall, ErrorsKept
<1>4. TypeOK'
  <2>1. closing' \in BOOLEAN
    BY DEF Close, Closing, Drain, CloseReturn, CloseNotifier, ManagerInv, TypeOK
  <2>2. closer' \in {"idle", "drain", "close", "returned"} /\ closedSet' \subseteq Closable
    BY DEF Close, Closing, Drain, CloseReturn, CloseNotifier, ManagerInv, TypeOK
  <2> QED BY <1>1, <2>1, <2>2 DEF ManagerInv, TypeOK
<1>5. CloseOrder'
  <2>1. CASE Close
    BY <2>1 DEF Close, CloseOrder
  <2>2. CASE Drain
    <3>1. Active = {}
      BY <2>2, ActiveFinite, FS_EmptySet DEF Drain, ManagerInv, CountsCalls
    <3> QED BY <1>2, <2>2, <3>1 DEF Drain, ManagerInv, CloseOrder
  <2>3. CASE CloseReturn \/ \E n \in Channels : CloseNotifier(n)
    BY <1>2, <2>3 DEF CloseReturn, CloseNotifier, ManagerInv, CloseOrder
  <2> QED BY <2>1, <2>2, <2>3 DEF Closing
<1> QED BY <1>3, <1>4, <1>5 DEF ManagerInv

(* Every step of the manager keeps its invariant. *)
LEMMA NextManagerInv == ManagerInv /\ [Next]_vars => ManagerInv'
<1> SUFFICES ASSUME ManagerInv, [Next]_vars PROVE ManagerInv'
  OBVIOUS
<1>1. CASE UNCHANGED vars
  BY <1>1 DEF vars, ManagerInv, TypeOK, CountsCalls, Active, SendsOfCall, ErrorsKept, CloseOrder
<1> QED BY <1>1, SenderInv, CallerInv, ClosingInv DEF Next, AllOver

(* A fresh manager satisfies it. *)
LEMMA InitManagerInv == Init => ManagerInv
<1> SUFFICES ASSUME Init PROVE ManagerInv
  OBVIOUS
<1>1. Active = {}
  BY DEF Init, Active
<1>2. CountsCalls
  BY <1>1, FS_EmptySet DEF Init, CountsCalls
<1>3. TypeOK
  BY DEF Init, TypeOK
<1>4. SendsOfCall
  BY DEF Init, SendsOfCall
<1>5. ErrorsKept
  BY DEF Init, ErrorsKept
<1> QED BY <1>1, <1>2, <1>3, <1>4, <1>5 DEF Init, ManagerInv, CloseOrder

(* What the invariant says of the calls. *)
LEMMA ManagerInvMeans ==
  ASSUME ManagerInv
  PROVE  FailuresReported /\ NoSendAfterClose /\ NobodyBlocks
<1>1. FailuresReported
  BY DEF ManagerInv, SendsOfCall, ErrorsKept, FailuresReported
<1>2. NoSendAfterClose
  <2> SUFFICES ASSUME closer \in {"close", "returned"}, NEW c \in Calls, NEW n \in Channels
               PROVE  send[c][n] \in {"none", "done"}
    BY DEF NoSendAfterClose
  <2>1. call[c] \in {"idle", "refused", "returned"}
    BY DEF ManagerInv, TypeOK, CloseOrder, Active
  <2> QED BY <2>1 DEF ManagerInv, SendsOfCall
<1>3. NobodyBlocks
  <2> SUFFICES ASSUME NEW c \in Calls, NEW n \in Channels, send[c][n] = "report"
               PROVE  Cardinality(errCh[c]) < Capacity
    BY DEF NobodyBlocks
  <2>1. errCh[c] \in SUBSET Channels /\ errCh[c] # Channels
    BY DEF ManagerInv, TypeOK, ErrorsKept
  <2>2. /\ Cardinality(errCh[c]) <= Cardinality(Channels)
        /\ Cardinality(errCh[c]) # Cardinality(Channels)
        /\ IsFiniteSet(errCh[c])
    BY <2>1, NotifyAssumption, FS_Subset
  <2>3. Cardinality(errCh[c]) \in Nat /\ Cardinality(Channels) \in Nat
    BY <2>2, NotifyAssumption, FS_CardinalityType
  <2> QED BY <2>2, <2>3 DEF Capacity
<1> QED BY <1>1, <1>2, <1>3

(* The manager on its own, whatever its senders do. *)
LEMMA ManagerInvHolds == Init /\ [][Next]_vars => []ManagerInv
BY InitManagerInv, NextManagerInv, PTL

-----------------------------------------------------------------------------
(* What Send returns for an answer: nil only for one that acknowledges the *)
(* message or hides that it was not taken.                                 *)
LEMMA VerdictTells ==
  ASSUME C!TypeOK, kind # "base", NEW r \in C!Replies
  PROVE  /\ C!Verdict(r) \in {"nil", "error"}
         /\ C!Verdict(r) = "nil" => taken \/ r \in C!Hiding
<1> USE DEF C!Verdict, C!qqpushVerdict, C!weixinVerdict, C!dingtalkVerdict,
            C!telegramVerdict, C!feishuVerdict, C!ntfyVerdict
<1>1. kind \in {"qqpush", "weixin", "dingtalk", "telegram", "feishu", "ntfy"}
  BY DEF C!TypeOK, C!Kinds
<1>2. /\ r \in C!Answers /\ r.body \in C!Bodies
      /\ r.body = "code 0" => taken
  BY DEF C!Replies, C!Answers, C!Bodies
<1>3. CASE kind \in {"qqpush", "telegram", "ntfy"}
  BY <1>2, <1>3 DEF C!Hiding
<1>4. CASE kind \in {"dingtalk", "feishu"}
  BY <1>2, <1>4 DEF C!Hiding
<1>5. CASE kind = "weixin"
  BY <1>2, <1>5 DEF C!Hiding
<1> QED BY <1>1, <1>3, <1>4, <1>5

(* The steps of a Send keep what is known of its message. *)
LEMMA SendStep ==
  ASSUME C!SendInv, C!Local \/ C!World \/ C!Abandon \/ C!ContextEnds
  PROVE  C!SendInv'
<1> USE DEF C!SendInv, C!TypeOK, C!Kinds, C!Return
<1>0. kind' = kind => C!Hiding' = C!Hiding
  BY DEF C!Hiding
<1>1. CASE C!SendBase
  BY <1>1 DEF C!SendBase
<1>2. CASE C!SendQQPush \/ C!SendWeixin \/ C!SendDingTalk \/ C!SendTelegram \/ C!SendFeishu \/ C!SendNtfy
  BY <1>0, <1>2 DEF C!SendQQPush, C!SendWeixin, C!SendDingTalk, C!SendTelegram, C!SendFeishu,
              C!SendNtfy, C!Begin
<1>3. CASE C!AskToken \/ C!Post
  BY <1>0, <1>3 DEF C!AskToken, C!Post, C!Request
<1>4. CASE C!Take
  BY <1>0, <1>4 DEF C!Take
<1>5. CASE C!PostAnswered
  <2>1. PICK r \in C!Replies : answer' = r /\ pc' = "returned" /\ returned' = C!Verdict(r)
    BY <1>5 DEF C!PostAnswered
  <2>2. /\ kind # "base" /\ pc = "posted" /\ posts = 1
        /\ UNCHANGED <<kind, over, posts, taken>>
    BY <1>5 DEF C!PostAnswered
  <2>3. C!Verdict(r) \in {"nil", "error"}
    BY <2>2, VerdictTells
  <2>4. C!Verdict(r) = "nil" => taken \/ r \in C!Hiding
    BY <2>2, VerdictTells
  <2>5. r \in C!Answers
    BY DEF C!Replies
  <2>6. returned' = "nil" => taken' \/ (posts' = 1 /\ answer' \in C!Hiding')
    BY <1>0, <2>1, <2>2, <2>4
  <2>7. C!TypeOK'
    BY <2>1, <2>2, <2>3, <2>5
  <2> QED BY <2>1, <2>2, <2>3, <2>6, <2>7
<1>6. CASE C!TokenAnswered
  BY <1>0, <1>6 DEF C!TokenAnswered
<1>7. CASE C!ConnectionFails \/ C!Abandon
  BY <1>0, <1>7 DEF C!ConnectionFails, C!Abandon, C!Waiting
<1>8. CASE C!ContextEnds
  BY <1>0, <1>8 DEF C!ContextEnds
<1> QED BY <1>1, <1>2, <1>3, <1>4, <1>5, <1>6, <1>7, <1>8 DEF C!Local, C!World

(* Every step with the Send in detail is a step of the manager, or leaves  *)
(* it alone: the requests of a Send are invisible to Notify and Close.     *)
LEMMA DeliveryStepRefines == [DeliveryNext]_deliveryVars => [Next]_vars
<1> SUFFICES ASSUME [DeliveryNext]_deliveryVars PROVE [Next]_vars
  OBVIOUS
<1>1. CASE \/ Inside(C!Local) \/ Inside(C!World) \/ Inside(C!Abandon) \/ Inside(C!ContextEnds)
  BY <1>1 DEF Inside, managerVars
<1>2. CASE SendEnds \/ Panics
  BY <1>2, DeliveryAssumption DEF SendEnds, Panics, Next, Sender
<1>3. CASE \E c \in Calls : Notifies(c) \/ GoesOn(c) \/ \E n \in Channels : OtherSends(c, n)
  BY <1>3 DEF Notifies, GoesOn, OtherSends, Next
<1>4. CASE Closes \/ ClosesOn \/ AllOver
  BY <1>4 DEF Closes, ClosesOn, Next
<1>5. CASE UNCHANGED deliveryVars
  BY <1>5 DEF deliveryVars, managerVars
<1> QED BY <1>1, <1>2, <1>3, <1>4, <1>5 DEF DeliveryNext

(* Every step keeps the invariant of the composition. *)
LEMMA NextDeliveryInv == DeliveryInv /\ [DeliveryNext]_deliveryVars => DeliveryInv'
<1> SUFFICES ASSUME DeliveryInv, [DeliveryNext]_deliveryVars PROVE DeliveryInv'
  OBVIOUS
<1>1. ManagerInv'
  BY DeliveryStepRefines, NextManagerInv DEF DeliveryInv
<1>2. CASE \/ Inside(C!Local) \/ Inside(C!World) \/ Inside(C!Abandon) \/ Inside(C!ContextEnds)
  <2>1. C!SendInv'
    BY <1>2, SendStep DEF Inside, DeliveryInv
  <2>2. send' = send /\ failed' = failed /\ send[Message][Channel] = "sending"
    BY <1>2 DEF Inside, InSend, managerVars, vars
  <2> QED BY <1>1, <2>1, <2>2 DEF DeliveryInv, SendFollowed
<1>3. ASSUME UNCHANGED sendVars PROVE C!SendInv'
  BY <1>3 DEF sendVars, DeliveryInv, C!SendInv, C!TypeOK, C!Hiding
<1>4. CASE SendEnds
  <2>1. CASE SendSucceeds(Message, Channel) /\ returned = "nil" /\ UNCHANGED sendVars
    BY <1>1, <1>3, <2>1 DEF sendVars, DeliveryInv, SendFollowed
  <2>2. CASE SendFails(Message, Channel) /\ UNCHANGED sendVars
    <3>1. Channel \in failed'[Message]
      BY <2>2, DeliveryAssumption DEF SendFails, DeliveryInv, ManagerInv, TypeOK
    <3> QED BY <1>1, <1>3, <2>2, <3>1 DEF DeliveryInv, SendFollowed
  <2>3. CASE ReportError(Message, Channel) /\ UNCHANGED sendVars
    <3>1. send[Message][Channel] = "report" /\ failed' = failed /\ returned' = returned
      BY <2>3 DEF ReportError, sendVars
    <3> QED BY <1>1, <1>3, <2>3, <3>1 DEF DeliveryInv, SendFollowed
  <2> QED BY <1>4, <2>1, <2>2, <2>3 DEF SendEnds
<1>5. CASE Panics
  <2>1. Channel \in failed'[Message]
    BY <1>5, DeliveryAssumption DEF Panics, SendFails, DeliveryInv, ManagerInv, TypeOK
  <2> QED BY <1>1, <1>3, <1>5, <2>1 DEF Panics, DeliveryInv, SendFollowed
<1>6. ASSUME UNCHANGED sendVars, failed'[Message] = failed[Message] \/ Channel \in failed'[Message],
             \/ send'[Message][Channel] = send[Message][Channel]
             \/ send'[Message][Channel] \in {"none", "sending"}
      PROVE  DeliveryInv'
  <2>1. returned' = returned
    BY <1>6 DEF sendVars
  <2>2. Channel \notin failed'[Message] => failed'[Message] = failed[Message]
    BY <1>6
  <2>3. SendFollowed'
    BY <1>6, <2>1, <2>2 DEF DeliveryInv, SendFollowed
  <2> QED BY <1>1, <1>3, <1>6, <2>3 DEF DeliveryInv
<1>7. ASSUME NEW c \in Calls, Notifies(c) \/ GoesOn(c) PROVE DeliveryInv'
  <2>1. UNCHANGED sendVars /\ failed' = failed
    BY <1>7 DEF Notifies, GoesOn, Notify, Caller, Join, Collect, Spawn
  <2>2. \/ send'[Message][Channel] = send[Message][Channel]
        \/ send'[Message][Channel] \in {"none", "sending"}
    <3>1. send' = send \/ \E n \in Channels : send' = [send EXCEPT ![c][n] = "sending"]
      BY <1>7 DEF Notifies, GoesOn, Notify, Caller, Join, Collect, Spawn
    <3> QED BY <3>1, DeliveryAssumption DEF DeliveryInv, ManagerInv, TypeOK
  <2> QED BY <1>6, <2>1, <2>2
<1>8. ASSUME NEW c \in Calls, NEW n \in Channels, OtherSends(c, n) PROVE DeliveryInv'
  <2>1. UNCHANGED sendVars /\ <<c, n>> # <<Message, Channel>>
    BY <1>8 DEF OtherSends
  <2>2. \E s : send' = [send EXCEPT ![c][n] = s]
    BY <1>8 DEF OtherSends, Sender, SendSucceeds, SendFails, ReportError
  <2>3. send'[Message][Channel] = send[Message][Channel]
    BY <2>1, <2>2, DeliveryAssumption DEF DeliveryInv, ManagerInv, TypeOK
  <2>4. failed' = failed \/ failed' = [failed EXCEPT ![c] = @ \cup {n}]
    BY <1>8 DEF OtherSends, Sender, SendSucceeds, SendFails, ReportError
  <2>5. Channel \notin failed'[Message] => Channel \notin failed[Message]
    BY <2>4, DeliveryAssumption DEF DeliveryInv, ManagerInv, TypeOK
  <2>6. SendFollowed' /\ C!SendInv'
    BY <1>3, <2>1, <2>3, <2>5 DEF DeliveryInv, SendFollowed, sendVars
  <2> QED BY <1>1, <2>6 DEF DeliveryInv
<1>9. CASE Closes \/ ClosesOn \/ (AllOver /\ UNCHANGED sendVars) \/ UNCHANGED deliveryVars
  <2>1. UNCHANGED sendVars /\ failed' = failed /\ send' = send
    BY <1>9 DEF Closes, ClosesOn, AllOver, Close, Closing, Drain, CloseReturn, CloseNotifier,
                vars, deliveryVars, managerVars, sendVars
  <2> QED BY <1>6, <2>1
<1> QED BY <1>2, <1>4, <1>5, <1>7, <1>8, <1>9 DEF DeliveryNext

(* Before the first call nothing was sent. *)
LEMMA InitDeliveryInv == DeliveryInit => DeliveryInv
<1> SUFFICES ASSUME DeliveryInit PROVE DeliveryInv
  OBVIOUS
<1>1. ManagerInv
  BY InitManagerInv DEF DeliveryInit
<1>2. C!SendInv
  <2>1. over \in BOOLEAN /\ taken \in BOOLEAN
    BY DEF DeliveryInit, C!Init
  <2>2. /\ kind \in C!Kinds /\ pc = "start" /\ posts = 0 /\ returned = "none"
        /\ answer = C!NoAnswer
    BY DEF DeliveryInit, C!Init
  <2> QED BY <2>1, <2>2 DEF C!SendInv, C!TypeOK
<1>3. send[Message][Channel] = "none"
  BY DeliveryAssumption DEF DeliveryInit, Init
<1> QED BY <1>1, <1>2, <1>3 DEF DeliveryInv, SendFollowed

(* Every reachable state satisfies the invariant. *)
LEMMA DeliveryInvHolds == DeliverySpec => []DeliveryInv
BY InitDeliveryInv, NextDeliveryInv, PTL DEF DeliverySpec

(* Whatever requests a Send makes, the manager that calls it starts and    *)
(* steps like the abstract one: the safety part of ImplementsManager.      *)
THEOREM ManagerRefined == DeliverySpec => Init /\ [][Next]_vars
<1>1. DeliveryInit => Init
  BY DEF DeliveryInit
<1> QED BY <1>1, DeliveryStepRefines, PTL DEF DeliverySpec

(* Notify returns the failed channels, each of them and no other, and      *)
(* every goroutine has ended when it closes errCh.                         *)
THEOREM FailuresReportedHolds == DeliverySpec => []FailuresReported
<1>1. DeliveryInv => FailuresReported
  BY ManagerInvMeans DEF DeliveryInv
<1> QED BY <1>1, DeliveryInvHolds, PTL

(* No notifier is closed while a message is on its way through it, and     *)
(* none is used afterwards.                                                *)
THEOREM NoSendAfterCloseHolds == DeliverySpec => []NoSendAfterClose
<1>1. DeliveryInv => NoSendAfterClose
  BY ManagerInvMeans DEF DeliveryInv
<1> QED BY <1>1, DeliveryInvHolds, PTL

(* The buffer of errCh, as large as the number of channels, never makes a  *)
(* goroutine wait, although nobody receives before all have ended.         *)
THEOREM NobodyBlocksHolds == DeliverySpec => []NobodyBlocks
<1>1. DeliveryInv => NobodyBlocks
  BY ManagerInvMeans DEF DeliveryInv
<1> QED BY <1>1, DeliveryInvHolds, PTL

(* A message is posted at most once through a channel of any kind, and a   *)
(* Notify that returns without an error of the channel means that the      *)
(* service has taken it, or that it was posted and its loss is hidden by   *)
(* the answer.                                                             *)
THEOREM LossReportedHolds == DeliverySpec => []LossReported
<1>1. ASSUME DeliveryInv PROVE LossReported
  <2>1. posts <= 1
    BY <1>1 DEF DeliveryInv, C!SendInv
  <2>2. ASSUME call[Message] = "returned", Channel \notin result[Message]
        PROVE  taken \/ (posts = 1 /\ answer \in C!Hiding)
    <3>1. send[Message][Channel] = "done" /\ Channel \notin failed[Message]
      BY <1>1, <2>2, DeliveryAssumption DEF DeliveryInv, ManagerInv, SendsOfCall, ErrorsKept
    <3>2. returned = "nil"
      BY <1>1, <3>1 DEF DeliveryInv, SendFollowed
    <3> QED BY <1>1, <3>2 DEF DeliveryInv, C!SendInv
  <2> QED BY <2>1, <2>2 DEF LossReported
<1> QED BY <1>1, DeliveryInvHolds, PTL
=============================================================================
