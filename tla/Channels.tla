------------------------------ MODULE Channels ------------------------------
(***************************************************************************)
(* Send of the notification channels under pkg/apikit/apinotify: base,     *)
(* qqpush, weixin, dingtalk, telegram, feishu and ntfy.  The variables are *)
(* of one message on its way through one channel: the request for a token  *)
(* where there is one, the request with the message, and what the channel  *)
(* makes of the answer.  Module Delivery has the manager that calls Send.  *)
(*                                                                         *)
(* The service may take the message and its answer be lost, may refuse it  *)
(* with an error code or with a status, and may stay silent for ever; what *)
(* stands in front of it may answer in its place.  The context of the Send *)
(* ends at any time.                                                       *)
(***************************************************************************)
EXTENDS Naturals

Kinds == {"base", "qqpush", "weixin", "dingtalk", "telegram", "feishu", "ntfy"}

VARIABLES kind,    \* the channel
          pc,      \* where Send is
          over,    \* the context has ended, by its deadline or a signal
          posts,   \* requests with the message that were sent
          taken,   \* the service has taken the message
          answer,  \* history: the answer to the message
          result   \* what Send has returned

vars == <<kind, pc, over, posts, taken, answer, result>>

(* A body is JSON with an error code of 0 or another one, JSON without a   *)
(* code, nothing at all, or something else, such as the page of a proxy.   *)
(* The status is 200 or one of the others, whose body is only quoted in    *)
(* the error.                                                              *)
Bodies == {"code 0", "code 1", "no code", "empty", "page"}

Answers == [status : {200}, body : Bodies] \cup [status : {500}, body : {"page"}]

NoAnswer == [status |-> 0, body |-> "empty"]

TypeOK == /\ kind \in Kinds
          /\ pc \in {"start", "token", "tokenSent", "post", "posted", "returned"}
          /\ over \in BOOLEAN
          /\ posts \in Nat
          /\ taken \in BOOLEAN
          /\ answer \in Answers \cup {NoAnswer}
          /\ result \in {"none", "nil", "error"}

Init == /\ kind \in Kinds
        /\ pc = "start"
        /\ over \in BOOLEAN
        /\ posts = 0
        /\ taken = FALSE
        /\ answer = NoAnswer
        /\ result = "none"

Return(r) == pc' = "returned" /\ result' = r

-----------------------------------------------------------------------------
(* Base.Send writes to the notification log; that is all it takes. *)
SendBase == /\ pc = "start"
            /\ kind = "base"
            /\ taken' = TRUE
            /\ Return("nil")
            /\ UNCHANGED <<kind, over, posts, answer>>

(* The others build a request, of which the text of the message is all    *)
(* that matters here.                                                      *)
Begin(k, step) == /\ pc = "start"
                  /\ kind = k
                  /\ pc' = step
                  /\ UNCHANGED <<kind, over, posts, taken, answer, result>>

SendQQPush == Begin("qqpush", "post")
SendDingTalk == Begin("dingtalk", "post")
SendFeishu == Begin("feishu", "post")
SendNtfy == Begin("ntfy", "post")

(* Weixin needs an access token, a new one for every message. *)
SendWeixin == Begin("weixin", "token")

(* Telegram looks at the context first. *)
SendTelegram == \/ ~over /\ Begin("telegram", "post")
                \/ /\ pc = "start"
                   /\ kind = "telegram"
                   /\ over
                   /\ Return("error")
                   /\ UNCHANGED <<kind, over, posts, taken, answer>>

(* GetJSON and PostJSON up to the wire: TLSClient.RoundTrip refuses a      *)
(* context that has ended, and may fail to build a client or a request.  A *)
(* context that ends between the check and the request is one that ends    *)
(* right after it: Abandon follows either way.                             *)
Request(step, next, n) ==
  /\ pc = step
  /\ \/ Return("error") /\ UNCHANGED posts
     \/ /\ ~over
        /\ pc' = next
        /\ posts' = posts + n
        /\ UNCHANGED result
  /\ UNCHANGED <<kind, over, taken, answer>>

AskToken == Request("token", "tokenSent", 0)
Post == Request("post", "posted", 1)

-----------------------------------------------------------------------------
(* The service. *)
Take == /\ pc = "posted"
        /\ ~taken
        /\ taken' = TRUE
        /\ UNCHANGED <<kind, pc, over, posts, answer, result>>

(* The answers to a message: any status with any body, but that a code is  *)
(* made by the service, which knows what it did with the message.          *)
Replies == {r \in Answers : /\ r.body = "code 0" => taken
                            /\ r.body = "code 1" => ~taken}

(* What Send returns for an answer.  QQPush, Telegram and ntfy look at the *)
(* status alone.  The others look for an error code too, and one that is   *)
(* missing counts as 0; DingTalk and Feishu take an empty body for         *)
(* success, which Weixin cannot decode.                                    *)
qqpushVerdict(r) == IF r.status = 200 THEN "nil" ELSE "error"
telegramVerdict(r) == IF r.status = 200 THEN "nil" ELSE "error"
ntfyVerdict(r) == IF r.status = 200 THEN "nil" ELSE "error"

weixinVerdict(r) ==
  IF r.status = 200 /\ r.body \in {"code 0", "no code"} THEN "nil" ELSE "error"

dingtalkByStatus(r) == IF r.status = 200 THEN "nil" ELSE "error"

dingtalkVerdict(r) ==
  IF r.status = 200 /\ r.body \in {"empty", "code 0", "no code"} THEN "nil" ELSE "error"

feishuVerdict(r) ==
  IF r.status = 200 /\ r.body \in {"empty", "code 0", "no code"} THEN "nil" ELSE "error"

Verdict(r) == CASE kind = "qqpush" -> qqpushVerdict(r)
                [] kind = "weixin" -> weixinVerdict(r)
                [] kind = "dingtalk" -> dingtalkVerdict(r)
                [] kind = "telegram" -> telegramVerdict(r)
                [] kind = "feishu" -> feishuVerdict(r)
                [] kind = "ntfy" -> ntfyVerdict(r)

PostAnswered == /\ pc = "posted"
                /\ \E r \in Replies : answer' = r /\ Return(Verdict(r))
                /\ UNCHANGED <<kind, over, posts, taken>>

(* accessToken: status, decoding and an empty token end the Send. *)
TokenAnswered ==
  /\ pc = "tokenSent"
  /\ \E s \in {200, 500}, body \in {"empty", "page", "no token", "token"} :
       IF s = 200 /\ body = "token" THEN pc' = "post" /\ UNCHANGED result
       ELSE Return("error")
  /\ UNCHANGED <<kind, over, posts, taken, answer>>

(* The connection fails. *)
ConnectionFails == /\ pc \in {"tokenSent", "posted"}
                   /\ Return("error")
                   /\ UNCHANGED <<kind, over, posts, taken, answer>>

(* The context of the Send is that of its requests, of both of them. *)
AbandonPost == {"posted"}

Waiting == {"tokenSent", "posted"}

Abandon == /\ pc \in Waiting
           /\ over
           /\ Return("error")
           /\ UNCHANGED <<kind, over, posts, taken, answer>>

ContextEnds == /\ pc # "returned"
               /\ ~over
               /\ over' = TRUE
               /\ UNCHANGED <<kind, pc, posts, taken, answer, result>>

Local == \/ SendBase \/ SendQQPush \/ SendWeixin \/ SendDingTalk \/ SendTelegram
         \/ SendFeishu \/ SendNtfy \/ AskToken \/ Post

(* What the service and the network do. *)
World == Take \/ PostAnswered \/ TokenAnswered \/ ConnectionFails

-----------------------------------------------------------------------------
(* The answers that hide from a channel that its message was not taken. *)
Hiding ==
  {r \in Answers :
     /\ r.status = 200
     /\ r.body \in CASE kind \in {"qqpush", "telegram", "ntfy"} -> Bodies \ {"code 0"}
                     [] kind \in {"dingtalk", "feishu"} -> {"no code", "empty"}
                     [] kind = "weixin" -> {"no code"}
                     [] OTHER -> {}}

(* What is known of a message at each point of Send: the base channel      *)
(* makes no request, the message is posted at the last one, and a Send     *)
(* that reports success has been taken or was given a hiding answer.       *)
SendInv == /\ TypeOK
           /\ result = "none" <=> pc # "returned"
           /\ kind = "base" => pc \in {"start", "returned"}
           /\ pc \in {"start", "token", "tokenSent", "post"} => posts = 0
           /\ pc = "posted" => posts = 1
           /\ posts <= 1
           /\ result = "nil" => taken \/ (posts = 1 /\ answer \in Hiding)
=============================================================================
