------------------------------- MODULE Login -------------------------------
(***************************************************************************)
(* A login from the configuration to its result: the validation of the     *)
(* credentials (pkg/apikit/apimtauth/config.go), the choice of the mode in *)
(* authManager.Resolve, and Client.login (login.go) request by request,    *)
(* with the second attempt that carries a TOTP code.                       *)
(*                                                                         *)
(* A credential is set or empty; a TOTP secret may also be one that cannot *)
(* be decoded.  An empty secret decodes to an empty key, so the code made  *)
(* from it is sent all the same.  A response has the fields that           *)
(* ParseResponse and login look at.                                        *)
(***************************************************************************)
EXTENDS Naturals, Sequences

VARIABLES credentials,  \* in the configuration file
          pc,           \* the next step
          otp,          \* the argument of login: this attempt carries a code
          sent,         \* the requests that have been sent
          ctxDone,      \* the run's context has ended
          err,          \* what login returns: an error,
          identity,     \* and an identity
          granted,      \* history: the identity the server has just granted
          endedAt       \* history: where login was when the context ended

loginVars == <<credentials, pc, otp, sent, ctxDone, err, identity, granted, endedAt>>

Credentials == [username : BOOLEAN, password : BOOLEAN,
                secret : {"empty", "undecodable", "good"},
                auth : BOOLEAN, did : BOOLEAN, visitor : BOOLEAN]

Responses == [status : {200, 401, 500},
              code : {"0", "1001", "401", "unknown", "malformed"},
              token : {"set", "blank"},
              did : {"set", "missing"}]

Errors == {"nil", "auth", "http", "totp", "business", "ctx", "other"}

(* A DID is made by the client for a request, or by the server in its      *)
(* answer to it; a token always by the server.                             *)
DIDs == [from : {"client", "server"}, request : Nat]

NoState == [token |-> 0, did |-> [from |-> "client", request |-> 0]]

Steps == {"start", "prepare", "send", "do", "receive", "ended", "notNeeded"}

LoginTypeOK == /\ credentials \in Credentials
               /\ pc \in Steps
               /\ otp \in BOOLEAN
               /\ sent \in Seq([did : DIDs, otp : BOOLEAN])
               /\ ctxDone \in BOOLEAN
               /\ err \in Errors
               /\ identity \in [token : Nat, did : DIDs]
               /\ granted \in [token : Nat, did : DIDs]
               /\ endedAt \in [step : Steps, sent : Nat]

-----------------------------------------------------------------------------
(* Config.Validate, as far as the credentials go. *)
HasPassword(c) == c.username /\ c.password

HasPasswordPartial(c) == c.username \/ c.password \/ c.secret # "empty"

HasToken(c) == c.auth /\ c.did /\ c.visitor

HasTokenPartial(c) == c.auth \/ c.did \/ c.visitor

ValidateLogin(c) == /\ HasPasswordPartial(c) => HasPassword(c)
                    /\ HasTokenPartial(c) => HasToken(c)
                    /\ HasPassword(c) \/ HasToken(c)

(* mtproto.ParseResponse: the error of a response. *)
ParseResponse(r) ==
  IF r.status = 401 THEN "auth"
  ELSE IF r.status # 200 THEN "http"
  ELSE CASE r.code = "0" -> "nil"
         [] r.code = "1001" -> "totp"
         [] r.code = "401" -> "auth"
         [] OTHER -> "business"

-----------------------------------------------------------------------------
LoginInit == /\ credentials \in {c \in Credentials : ValidateLogin(c)}
             /\ pc = "start"
             /\ otp = FALSE
             /\ sent = <<>>
             /\ ctxDone = FALSE
             /\ err = "nil"
             /\ identity = NoState
             /\ granted = NoState
             /\ endedAt = [step |-> "start", sent |-> 0]

(* Resolve uses token_auth when any of it is set, and logs in otherwise. *)
Start == /\ pc = "start"
         /\ pc' = IF HasTokenPartial(credentials) THEN "notNeeded" ELSE "prepare"
         /\ UNCHANGED <<credentials, otp, sent, ctxDone, err, identity, granted, endedAt>>

Return(e, s) == /\ pc' = "ended"
                /\ err' = e
                /\ identity' = s

(* The head of login: the context, the code, and a random DID. *)
Prepare ==
  /\ pc = "prepare"
  /\ IF ctxDone THEN Return("ctx", NoState)
     ELSE IF otp /\ credentials.secret = "undecodable" THEN Return("other", NoState)
     ELSE \/ Return("other", NoState)
          \/ pc' = "send" /\ UNCHANGED <<err, identity>>
  /\ UNCHANGED <<credentials, otp, sent, ctxDone, granted, endedAt>>

(* TLSClient.RoundTrip looks at the context again, and may fail to get a   *)
(* client or to build the request.                                         *)
RoundTripAnyway ==
  /\ pc = "send"
  /\ \/ Return("other", NoState)
     \/ pc' = "do" /\ UNCHANGED <<err, identity>>
  /\ UNCHANGED <<credentials, otp, sent, ctxDone, granted, endedAt>>

RoundTrip ==
  /\ pc = "send"
  /\ IF ctxDone THEN Return("ctx", NoState)
     ELSE \/ Return("other", NoState)
          \/ pc' = "do" /\ UNCHANGED <<err, identity>>
  /\ UNCHANGED <<credentials, otp, sent, ctxDone, granted, endedAt>>

(* The call of client.Do after that sends the request, even if the context *)
(* has ended in the meantime, unless it fails or notices in time.          *)
Do ==
  /\ pc = "do"
  /\ \/ /\ sent' = Append(sent, [did |-> [from |-> "client", request |-> Len(sent) + 1],
                                  otp |-> otp])
        /\ pc' = "receive"
        /\ UNCHANGED <<err, identity>>
     \/ /\ Return(IF ctxDone THEN "ctx" ELSE "other", NoState)
        /\ UNCHANGED sent
  /\ UNCHANGED <<credentials, otp, ctxDone, granted, endedAt>>

(* What the server takes for the identity of the client after its answer r *)
(* to the last request.                                                    *)
ServerGrants(r) ==
  IF r.status # 200 \/ r.code # "0" \/ r.token = "blank" THEN NoState
  ELSE [token |-> Len(sent),
        did |-> IF r.did = "set" THEN [from |-> "server", request |-> Len(sent)]
                                 ELSE [from |-> "client", request |-> Len(sent)]]

(* The identity that login makes of a response: the two headers, and the   *)
(* DID of the request if there is none in the response.                    *)
GrantWithoutFallback(r) ==
  [token |-> Len(sent),
   did |-> IF r.did = "set" THEN [from |-> "server", request |-> Len(sent)] ELSE NoState.did]

Grant(r) == [token |-> Len(sent),
             did |-> IF r.did = "set" THEN [from |-> "server", request |-> Len(sent)]
                                      ELSE sent[Len(sent)].did]

(* The condition for a second attempt. *)
AskedForCode(e) == e = "totp"

Retries(e) == e = "totp" /\ ~otp

(* The error of an attempt; a login without a token has failed. *)
LoginError(r) == IF ParseResponse(r) = "nil" /\ r.token = "blank" THEN "auth" ELSE ParseResponse(r)

Receive ==
  /\ pc = "receive"
  /\ \E r \in Responses :
       /\ granted' = ServerGrants(r)
       /\ IF Retries(LoginError(r))
            THEN pc' = "prepare" /\ otp' = TRUE /\ UNCHANGED <<err, identity>>
            ELSE /\ Return(LoginError(r), IF LoginError(r) = "nil" THEN Grant(r) ELSE NoState)
                 /\ UNCHANGED otp
  /\ UNCHANGED <<credentials, sent, ctxDone, endedAt>>

(* No response: the connection fails, or the context ends in between. *)
NoResponse == /\ pc = "receive"
              /\ Return(IF ctxDone THEN "ctx" ELSE "other", NoState)
              /\ UNCHANGED <<credentials, otp, sent, ctxDone, granted, endedAt>>

(* The time-out of the run or a signal, at any time. *)
ContextEnds == /\ pc \notin {"ended", "notNeeded"}
               /\ ~ctxDone
               /\ ctxDone' = TRUE
               /\ endedAt' = [step |-> pc, sent |-> Len(sent)]
               /\ UNCHANGED <<credentials, pc, otp, sent, err, identity, granted>>

Ended == pc \in {"ended", "notNeeded"} /\ UNCHANGED loginVars

LoginNext == Start \/ Prepare \/ RoundTrip \/ Do \/ Receive \/ NoResponse \/ ContextEnds \/ Ended

LoginSpec == LoginInit /\ [][LoginNext]_loginVars

-----------------------------------------------------------------------------
(* A login returns the identity the server granted in answer to its last   *)
(* request, token and DID of the same attempt and neither of them empty,   *)
(* or an error and no identity.                                            *)
GrantedOrError ==
  pc = "ended" =>
    IF err = "nil" THEN identity = granted /\ granted # NoState /\ identity.token = Len(sent)
    ELSE identity = NoState

(* A login sends at most two requests, the second with a code: a server    *)
(* that keeps on asking for a code is not asked for ever.  And whatever    *)
(* configuration passed validation, nothing is sent without user name and  *)
(* password, or when a token is configured.                                *)
LoginRequests == /\ Len(sent) <= 2
                 /\ \A k \in 1..Len(sent) : sent[k].otp <=> k = 2
                 /\ sent # <<>> => HasPassword(credentials) /\ ~HasTokenPartial(credentials)

(* Once the context has ended no request goes out any more, also when it   *)
(* ends between the head of login and RoundTrip, before an answer that     *)
(* asks for a code, or between the two attempts; but for the one that had  *)
(* passed the check of RoundTrip by then and was not yet sent.             *)
LateRequest ==
  ctxDone => Len(sent) <= endedAt.sent + IF endedAt.step = "do" THEN 1 ELSE 0

-----------------------------------------------------------------------------
(* The strengthening that makes the safety properties inductive: how many  *)
(* requests have been sent follows from the step and the attempt, and the  *)
(* k-th of them has carried a DID of its own.                              *)
SentSoFar ==
  /\ pc \in {"start", "notNeeded"} => sent = <<>> /\ ~otp
  /\ pc \in {"prepare", "send", "do"} => Len(sent) = IF otp THEN 1 ELSE 0
  /\ pc = "receive" => Len(sent) = IF otp THEN 2 ELSE 1

OwnDIDs == \A k \in 1..Len(sent) : sent[k].did = [from |-> "client", request |-> k]

ByPassword == /\ ValidateLogin(credentials)
              /\ pc \in {"prepare", "send", "do", "receive"} => ~HasTokenPartial(credentials)

(* A login with an ended context that is about to send was about to send   *)
(* when the context ended.                                                 *)
PastTheCheck == ctxDone /\ pc = "do" => endedAt = [step |-> "do", sent |-> Len(sent)]

LoginInv == /\ LoginTypeOK
            /\ SentSoFar
            /\ OwnDIDs
            /\ ByPassword
            /\ GrantedOrError
            /\ LoginRequests
            /\ PastTheCheck
            /\ LateRequest
=============================================================================
