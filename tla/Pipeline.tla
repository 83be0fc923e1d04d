------------------------------ MODULE Pipeline ------------------------------
(***************************************************************************)
(* The way of a request: the chains of trippers of the login client, the   *)
(* browse client and the notification manager (pkg/apicore,                *)
(* pkg/apikit/internal/mttransport) down to the shared TLS client, and the *)
(* way of its answer back into the session's identity and the cookie jar.  *)
(*                                                                         *)
(* One goroutine logs in and browses, request after request; between two   *)
(* sessions it notifies, and then every channel has a goroutine, a context *)
(* and a request of its own.  An answer may be lost, or cut off after its  *)
(* headers.                                                                *)
(***************************************************************************)
EXTENDS Naturals

CONSTANTS Channels,  \* notification channels
          Own,       \* the channels with a proxy of their own (Telegram)
          MaxDID     \* bound: the DIDs the server issues

ASSUME PipelineAssumption ==
  /\ Own \subseteq Channels
  /\ MaxDID \in Nat
  /\ "login" \notin Channels /\ "browse" \notin Channels /\ "run" \notin Channels

None == "none"
Idle == [path |-> "idle"]

MTeam == {"login", "browse"}
Actors == MTeam \cup Channels

(* Browsers, and the products that their User-Agent names: nearly every    *)
(* one names Safari too.                                                   *)
Products == [firefox |-> {"firefox"},
             safari  |-> {"safari"},
             chrome  |-> {"chrome", "safari"},
             edge    |-> {"chrome", "safari", "edg"},
             curl    |-> {}]

Agents == DOMAIN Products

(* DIDs are numbered: 0 stands for none, 1 for one the client made up, the *)
(* server issues the others.                                               *)
NoDID == 0

VARIABLES cfg,       \* the mode of authentication, proxies and User-Agent, as configured
          ctx,       \* the proxy in the context of the run and of each channel
          doing,     \* what the run's goroutine is doing
          state,     \* mttransport.State of the session
          kept,      \* the DID in the store, or in token_auth, for the next session
          flight,    \* the request each actor has on the wire
          jar,       \* the cookies in the jar of scope mteam
          issued,    \* the newest DID
          learned,   \* history: the DID the session began with, or of the last
                     \* answer that arrived
          given      \* history: whose answers have set a cookie at the M-Team host

vars == <<cfg, ctx, doing, state, kept, flight, jar, issued, learned, given>>

(* The proxy of a channel: its own, or the system's if it asks for it. *)
telegramProxy(n, system, asks) ==
  IF n \in Own THEN "own" ELSE IF asks THEN system ELSE None

Configs ==
  {[mode |-> m, proxy |-> p, agent |-> u,
    route |-> [n \in Channels |-> telegramProxy(n, s, n \in asking)]] :
     m \in {"token", "password"}, p \in {None, "mt"}, u \in Agents \cup {None}, s \in {None, "system"},
     asking \in SUBSET Channels}

(* A run that has erased its identity, or never had one, but for the       *)
(* visitor id that it makes for a login.                                   *)
NoIdentity == [token |-> None, did |-> NoDID, visitor |-> "id"]

Init == /\ cfg \in Configs
        /\ ctx = [a \in Channels \cup {"run"} |-> None]
        /\ \/ doing = "browse" /\ state = [token |-> "old", did |-> 1, visitor |-> "id"]
           \/ cfg.mode = "password" /\ doing = "login" /\ state = NoIdentity
        /\ kept = state.did
        /\ flight = [a \in Actors |-> Idle]
        /\ jar = {}
        /\ issued = 1
        /\ learned = state.did
        /\ given = {}

-----------------------------------------------------------------------------
(* The trippers: what each makes of the request it hands on. *)
IdentityHeaders(req) == [req EXCEPT !.auth = state.token, !.did = state.did,
                                    !.visitor = state.visitor]

Proxy(req, fromContext) == IF req.proxy = None THEN [req EXCEPT !.proxy = fromContext] ELSE req

CookieScope(req) == [req EXCEPT !.scope = "mteam"]

Headers(req) == IF req.agent = None THEN [req EXCEPT !.agent = cfg.agent] ELSE req

UnixNoAuth(req) == IF req.path = "unix" THEN [req EXCEPT !.auth = None, !.did = NoDID] ELSE req

(* Chain: the first tripper sees the request first.  A session puts        *)
(* IdentityHeaders in front of its client's chain.                         *)
ClientChain(req) == UnixNoAuth(Headers(CookieScope(Proxy(req, ctx["run"]))))

IdentityLast(req) == IdentityHeaders(ClientChain(req))

SessionChain(req) == ClientChain(IdentityHeaders(req))

ManagerChain(n, req) == Proxy(req, ctx'[n])

(* TLSClient: the agent of the request, its header or a default, and the   *)
(* TLS profile that goes with it.                                          *)
effectiveUserAgent(req) ==
  IF req.agent # None THEN req.agent ELSE IF req.header # None THEN req.header ELSE "chrome"

profileForUserAgent(products) ==
  CASE "firefox" \in products -> "firefox_148"
    [] "safari" \in products /\ "chrome" \notin products -> "safari_16_0"
    [] products \cap {"chrome", "edg"} # {} -> "chrome_146"
    [] OTHER -> "default"

(* Only a cookie scope brings a jar. *)
SharedJar(scope) == jar

JarOf(scope) == IF scope = "mteam" THEN jar ELSE {}

(* buildRequest: what goes out. *)
Wire(req) == [auth |-> req.auth, did |-> req.did, visitor |-> req.visitor, path |-> req.path,
              proxy |-> req.proxy, scope |-> req.scope, cookies |-> JarOf(req.scope),
              agent |-> effectiveUserAgent(req),
              profile |-> profileForUserAgent(Products[effectiveUserAgent(req)])]

BlankRequest == [path |-> "other", auth |-> None, did |-> NoDID, visitor |-> None,
                 proxy |-> None, scope |-> None, agent |-> None, header |-> None]

baseRequest == [BlankRequest EXCEPT !.proxy = cfg.proxy]

-----------------------------------------------------------------------------
(* A login goes out with the visitor id and a DID made up for it.          *)
LoginSend ==
  /\ doing = "login"
  /\ flight["login"] = Idle
  /\ flight' = [flight EXCEPT !["login"] =
       Wire(ClientChain([baseRequest EXCEPT !.did = 1, !.visitor = state.visitor]))]
  /\ UNCHANGED <<cfg, ctx, doing, state, kept, jar, issued, learned, given>>

(* Session.do and doJSON. *)
SessionSend(path) ==
  /\ doing = "browse"
  /\ flight["browse"] = Idle
  /\ flight' = [flight EXCEPT !["browse"] =
       Wire(SessionChain([baseRequest EXCEPT !.path = path]))]
  /\ UNCHANGED <<cfg, ctx, doing, state, kept, jar, issued, learned, given>>

(* The goroutine of a channel: a context of its own, with the channel's    *)
(* proxy.  Some channels set a User-Agent header themselves.               *)
ContextOfTheRun(n) == [ctx EXCEPT !["run"] = cfg.route[n], ![n] = cfg.route[n]]

SendContext(n) == [ctx EXCEPT ![n] = IF cfg.route[n] # None THEN cfg.route[n] ELSE ctx["run"]]

ChannelSend(n, header) ==
  /\ doing = "notify"
  /\ flight[n] = Idle
  /\ ctx' = SendContext(n)
  /\ flight' = [flight EXCEPT ![n] =
       Wire(ManagerChain(n, [BlankRequest EXCEPT !.header = header]))]
  /\ UNCHANGED <<cfg, doing, state, kept, jar, issued, learned, given>>

-----------------------------------------------------------------------------
(* An answer may set a cookie; the jar takes it when the headers are read. *)
TakesCookie(a) ==
  \/ UNCHANGED <<jar, given>>
  \/ /\ jar' = IF flight[a].scope = "mteam" THEN jar \cup {a} ELSE jar
     /\ given' = IF a \in MTeam THEN given \cup {a} ELSE given

(* The DID in an answer: none or empty, or a new one. *)
IssuedWith(d) == \/ d = NoDID /\ UNCHANGED issued
                 \/ issued < MaxDID /\ issued' = issued + 1 /\ d = issued'

Landed(a) == flight' = [flight EXCEPT ![a] = Idle]

(* IdentityHeaders on the way back, whatever the status of the answer. *)
UpdatedDID(d) == [state EXCEPT !.did = IF d = NoDID THEN @ ELSE d]

SessionAnswer ==
  /\ flight["browse"] # Idle
  /\ \E d \in {NoDID} \cup 2..MaxDID :
       /\ IssuedWith(d)
       /\ state' = UpdatedDID(d)
       /\ learned' = IF d = NoDID THEN learned ELSE d
  /\ TakesCookie("browse")
  /\ Landed("browse")
  /\ UNCHANGED <<cfg, ctx, doing, kept>>

(* A login that succeeds makes a new identity; the session is the next to  *)
(* send.  One that is refused leaves nothing.                              *)
LoginAnswer ==
  /\ flight["login"] # Idle
  /\ \E d \in {NoDID} \cup 2..MaxDID :
       /\ IssuedWith(d)
       /\ \/ /\ state' = [state EXCEPT !.token = "new",
                                       !.did = IF d = NoDID THEN flight["login"].did ELSE d]
             /\ learned' = state'.did
             /\ kept' = state'.did
             /\ doing' = "browse"
          \/ UNCHANGED <<state, kept, learned, doing>>
  /\ TakesCookie("login")
  /\ Landed("login")
  /\ UNCHANGED <<cfg, ctx>>

ChannelAnswer(n) ==
  /\ flight[n] # Idle
  /\ TakesCookie(n)
  /\ Landed(n)
  /\ UNCHANGED <<cfg, ctx, doing, state, kept, issued, learned>>

(* The request never arrives, its answer is lost, or its body is cut off   *)
(* or too long: RoundTrip returns an error and no response.  Cookies of    *)
(* headers that were read stay; a DID in them is lost.                     *)
Broken(a) ==
  /\ flight[a] # Idle
  /\ \E d \in IF a \in MTeam THEN {NoDID} \cup 2..MaxDID ELSE {NoDID} : IssuedWith(d)
  /\ TakesCookie(a)
  /\ Landed(a)
  /\ UNCHANGED <<cfg, ctx, doing, state, kept, learned>>

(* The DIDs a session may begin with: in password mode the last one, if it *)
(* was written back to the store, or else the one that is still there; in  *)
(* token mode the configured one, every time.                              *)
Resolved == IF cfg.mode = "token" THEN {kept} ELSE {kept, state.did}

(* Between requests the run turns to something else: a notification, the   *)
(* next session, or a login once the identity is erased.                   *)
Turn == /\ \A a \in Actors : flight[a] = Idle
        /\ \/ doing # "notify" /\ doing' = "notify" /\ UNCHANGED <<state, kept, learned>>
           \/ /\ doing # "browse" /\ doing' = "browse" /\ state.token # None
              /\ kept' \in Resolved
              /\ state' = [state EXCEPT !.did = kept']
              /\ learned' = kept'
           \/ /\ doing # "login" /\ doing' = "login" /\ cfg.mode = "password"
              /\ state' = NoIdentity
              /\ kept' = NoDID
              /\ learned' = NoDID
        /\ UNCHANGED <<cfg, ctx, flight, jar, issued, given>>

Next == \/ LoginSend \/ LoginAnswer \/ SessionAnswer \/ Turn
        \/ \E path \in {"unix", "other"} : SessionSend(path)
        \/ \E n \in Channels : ChannelAnswer(n) \/ \E h \in {None, "firefox"} : ChannelSend(n, h)
        \/ \E a \in Actors : Broken(a)

Spec == Init /\ [][Next]_vars

-----------------------------------------------------------------------------
OnWire(a) == flight[a] # Idle

(* A session presents its token, and the DID it began with until an answer *)
(* brings another, also when that answered a request without identity or   *)
(* was an error; the clock request /api/system/unix and a login present no *)
(* token, and the clock request no DID, although the session adds both.    *)
IdentityOnWire ==
  /\ OnWire("browse") =>
       /\ flight["browse"].visitor = state.visitor
       /\ IF flight["browse"].path = "unix"
            THEN flight["browse"].auth = None /\ flight["browse"].did = NoDID
            ELSE flight["browse"].auth = state.token /\ flight["browse"].did = learned
  /\ OnWire("login") => flight["login"].auth = None

(* Login and session share the cookies that either was given, as the       *)
(* README says; what a channel's service sets reaches neither, and no      *)
(* channel presents a cookie.                                              *)
CookiesStayHome ==
  \A a \in Actors : OnWire(a) => flight[a].cookies = IF a \in MTeam THEN given ELSE {}

(* The profile that imitates each browser. *)
BuiltFor == [firefox |-> "firefox_148", safari |-> "safari_16_0", chrome |-> "chrome_146",
             edge |-> "chrome_146", curl |-> "default"]

(* Each request takes its own way, also the ones of a session that follows *)
(* a notification: M-Team's through mt.proxy alone, a channel's through    *)
(* its own proxy or the system's.  And the TLS profile is the one of the   *)
(* browser that the User-Agent names, the configured one for M-Team.       *)
OwnRoute ==
  \A a \in Actors : OnWire(a) =>
    /\ flight[a].proxy = IF a \in MTeam THEN cfg.proxy ELSE cfg.route[a]
    /\ flight[a].profile = BuiltFor[flight[a].agent]
    /\ a \in MTeam /\ cfg.agent # None => flight[a].agent = cfg.agent

-----------------------------------------------------------------------------
(* The strengthening that makes the three properties inductive. *)
Proxies == {None, "mt", "own", "system"}

Requests == [auth : {None, "old", "new"}, did : Nat, visitor : {None, "id"},
             path : {"unix", "other"}, proxy : Proxies, scope : {None, "mteam"},
             cookies : SUBSET MTeam, agent : Agents,
             profile : {"firefox_148", "safari_16_0", "chrome_146", "default"}]

TypeOK == /\ cfg \in [mode : {"token", "password"}, proxy : {None, "mt"},
                      agent : Agents \cup {None}, route : [Channels -> {None, "own", "system"}]]
          /\ ctx \in [Channels \cup {"run"} -> Proxies]
          /\ doing \in MTeam \cup {"notify"}
          /\ state \in [token : {None, "old", "new"}, did : Nat, visitor : {"id"}]
          /\ flight \in [Actors -> {Idle} \cup Requests]
          /\ jar \subseteq MTeam
          /\ kept \in Nat
          /\ issued \in Nat
          /\ learned \in Nat
          /\ given \subseteq MTeam

(* A channel puts its proxy into a context of its own, never into the one  *)
(* that the run's requests take theirs from.                               *)
RunWithoutProxy == ctx["run"] = None

(* The session knows every DID it was told, and nobody but M-Team has put  *)
(* a cookie into its jar.                                                  *)
NothingLost == state.did = learned /\ jar = given

(* Login and session share identity and jar, yet neither changes them      *)
(* under a request of the other.                                           *)
OneAtATime == \A a \in MTeam : OnWire(a) => doing = a

ScopesApart ==
  \A a \in Actors : OnWire(a) => flight[a].scope = IF a \in MTeam THEN "mteam" ELSE None

IInv == /\ TypeOK
        /\ RunWithoutProxy
        /\ NothingLost
        /\ OneAtATime
        /\ ScopesApart
        /\ IdentityOnWire
        /\ CookiesStayHome
        /\ OwnRoute
=============================================================================
