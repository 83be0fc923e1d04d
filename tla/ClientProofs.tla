---------------------------- MODULE ClientProofs ----------------------------
(***************************************************************************)
(* What the clients put on the wire, in three parts:                       *)
(*   - the identity, the cookies, the proxy and the TLS profile of every   *)
(*     request, for any set of channels (module Pipeline);                 *)
(*   - the requests of a login and the identity it returns (module Login); *)
(*   - the time-outs and delays that the configuration turns into, for     *)
(*     Durations of any width (module Settings).                           *)
(***************************************************************************)
EXTENDS Pipeline, Login, Settings, Integers, Sequences, TLAPS

(* The profile that TLSClient chooses for each browser is the one built    *)
(* for it, although most User-Agents name several products.                *)
LEMMA ProfileBuilt ==
  ASSUME NEW u \in Agents
  PROVE  /\ profileForUserAgent(Products[u]) = BuiltFor[u]
         /\ BuiltFor[u] \in {"firefox_148", "safari_16_0", "chrome_146", "default"}
<1>0. u \in {"firefox", "safari", "chrome", "edge", "curl"}
  BY DEF Agents, Products
<1>1. CASE u = "firefox"
  BY <1>1 DEF Products, BuiltFor, profileForUserAgent
<1>2. CASE u = "safari"
  BY <1>2 DEF Products, BuiltFor, profileForUserAgent
<1>3. CASE u = "chrome"
  BY <1>3 DEF Products, BuiltFor, profileForUserAgent
<1>4. CASE u = "edge"
  BY <1>4 DEF Products, BuiltFor, profileForUserAgent
<1>5. CASE u = "curl"
  BY <1>5 DEF Products, BuiltFor, profileForUserAgent
<1> QED BY <1>0, <1>1, <1>2, <1>3, <1>4, <1>5

(* A request as the code builds it, before buildRequest. *)
Drafts == [path : {"unix", "other"}, auth : {None, "old", "new"}, did : Nat,
           visitor : {None, "id"}, proxy : Proxies, scope : {None, "mteam"},
           agent : Agents \cup {None}, header : Agents \cup {None}]

(* buildRequest keeps what the trippers decided, adds the cookies of the   *)
(* scope, and takes agent and profile together.                            *)
LEMMA WireKeeps ==
  ASSUME NEW req \in Drafts, jar \subseteq MTeam
  PROVE  /\ Wire(req) \in Requests
         /\ Wire(req) # Idle
         /\ Wire(req).auth = req.auth
         /\ Wire(req).did = req.did
         /\ Wire(req).visitor = req.visitor
         /\ Wire(req).path = req.path
         /\ Wire(req).proxy = req.proxy
         /\ Wire(req).scope = req.scope
         /\ Wire(req).cookies = IF req.scope = "mteam" THEN jar ELSE {}
         /\ Wire(req).profile = BuiltFor[Wire(req).agent]
         /\ req.agent # None => Wire(req).agent = req.agent
<1> DEFINE u == effectiveUserAgent(req)
<1>1. u \in Agents /\ (req.agent # None => u = req.agent)
  BY DEF effectiveUserAgent, Drafts, Agents, Products
<1>2. JarOf(req.scope) = IF req.scope = "mteam" THEN jar ELSE {}
  BY DEF JarOf
<1>3. /\ profileForUserAgent(Products[u]) = BuiltFor[u]
      /\ BuiltFor[u] \in {"firefox_148", "safari_16_0", "chrome_146", "default"}
  BY <1>1, ProfileBuilt
<1> HIDE DEF u
<1>4. Wire(req) = [auth |-> req.auth, did |-> req.did, visitor |-> req.visitor,
                   path |-> req.path, proxy |-> req.proxy, scope |-> req.scope,
                   cookies |-> JarOf(req.scope), agent |-> u, profile |-> BuiltFor[u]]
  BY <1>3 DEF Wire, u
<1>5. JarOf(req.scope) \in SUBSET MTeam
  BY <1>2
<1>6. Wire(req) \in Requests
  BY <1>1, <1>3, <1>4, <1>5 DEF Requests, Drafts
<1>7. Wire(req) # Idle
  BY <1>4 DEF Idle, Drafts
<1> QED BY <1>1, <1>2, <1>4, <1>6, <1>7

(* The chain of an M-Team client: mt.proxy, or the proxy of the context    *)
(* which is none, the scope of the shared jar, the configured agent, and   *)
(* no token for the clock.                                                 *)
LEMMA ChainMakes ==
  ASSUME TypeOK, RunWithoutProxy, NEW req \in Drafts
  PROVE  LET out == ClientChain(req)
         IN  /\ out \in Drafts
             /\ out.path = req.path
             /\ out.visitor = req.visitor
             /\ out.proxy = req.proxy
             /\ out.scope = "mteam"
             /\ out.agent = IF req.agent = None THEN cfg.agent ELSE req.agent
             /\ out.auth = IF req.path = "unix" THEN None ELSE req.auth
             /\ out.did = IF req.path = "unix" THEN NoDID ELSE req.did
<1>1. Proxy(req, ctx["run"]) = req
  BY DEF Proxy, RunWithoutProxy, Drafts
<1> DEFINE r1 == CookieScope(req)
<1>2. /\ r1 \in Drafts /\ r1.scope = "mteam"
      /\ r1.path = req.path /\ r1.visitor = req.visitor /\ r1.proxy = req.proxy
      /\ r1.agent = req.agent /\ r1.auth = req.auth /\ r1.did = req.did
  BY DEF CookieScope, Drafts
<1> DEFINE r2 == Headers(r1)
<1> HIDE DEF r1
<1>3. /\ r2 \in Drafts /\ r2.scope = "mteam"
      /\ r2.path = req.path /\ r2.visitor = req.visitor /\ r2.proxy = req.proxy
      /\ r2.agent = (IF req.agent = None THEN cfg.agent ELSE req.agent)
      /\ r2.auth = req.auth /\ r2.did = req.did
  <2>1. CASE r1.agent = None
    BY <1>2, <2>1 DEF Headers, Drafts, TypeOK
  <2>2. CASE r1.agent # None
    BY <1>2, <2>2 DEF Headers
  <2> QED BY <2>1, <2>2
<1> DEFINE r3 == UnixNoAuth(r2)
<1> HIDE DEF r2
<1>4. /\ r3 \in Drafts /\ r3.scope = "mteam"
      /\ r3.path = req.path /\ r3.visitor = req.visitor /\ r3.proxy = req.proxy
      /\ r3.agent = (IF req.agent = None THEN cfg.agent ELSE req.agent)
      /\ r3.auth = (IF req.path = "unix" THEN None ELSE req.auth)
      /\ r3.did = (IF req.path = "unix" THEN NoDID ELSE req.did)
  <2>1. CASE r2.path = "unix"
    BY <1>3, <2>1 DEF UnixNoAuth, Drafts, NoDID
  <2>2. CASE r2.path # "unix"
    BY <1>3, <2>2 DEF UnixNoAuth
  <2> QED BY <2>1, <2>2
<1>5. ClientChain(req) = r3
  BY <1>1 DEF ClientChain, r1, r2
<1> QED BY <1>4, <1>5

-----------------------------------------------------------------------------
(* What may go out: the properties of a request w of actor a.              *)
Proper(a, w) ==
  /\ w \in Requests
  /\ w # Idle
  /\ w.scope = IF a \in MTeam THEN "mteam" ELSE None
  /\ w.cookies = IF a \in MTeam THEN given ELSE {}
  /\ w.proxy = IF a \in MTeam THEN cfg.proxy ELSE cfg.route[a]
  /\ w.profile = BuiltFor[w.agent]
  /\ a \in MTeam /\ cfg.agent # None => w.agent = cfg.agent
  /\ a = "login" => w.auth = None
  /\ a = "browse" => /\ w.visitor = state.visitor
                     /\ IF w.path = "unix" THEN w.auth = None /\ w.did = NoDID
                        ELSE w.auth = state.token /\ w.did = learned

(* The invariant says of the wire that all on it is proper.                *)
LEMMA WireIsProper ==
  ASSUME TypeOK, ScopesApart, IdentityOnWire, CookiesStayHome, OwnRoute,
         NEW a \in Actors, OnWire(a)
  PROVE  Proper(a, flight[a])
<1>1. flight[a] \in Requests /\ flight[a] # Idle
  BY DEF TypeOK, OnWire
<1>2. /\ flight[a].scope = IF a \in MTeam THEN "mteam" ELSE None
      /\ flight[a].cookies = IF a \in MTeam THEN given ELSE {}
  BY DEF ScopesApart, CookiesStayHome
<1>3. /\ flight[a].proxy = IF a \in MTeam THEN cfg.proxy ELSE cfg.route[a]
      /\ flight[a].profile = BuiltFor[flight[a].agent]
      /\ a \in MTeam /\ cfg.agent # None => flight[a].agent = cfg.agent
  BY DEF OwnRoute
<1>4. a = "login" => flight[a].auth = None
  BY DEF IdentityOnWire
<1>5. a = "browse" => /\ flight[a].visitor = state.visitor
                      /\ IF flight[a].path = "unix"
                           THEN flight[a].auth = None /\ flight[a].did = NoDID
                           ELSE flight[a].auth = state.token /\ flight[a].did = learned
  BY DEF IdentityOnWire
<1> QED BY <1>1, <1>2, <1>3, <1>4, <1>5 DEF Proper

(* And after a step: it is enough that all on the wire is proper then.     *)
LEMMA ProperSuffices ==
  ASSUME \A a \in Actors : OnWire(a)' => Proper(a, flight[a])'
  PROVE  (ScopesApart /\ IdentityOnWire /\ CookiesStayHome /\ OwnRoute)'
<1>1. "login" \in Actors /\ "browse" \in Actors
  BY DEF Actors, MTeam
<1>2. ScopesApart' /\ CookiesStayHome'
  BY DEF ScopesApart, CookiesStayHome, Proper
<1>3. OwnRoute'
  BY DEF OwnRoute, Proper
<1>4. IdentityOnWire'
  BY <1>1 DEF IdentityOnWire, Proper
<1> QED BY <1>2, <1>3, <1>4

(* Sending a proper request keeps the invariant. *)
LEMMA SendIInv ==
  ASSUME IInv, NEW a \in Actors, NEW w, Proper(a, w),
         flight' = [flight EXCEPT ![a] = w],
         a \in MTeam => doing = a,
         ctx' \in [Channels \cup {"run"} -> Proxies], ctx'["run"] = None,
         UNCHANGED <<cfg, doing, state, kept, jar, issued, learned, given>>
  PROVE  IInv'
<1>1. TypeOK /\ RunWithoutProxy /\ NothingLost /\ OneAtATime
  BY DEF IInv
<1>2. w \in Requests /\ flight'[a] = w /\ \A b \in Actors \ {a} : flight'[b] = flight[b]
  BY <1>1 DEF Proper, TypeOK
<1>3. TypeOK'
  BY <1>1, <1>2 DEF TypeOK
<1>4. RunWithoutProxy' /\ NothingLost'
  BY <1>1 DEF RunWithoutProxy, NothingLost
<1>5. OneAtATime'
  BY <1>1, <1>2 DEF OneAtATime, OnWire, Actors
<1>6. \A b \in Actors : OnWire(b) => Proper(b, flight[b])
  BY <1>1, WireIsProper DEF IInv
<1>7. ASSUME NEW b \in Actors, OnWire(b)' PROVE Proper(b, flight[b])'
  <2>1. CASE b = a
    <3>1. flight'[b] = w
      BY <2>1, <1>2
    <3> QED BY <2>1, <3>1 DEF Proper
  <2>2. CASE b # a
    <3>1. flight'[b] = flight[b] /\ Proper(b, flight[b])
      BY <2>2, <1>2, <1>6, <1>7 DEF OnWire
    <3> QED BY <3>1 DEF Proper
  <2> QED BY <2>1, <2>2
<1>8. (ScopesApart /\ IdentityOnWire /\ CookiesStayHome /\ OwnRoute)'
  BY <1>7, ProperSuffices
<1> QED BY <1>3, <1>4, <1>5, <1>8 DEF IInv

(* The end of a request keeps the invariant: the cookies it brings are     *)
(* M-Team's and no other M-Team request is under way, so what it changes   *)
(* is on no wire.                                                          *)
LEMMA LandsIInv ==
  ASSUME IInv, NEW a \in Actors, OnWire(a), TakesCookie(a), Landed(a),
         UNCHANGED <<cfg, ctx>>,
         issued' \in Nat, learned' \in Nat, kept' \in Nat, doing' \in MTeam \cup {"notify"},
         state' \in [token : {None, "old", "new"}, did : Nat, visitor : {"id"}],
         state'.did = learned',
         a \in Channels => UNCHANGED <<state, learned, doing>>
  PROVE  IInv'
<1>1. TypeOK /\ RunWithoutProxy /\ NothingLost /\ OneAtATime
  BY DEF IInv
<1>2. \A b \in Actors : OnWire(b) => Proper(b, flight[b])
  BY <1>1, WireIsProper DEF IInv
<1>3. flight'[a] = Idle /\ \A b \in Actors \ {a} : flight'[b] = flight[b]
  BY <1>1 DEF Landed, TypeOK
<1>4. jar' = given' /\ jar' \subseteq MTeam
  BY <1>1, <1>2 DEF TakesCookie, Proper, NothingLost, TypeOK, None
<1>5. TypeOK'
  <2>1. flight' \in [Actors -> {Idle} \cup Requests]
    BY <1>1 DEF Landed, TypeOK
  <2> QED BY <1>1, <1>4, <2>1 DEF TypeOK
<1>6. RunWithoutProxy' /\ NothingLost'
  BY <1>1, <1>4 DEF RunWithoutProxy, NothingLost
<1>7. ASSUME NEW b \in MTeam, OnWire(b)' PROVE b # a /\ a \in Channels /\ doing = b
  BY <1>1, <1>3, <1>7 DEF OneAtATime, OnWire, Actors
<1>8. OneAtATime'
  BY <1>7 DEF OneAtATime
<1>9. ASSUME NEW b \in Actors, OnWire(b)' PROVE Proper(b, flight[b])'
  <2>1. flight'[b] = flight[b] /\ Proper(b, flight[b])
    BY <1>2, <1>3, <1>9 DEF OnWire
  <2>2. CASE b \in MTeam
    <3>1. a \in Channels /\ a \notin MTeam
      BY <1>7, <1>9, <2>2, PipelineAssumption DEF MTeam
    <3>2. UNCHANGED <<given, state, learned>>
      BY <3>1 DEF TakesCookie
    <3> QED BY <2>1, <3>2 DEF Proper
  <2>3. CASE b \notin MTeam
    BY <2>1, <2>3 DEF Proper, MTeam
  <2> QED BY <2>2, <2>3
<1>10. (ScopesApart /\ IdentityOnWire /\ CookiesStayHome /\ OwnRoute)'
  BY <1>9, ProperSuffices
<1> QED BY <1>5, <1>6, <1>8, <1>10 DEF IInv

-----------------------------------------------------------------------------
(* A login presents no token, and a session its newest identity but for    *)
(* the clock request.                                                      *)
LEMMA LoginSendIInv == IInv /\ LoginSend => IInv'
<1> SUFFICES ASSUME IInv, LoginSend PROVE IInv'
  OBVIOUS
<1>1. TypeOK /\ RunWithoutProxy /\ NothingLost
  BY DEF IInv
<1> DEFINE req == [baseRequest EXCEPT !.did = 1, !.visitor = state.visitor]
<1>2. /\ req \in Drafts /\ req.path = "other" /\ req.auth = None
      /\ req.proxy = cfg.proxy /\ req.agent = None
  BY <1>1 DEF TypeOK, baseRequest, BlankRequest, Drafts, Proxies, NoDID, None
<1> HIDE DEF req
<1> DEFINE out == ClientChain(req)
<1>3. /\ out \in Drafts /\ out.path = "other" /\ out.proxy = cfg.proxy
      /\ out.scope = "mteam" /\ out.agent = cfg.agent /\ out.auth = None
  BY <1>1, <1>2, ChainMakes
<1> HIDE DEF out
<1>4. Proper("login", Wire(out))
  BY <1>1, <1>3, WireKeeps DEF Proper, MTeam, TypeOK, NothingLost
<1>5. flight' = [flight EXCEPT !["login"] = Wire(out)]
  BY DEF LoginSend, req, out
<1>6. /\ "login" \in Actors /\ doing = "login"
      /\ UNCHANGED <<cfg, ctx, doing, state, kept, jar, issued, learned, given>>
  BY DEF LoginSend, Actors, MTeam
<1> QED BY <1>1, <1>4, <1>5, <1>6, SendIInv DEF TypeOK, RunWithoutProxy

(* Session.do: IdentityHeaders first, and the clock request loses what it  *)
(* has added at the end of the chain.                                      *)
LEMMA SessionSendIInv ==
  ASSUME IInv, NEW path \in {"unix", "other"}, SessionSend(path)
  PROVE  IInv'
<1>1. TypeOK /\ RunWithoutProxy /\ NothingLost
  BY DEF IInv
<1> DEFINE req == IdentityHeaders([baseRequest EXCEPT !.path = path])
<1>2. /\ req \in Drafts /\ req.path = path /\ req.auth = state.token
      /\ req.did = state.did /\ req.visitor = state.visitor
      /\ req.proxy = cfg.proxy /\ req.agent = None
  BY <1>1 DEF TypeOK, IdentityHeaders, baseRequest, BlankRequest, Drafts, Proxies, NoDID, None
<1> HIDE DEF req
<1> DEFINE out == ClientChain(req)
<1>3. /\ out \in Drafts /\ out.path = path /\ out.proxy = cfg.proxy
      /\ out.visitor = state.visitor
      /\ out.scope = "mteam" /\ out.agent = cfg.agent
      /\ out.auth = (IF path = "unix" THEN None ELSE state.token)
      /\ out.did = (IF path = "unix" THEN NoDID ELSE state.did)
  BY <1>1, <1>2, ChainMakes
<1> HIDE DEF out
<1>4. Proper("browse", Wire(out))
  BY <1>1, <1>3, WireKeeps DEF Proper, MTeam, TypeOK, NothingLost
<1>5. flight' = [flight EXCEPT !["browse"] = Wire(out)]
  BY DEF SessionSend, SessionChain, req, out
<1>6. /\ "browse" \in Actors /\ doing = "browse"
      /\ UNCHANGED <<cfg, ctx, doing, state, kept, jar, issued, learned, given>>
  BY DEF SessionSend, Actors, MTeam
<1> QED BY <1>1, <1>4, <1>5, <1>6, SendIInv DEF TypeOK, RunWithoutProxy

(* A channel takes its proxy from a context of its own and has no scope.   *)
LEMMA ChannelSendIInv ==
  ASSUME IInv, NEW n \in Channels, NEW h \in {None, "firefox"}, ChannelSend(n, h)
  PROVE  IInv'
<1>1. TypeOK /\ RunWithoutProxy /\ NothingLost
  BY DEF IInv
<1>2. n \in Actors /\ n # "run" /\ n \notin MTeam
  BY PipelineAssumption DEF Actors, MTeam
<1>3. ctx' = [ctx EXCEPT ![n] = cfg.route[n]] /\ cfg.route[n] \in {None, "own", "system"}
  BY <1>1 DEF ChannelSend, SendContext, TypeOK, RunWithoutProxy
<1>4. /\ ctx' \in [Channels \cup {"run"} -> Proxies]
      /\ ctx'["run"] = None /\ ctx'[n] = cfg.route[n]
  BY <1>1, <1>2, <1>3 DEF TypeOK, RunWithoutProxy, Proxies
<1> DEFINE req == [BlankRequest EXCEPT !.header = h]
<1>5. /\ req \in Drafts /\ req.proxy = None /\ req.scope = None
  BY DEF BlankRequest, Drafts, Proxies, NoDID, None, Agents, Products
<1> HIDE DEF req
<1> DEFINE out == ManagerChain(n, req)
<1>6. out \in Drafts /\ out.proxy = cfg.route[n] /\ out.scope = None
  BY <1>3, <1>4, <1>5 DEF ManagerChain, Proxy, Drafts, Proxies
<1> HIDE DEF out
<1>7. Proper(n, Wire(out))
  BY <1>1, <1>2, <1>6, WireKeeps DEF Proper, MTeam, TypeOK, None
<1>8. /\ flight' = [flight EXCEPT ![n] = Wire(out)]
      /\ UNCHANGED <<cfg, doing, state, kept, jar, issued, learned, given>>
  BY DEF ChannelSend, req, out
<1> QED BY <1>2, <1>4, <1>7, <1>8, SendIInv

(* The DID of an answer is none or a number of its own. *)
LEMMA IssuedNat ==
  ASSUME TypeOK, NEW d \in {NoDID} \cup 2..MaxDID, IssuedWith(d)
  PROVE  d \in Nat /\ issued' \in Nat
BY PipelineAssumption DEF IssuedWith, TypeOK, NoDID

(* Every answer, and every request that breaks off, keeps the invariant.   *)
LEMMA AnswerIInv ==
  ASSUME IInv,
         LoginAnswer \/ SessionAnswer \/ (\E n \in Channels : ChannelAnswer(n))
           \/ (\E a \in Actors : Broken(a))
  PROVE  IInv'
<1>1. TypeOK /\ NothingLost
  BY DEF IInv
<1>2. CASE SessionAnswer
  <2>1. PICK d \in {NoDID} \cup 2..MaxDID :
          /\ IssuedWith(d) /\ state' = UpdatedDID(d)
          /\ learned' = IF d = NoDID THEN learned ELSE d
    BY <1>2 DEF SessionAnswer
  <2>2. d \in Nat /\ issued' \in Nat
    BY <1>1, <2>1, IssuedNat
  <2>3. /\ state' \in [token : {None, "old", "new"}, did : Nat, visitor : {"id"}]
        /\ learned' \in Nat /\ state'.did = learned'
    BY <1>1, <2>1, <2>2 DEF UpdatedDID, TypeOK, NothingLost
  <2>4. /\ "browse" \in Actors /\ "browse" \notin Channels /\ OnWire("browse")
        /\ TakesCookie("browse") /\ Landed("browse")
        /\ UNCHANGED <<cfg, ctx, doing, kept>>
    BY <1>2, PipelineAssumption DEF SessionAnswer, Actors, MTeam, OnWire
  <2> QED BY <1>1, <2>2, <2>3, <2>4, LandsIInv DEF TypeOK
<1>3. CASE LoginAnswer
  <2>1. PICK d \in {NoDID} \cup 2..MaxDID :
          /\ IssuedWith(d)
          /\ \/ /\ state' = [state EXCEPT !.token = "new",
                                !.did = IF d = NoDID THEN flight["login"].did ELSE d]
                /\ learned' = state'.did /\ kept' = state'.did
                /\ doing' = "browse"
             \/ UNCHANGED <<state, kept, learned, doing>>
    BY <1>3 DEF LoginAnswer
  <2>2. d \in Nat /\ issued' \in Nat
    BY <1>1, <2>1, IssuedNat
  <2>3. /\ "login" \in Actors /\ "login" \notin Channels /\ OnWire("login")
        /\ TakesCookie("login") /\ Landed("login") /\ UNCHANGED <<cfg, ctx>>
    BY <1>3, PipelineAssumption DEF LoginAnswer, Actors, MTeam, OnWire
  <2>4. flight["login"].did \in Nat
    BY <1>1, <2>3 DEF TypeOK, OnWire, Requests
  <2>5. /\ state' \in [token : {None, "old", "new"}, did : Nat, visitor : {"id"}]
        /\ learned' \in Nat /\ kept' \in Nat /\ state'.did = learned'
        /\ doing' \in MTeam \cup {"notify"}
    <3>1. CASE UNCHANGED <<state, kept, learned, doing>>
      BY <1>1, <3>1 DEF TypeOK, NothingLost
    <3>2. CASE ~UNCHANGED <<state, kept, learned, doing>>
      <4> DEFINE did == IF d = NoDID THEN flight["login"].did ELSE d
      <4>1. did \in Nat
        BY <2>2, <2>4
      <4>2. /\ state' = [state EXCEPT !.token = "new", !.did = did]
            /\ learned' = state'.did /\ kept' = state'.did /\ doing' = "browse"
        BY <2>1, <3>2
      <4> HIDE DEF did
      <4> QED BY <1>1, <4>1, <4>2 DEF TypeOK, MTeam
    <3> QED BY <3>1, <3>2
  <2> QED BY <2>2, <2>3, <2>5, LandsIInv
<1>4. ASSUME NEW n \in Channels, ChannelAnswer(n) PROVE IInv'
  BY <1>1, <1>4, LandsIInv DEF ChannelAnswer, TypeOK, NothingLost, Actors, OnWire
<1>5. ASSUME NEW a \in Actors, Broken(a) PROVE IInv'
  <2>1. issued' \in Nat
    BY <1>1, <1>5, IssuedNat DEF Broken
  <2> QED BY <1>1, <1>5, <2>1, LandsIInv DEF Broken, TypeOK, NothingLost, OnWire
<1> QED BY <1>2, <1>3, <1>4, <1>5

(* Turning to a login or the next session with nothing on the wire.        *)
LEMMA TurnIInv == IInv /\ Turn => IInv'
<1> SUFFICES ASSUME IInv, Turn PROVE IInv'
  OBVIOUS
<1>1. TypeOK /\ RunWithoutProxy /\ NothingLost
  BY DEF IInv
<1>2. \A a \in Actors : ~OnWire(a)'
  BY DEF Turn, OnWire
<1>3. /\ state' \in [token : {None, "old", "new"}, did : Nat, visitor : {"id"}]
      /\ learned' \in Nat /\ kept' \in Nat /\ state'.did = learned'
      /\ doing' \in MTeam \cup {"notify"}
  BY <1>1 DEF Turn, Resolved, TypeOK, NothingLost, NoIdentity, NoDID, MTeam
<1>4. TypeOK' /\ RunWithoutProxy' /\ NothingLost'
  BY <1>1, <1>3 DEF Turn, TypeOK, RunWithoutProxy, NothingLost
<1>5. OneAtATime'
  BY <1>2 DEF OneAtATime, Actors
<1>6. (ScopesApart /\ IdentityOnWire /\ CookiesStayHome /\ OwnRoute)'
  BY <1>2, ProperSuffices
<1> QED BY <1>4, <1>5, <1>6 DEF IInv

(* Every step keeps the invariant. *)
LEMMA NextIInv == IInv /\ [Next]_vars => IInv'
<1> SUFFICES ASSUME IInv, [Next]_vars PROVE IInv'
  OBVIOUS
<1>1. CASE UNCHANGED vars
  BY <1>1
     DEF vars, IInv, TypeOK, RunWithoutProxy, NothingLost, OneAtATime, ScopesApart,
         IdentityOnWire, CookiesStayHome, OwnRoute, OnWire
<1>2. CASE Next
  BY <1>2, LoginSendIInv, SessionSendIInv, ChannelSendIInv, AnswerIInv, TurnIInv DEF Next
<1> QED BY <1>1, <1>2

(* It holds at first: nothing is on the wire. *)
LEMMA InitIInv == Init => IInv
<1> SUFFICES ASSUME Init PROVE IInv
  OBVIOUS
<1>1. \A a \in Actors : flight[a] = Idle
  BY DEF Init
<1>2. cfg \in [mode : {"token", "password"}, proxy : {None, "mt"},
               agent : Agents \cup {None}, route : [Channels -> {None, "own", "system"}]]
  <2>0. cfg \in Configs
    BY DEF Init
  <2>1. PICK m \in {"token", "password"}, p \in {None, "mt"}, u \in Agents \cup {None},
             s \in {None, "system"}, asking \in SUBSET Channels :
          cfg = [mode |-> m, proxy |-> p, agent |-> u,
                 route |-> [n \in Channels |-> telegramProxy(n, s, n \in asking)]]
    BY <2>0, SMTT(60) DEF Configs
  <2>2. [n \in Channels |-> telegramProxy(n, s, n \in asking)]
          \in [Channels -> {None, "own", "system"}]
    BY DEF telegramProxy
  <2> QED BY <2>1, <2>2
<1>3. /\ state \in [token : {None, "old", "new"}, did : Nat, visitor : {"id"}]
      /\ doing \in MTeam \cup {"notify"}
      /\ learned = state.did /\ kept = state.did
  BY DEF Init, NoIdentity, NoDID, MTeam
<1>4. ctx \in [Channels \cup {"run"} -> Proxies] /\ ctx["run"] = None
  BY DEF Init, Proxies
<1>5. TypeOK
  BY <1>1, <1>2, <1>3, <1>4 DEF Init, TypeOK
<1>6. RunWithoutProxy /\ NothingLost
  BY <1>3, <1>4 DEF Init, RunWithoutProxy, NothingLost
<1>7. "login" \in Actors /\ "browse" \in Actors
  BY DEF Actors, MTeam
<1>8. OneAtATime /\ ScopesApart /\ CookiesStayHome /\ OwnRoute /\ IdentityOnWire
  BY <1>1, <1>7
     DEF OneAtATime, ScopesApart, CookiesStayHome, OwnRoute, IdentityOnWire, OnWire, Actors
<1> QED BY <1>5, <1>6, <1>8 DEF IInv

(* Every session request presents the session's newest identity, and the   *)
(* clock request and a login present no token.                             *)
THEOREM IdentityOnWireHolds == Spec => []IdentityOnWire
BY InitIInv, NextIInv, PTL DEF Spec, IInv

(* M-Team gets the cookies it gave and nobody else gets any.               *)
THEOREM CookiesStayHomeHolds == Spec => []CookiesStayHome
BY InitIInv, NextIInv, PTL DEF Spec, IInv

(* Each request goes through its own proxy, with the TLS profile of the    *)
(* browser that its User-Agent names.                                      *)
THEOREM OwnRouteHolds == Spec => []OwnRoute
BY InitIInv, NextIInv, PTL DEF Spec, IInv

-----------------------------------------------------------------------------
(* A login, request by request, with its credentials and the identity it   *)
(* returns.                                                                *)

(* Before a login nothing is sent.                                         *)
LEMMA LoginInitInv == LoginInit => LoginInv
<1> SUFFICES ASSUME LoginInit PROVE LoginInv
  OBVIOUS
<1> USE DEF LoginInit
<1>1. NoState \in [token : Nat, did : DIDs]
  BY DEF NoState, DIDs
<1>2. LoginTypeOK
  <2> DEFINE Sent == [did : DIDs, otp : BOOLEAN]
  <2>1. sent \in Seq(Sent)
    <3> HIDE DEF Sent
    <3> QED OBVIOUS
  <2>2. otp \in BOOLEAN /\ ctxDone \in BOOLEAN
    OBVIOUS
  <2>3. /\ credentials \in Credentials /\ err \in Errors
        /\ pc \in Steps
        /\ endedAt \in [step : Steps, sent : Nat]
    BY DEF Errors, Steps
  <2> QED BY <1>1, <2>1, <2>2, <2>3 DEF LoginTypeOK
<1>3. SentSoFar /\ OwnDIDs /\ ByPassword
  BY DEF SentSoFar, OwnDIDs, ByPassword
<1>4. GrantedOrError /\ LoginRequests /\ PastTheCheck /\ LateRequest
  BY DEF GrantedOrError, LoginRequests, PastTheCheck, LateRequest
<1> QED BY <1>2, <1>3, <1>4 DEF LoginInv

(* A step that returns an error and no identity, or goes on without        *)
(* sending anything, leaves the requests as they are.                      *)
LEMMA LoginQuiet ==
  ASSUME LoginInv, UNCHANGED <<credentials, sent>>,
         otp' \in BOOLEAN, granted' \in [token : Nat, did : DIDs],
         pc' \in Steps, pc' = "do" => pc = "do" \/ ~ctxDone,
         \/ UNCHANGED <<ctxDone, endedAt>>
         \/ ctxDone' = TRUE /\ UNCHANGED pc /\ endedAt' = [step |-> pc, sent |-> Len(sent)],
         err' \in Errors, identity' \in [token : Nat, did : DIDs],
         SentSoFar',
         pc' \in {"prepare", "send", "do", "receive"} => ~HasTokenPartial(credentials),
         GrantedOrError'
  PROVE  LoginInv'
<1>0. Len(sent) \in Nat
  BY DEF LoginInv, LoginTypeOK
<1>4. ctxDone' \in BOOLEAN /\ endedAt' \in [step : Steps, sent : Nat]
  <2>1. CASE UNCHANGED <<ctxDone, endedAt>>
    BY <2>1 DEF LoginInv, LoginTypeOK
  <2>2. CASE ctxDone' = TRUE /\ UNCHANGED pc /\ endedAt' = [step |-> pc, sent |-> Len(sent)]
    BY <1>0, <2>2 DEF LoginInv, LoginTypeOK
  <2> QED BY <2>1, <2>2
<1>5. PastTheCheck' /\ LateRequest'
  <2>1. CASE UNCHANGED <<ctxDone, endedAt>>
    BY <2>1 DEF LoginInv, PastTheCheck, LateRequest
  <2>2. CASE ctxDone' = TRUE /\ UNCHANGED pc /\ endedAt' = [step |-> pc, sent |-> Len(sent)]
    BY <1>0, <2>2 DEF PastTheCheck, LateRequest
  <2> QED BY <2>1, <2>2
<1>1. LoginTypeOK'
  BY <1>4 DEF LoginInv, LoginTypeOK
<1>2. OwnDIDs' /\ LoginRequests'
  BY DEF LoginInv, OwnDIDs, LoginRequests
<1>3. ByPassword'
  BY DEF LoginInv, ByPassword
<1> QED BY <1>1, <1>2, <1>3, <1>5 DEF LoginInv

(* Start, Prepare, RoundTrip up to the call of client.Do, NoResponse,      *)
(* ContextEnds and Ended send nothing.                                     *)
LEMMA LoginQuietSteps ==
  ASSUME LoginInv,
         \/ Start \/ Prepare \/ RoundTrip \/ NoResponse \/ ContextEnds
         \/ Ended
  PROVE  LoginInv'
<1> USE DEF LoginInv, LoginTypeOK
<1>0. NoState \in [token : Nat, did : DIDs]
  BY DEF NoState, DIDs
<1>1. UNCHANGED <<credentials, sent, otp, granted>>
  BY DEF Start, Prepare, RoundTrip, NoResponse, ContextEnds, Ended,
         loginVars
<1>2. \/ UNCHANGED <<ctxDone, endedAt>>
      \/ ctxDone' = TRUE /\ UNCHANGED pc /\ endedAt' = [step |-> pc, sent |-> Len(sent)]
  BY DEF Start, Prepare, RoundTrip, NoResponse, ContextEnds, Ended, loginVars
<1>3. CASE Start
  <2>1. pc = "start" /\ pc' = IF HasTokenPartial(credentials) THEN "notNeeded" ELSE "prepare"
    BY <1>3 DEF Start
  <2>2. UNCHANGED <<err, identity>>
    BY <1>3 DEF Start
  <2>3. SentSoFar'
    BY <1>1, <2>1 DEF SentSoFar
  <2>4. GrantedOrError'
    BY <2>1 DEF GrantedOrError
  <2> QED BY <1>1, <1>2, <2>1, <2>2, <2>3, <2>4, LoginQuiet DEF Steps
<1>4. CASE Prepare \/ RoundTrip \/ NoResponse
  <2>1. \/ pc' = "ended" /\ err' \in {"ctx", "other"} /\ identity' = NoState
        \/ pc = "prepare" /\ pc' = "send" /\ UNCHANGED <<err, identity>>
        \/ pc = "send" /\ pc' = "do" /\ ~ctxDone /\ UNCHANGED <<err, identity>>
    BY <1>4 DEF Prepare, RoundTrip, NoResponse, Return
  <2>2. err' \in Errors /\ identity' \in [token : Nat, did : DIDs]
    BY <1>0, <2>1 DEF Errors
  <2>3. SentSoFar'
    BY <1>1, <2>1 DEF SentSoFar
  <2>4. GrantedOrError'
    BY <2>1 DEF GrantedOrError
  <2>5. pc' \in {"prepare", "send", "do", "receive"} => ~HasTokenPartial(credentials)
    BY <2>1 DEF ByPassword
  <2> QED BY <1>1, <1>2, <2>1, <2>2, <2>3, <2>4, <2>5, LoginQuiet DEF Steps
<1>5. CASE ContextEnds \/ Ended
  <2>1. UNCHANGED <<pc, err, identity>>
    BY <1>5 DEF ContextEnds, Ended, loginVars
  <2>2. SentSoFar' /\ GrantedOrError'
    BY <1>1, <2>1 DEF SentSoFar, GrantedOrError
  <2> QED BY <1>1, <1>2, <2>1, <2>2, LoginQuiet DEF ByPassword
<1> QED BY <1>3, <1>4, <1>5

(* A request goes out as the first or, with a code, as the second, and     *)
(* with the context alive when RoundTrip looked at it.                     *)
LEMMA LoginSends == LoginInv /\ Do => LoginInv'
<1> SUFFICES ASSUME LoginInv, Do PROVE LoginInv'
  OBVIOUS
<1> USE DEF LoginInv, LoginTypeOK
<1>0. NoState \in [token : Nat, did : DIDs]
  BY DEF NoState, DIDs
<1>1. pc = "do" /\ UNCHANGED <<credentials, otp, ctxDone, granted, endedAt>>
  BY DEF Do
<1>2. CASE pc' = "ended"
  <2>1. /\ pc' = "ended" /\ err' \in {"ctx", "other"} /\ identity' = NoState
        /\ UNCHANGED sent
    BY <1>2 DEF Do, Return
  <2>2. SentSoFar' /\ GrantedOrError'
    BY <2>1 DEF SentSoFar, GrantedOrError
  <2> QED BY <1>0, <1>1, <2>1, <2>2, LoginQuiet DEF Errors, Steps
<1>3. CASE pc' # "ended"
  <2> DEFINE req == [did |-> [from |-> "client", request |-> Len(sent) + 1], otp |-> otp]
             Sent == [did : DIDs, otp : BOOLEAN]
  <2>1. sent' = Append(sent, req) /\ pc' = "receive" /\ UNCHANGED <<err, identity>>
    BY <1>3 DEF Do, Return
  <2>2. sent \in Seq(Sent) /\ Len(sent) \in Nat
    OBVIOUS
  <2>3. req \in Sent
    BY <2>2 DEF DIDs
  <2>4. /\ req.did = [from |-> "client", request |-> Len(sent) + 1] /\ (req.otp <=> otp)
    OBVIOUS
  <2>5. Len(sent) = IF otp THEN 1 ELSE 0
    BY <1>1 DEF SentSoFar
  <2> HIDE DEF req, Sent
  <2>6. /\ sent' \in Seq(Sent) /\ Len(sent') = Len(sent) + 1
        /\ sent'[Len(sent) + 1] = req
        /\ \A k \in 1..Len(sent) : sent'[k] = sent[k]
    BY <2>1, <2>2, <2>3
  <2>7. LoginTypeOK'
    BY <1>1, <2>1, <2>6 DEF Sent, Steps
  <2>8. SentSoFar' /\ GrantedOrError' /\ ByPassword'
    BY <1>1, <2>1, <2>5, <2>6 DEF SentSoFar, GrantedOrError, ByPassword
  <2>9. OwnDIDs'
    <3> SUFFICES ASSUME NEW k \in 1..Len(sent')
                 PROVE  sent'[k].did = [from |-> "client", request |-> k]
      BY DEF OwnDIDs
    <3>1. k \in 1..Len(sent) \/ k = Len(sent) + 1
      BY <2>2, <2>6
    <3> QED BY <3>1, <2>4, <2>6 DEF OwnDIDs
  <2>10. LoginRequests'
    <3>1. Len(sent') <= 2
      BY <2>5, <2>6
    <3>2. ASSUME NEW k \in 1..Len(sent') PROVE sent'[k].otp <=> k = 2
      <4>1. CASE otp
        <5>1. Len(sent) = 1 /\ (k = 1 \/ k = 2)
          BY <2>5, <2>6, <4>1
        <5> QED BY <5>1, <4>1, <2>4, <2>6 DEF LoginRequests
      <4>2. CASE ~otp
        <5>1. Len(sent) = 0 /\ k = 1
          BY <2>5, <2>6, <4>2
        <5> QED BY <5>1, <4>2, <2>4, <2>6
      <4> QED BY <4>1, <4>2
    <3>3. HasPassword(credentials) /\ ~HasTokenPartial(credentials)
      BY <1>1 DEF ByPassword, ValidateLogin, HasToken, HasTokenPartial
    <3> QED BY <1>1, <3>1, <3>2, <3>3 DEF LoginRequests
  <2>11. PastTheCheck' /\ LateRequest'
    BY <1>1, <2>1, <2>2, <2>6 DEF PastTheCheck, LateRequest
  <2> QED BY <2>7, <2>8, <2>9, <2>10, <2>11
<1> QED BY <1>2, <1>3

(* What login makes of an answer without error is what the server granted  *)
(* with it, the DID of the request included when the answer has none.      *)
LEMMA LoginGrants ==
  ASSUME LoginInv, pc = "receive", NEW r \in Responses
  PROVE  /\ ServerGrants(r) \in [token : Nat, did : DIDs]
         /\ LoginError(r) \in Errors
         /\ LoginError(r) = "nil" =>
              /\ Grant(r) = ServerGrants(r)
              /\ Grant(r).token = Len(sent)
              /\ Grant(r) # NoState
<1>1. Len(sent) \in Nat /\ Len(sent) > 0 /\ Len(sent) \in 1..Len(sent)
  <2>1. Len(sent) \in Nat
    BY DEF LoginInv, LoginTypeOK
  <2>2. Len(sent) = IF otp THEN 2 ELSE 1
    BY DEF LoginInv, SentSoFar
  <2>3. Len(sent) = 1 \/ Len(sent) = 2
    BY <2>2
  <2> QED BY <2>1, <2>3
<1>2. sent[Len(sent)].did = [from |-> "client", request |-> Len(sent)]
  BY <1>1 DEF LoginInv, OwnDIDs
<1>3. /\ [from |-> "client", request |-> Len(sent)] \in DIDs
      /\ [from |-> "server", request |-> Len(sent)] \in DIDs
      /\ NoState \in [token : Nat, did : DIDs]
  BY <1>1 DEF DIDs, NoState
<1>4. ServerGrants(r) \in [token : Nat, did : DIDs]
  <2>1. CASE r.did = "set"
    BY <1>1, <1>3, <2>1 DEF ServerGrants
  <2>2. CASE r.did # "set"
    BY <1>1, <1>3, <2>2 DEF ServerGrants
  <2> QED BY <2>1, <2>2
<1>5. LoginError(r) \in Errors
  BY DEF LoginError, ParseResponse, Errors
<1>6. ASSUME LoginError(r) = "nil"
      PROVE  r.status = 200 /\ r.code = "0" /\ r.token # "blank"
  BY <1>6 DEF LoginError, ParseResponse
<1>7. ASSUME LoginError(r) = "nil" PROVE Grant(r) = ServerGrants(r)
  <2>1. CASE r.did = "set"
    BY <1>6, <1>7, <2>1 DEF Grant, ServerGrants
  <2>2. CASE r.did # "set"
    BY <1>2, <1>6, <1>7, <2>2 DEF Grant, ServerGrants
  <2> QED BY <2>1, <2>2
<1>8. Grant(r).token = Len(sent) /\ NoState.token = 0
  BY DEF Grant, NoState
<1> QED BY <1>1, <1>4, <1>5, <1>7, <1>8

(* An answer ends the login, or asks for the code of a second attempt.     *)
LEMMA LoginReceives == LoginInv /\ Receive => LoginInv'
<1> SUFFICES ASSUME LoginInv, Receive PROVE LoginInv'
  OBVIOUS
<1>0. /\ LoginTypeOK
      /\ NoState \in [token : Nat, did : DIDs]
  BY DEF LoginInv, NoState, DIDs
<1>1. PICK r \in Responses :
        /\ granted' = ServerGrants(r)
        /\ IF Retries(LoginError(r))
             THEN pc' = "prepare" /\ otp' = TRUE /\ UNCHANGED <<err, identity>>
             ELSE /\ Return(LoginError(r),
                       IF LoginError(r) = "nil" THEN Grant(r) ELSE NoState)
                  /\ UNCHANGED otp
  BY DEF Receive
<1>2. pc = "receive" /\ UNCHANGED <<credentials, sent, ctxDone, endedAt>>
  BY DEF Receive
<1>3. /\ ServerGrants(r) \in [token : Nat, did : DIDs]
      /\ LoginError(r) \in Errors
      /\ LoginError(r) = "nil" =>
           /\ Grant(r) = ServerGrants(r)
           /\ Grant(r).token = Len(sent)
           /\ Grant(r) # NoState
  BY <1>2, LoginGrants
<1>4. CASE Retries(LoginError(r))
  <2>1. pc' = "prepare" /\ otp' = TRUE /\ ~otp /\ UNCHANGED <<err, identity>>
    BY <1>1, <1>4 DEF Retries
  <2>2. SentSoFar'
    BY <1>2, <2>1 DEF LoginInv, SentSoFar
  <2>3. GrantedOrError'
    BY <2>1 DEF GrantedOrError
  <2>4. ~HasTokenPartial(credentials)
    BY <1>2 DEF LoginInv, ByPassword
  <2>5. otp' \in BOOLEAN /\ ctxDone' \in BOOLEAN
    BY <1>0, <1>2, <2>1 DEF LoginTypeOK
  <2>6. err' \in Errors /\ identity' \in [token : Nat, did : DIDs]
    BY <1>0, <2>1 DEF LoginTypeOK
  <2> QED BY <1>1, <1>2, <1>3, <2>1, <2>2, <2>3, <2>4, <2>5, <2>6, LoginQuiet DEF Steps
<1>5. CASE ~Retries(LoginError(r))
  <2>1. /\ pc' = "ended" /\ UNCHANGED otp /\ err' = LoginError(r)
        /\ identity' = IF LoginError(r) = "nil" THEN Grant(r) ELSE NoState
    BY <1>1, <1>5 DEF Return
  <2>2. SentSoFar'
    BY <2>1 DEF SentSoFar
  <2>3. GrantedOrError'
    BY <1>1, <1>2, <1>3, <2>1 DEF GrantedOrError
  <2>4. otp' \in BOOLEAN /\ ctxDone' \in BOOLEAN
    BY <1>0, <1>2, <2>1 DEF LoginTypeOK
  <2>5. err' \in Errors /\ identity' \in [token : Nat, did : DIDs]
    BY <1>0, <1>3, <2>1
  <2> QED BY <1>1, <1>2, <1>3, <2>1, <2>2, <2>3, <2>4, <2>5, LoginQuiet DEF Steps
<1> QED BY <1>4, <1>5

(* Every step of a login keeps the invariant.                              *)
LEMMA LoginNextInv == LoginInv /\ [LoginNext]_loginVars => LoginInv'
<1> SUFFICES ASSUME LoginInv, [LoginNext]_loginVars PROVE LoginInv'
  OBVIOUS
<1>1. CASE UNCHANGED loginVars
  <2>1. /\ UNCHANGED <<credentials, pc, otp, sent, ctxDone, err, identity, granted, endedAt>>
    BY <1>1 DEF loginVars
  <2>2. SentSoFar' /\ GrantedOrError'
    BY <2>1 DEF LoginInv, SentSoFar, GrantedOrError
  <2> QED BY <2>1, <2>2, LoginQuiet DEF LoginInv, LoginTypeOK, ByPassword
<1>2. CASE LoginNext
  BY <1>2, LoginQuietSteps, LoginSends, LoginReceives DEF LoginNext
<1> QED BY <1>1, <1>2

(* A login returns what the server granted in answer to its last request,  *)
(* or an error and no identity.                                            *)
THEOREM GrantedOrErrorHolds == LoginSpec => []GrantedOrError
<1>1. LoginInv => GrantedOrError
  BY DEF LoginInv
<1> QED BY <1>1, LoginInitInv, LoginNextInv, PTL DEF LoginSpec

(* At most two requests, the second with a code, and none without user     *)
(* name and password.                                                      *)
THEOREM LoginRequestsHolds == LoginSpec => []LoginRequests
<1>1. LoginInv => LoginRequests
  BY DEF LoginInv
<1> QED BY <1>1, LoginInitInv, LoginNextInv, PTL DEF LoginSpec

(* Once its context has ended a login sends nothing more, but for the one  *)
(* request that had passed the check of RoundTrip and was not yet sent.    *)
THEOREM LateRequestHolds == LoginSpec => []LateRequest
<1>1. LoginInv => LateRequest
  BY DEF LoginInv
<1> QED BY <1>1, LoginInitInv, LoginNextInv, PTL DEF LoginSpec

-----------------------------------------------------------------------------
(* The settings, and the durations they turn into.                         *)

(* A number of a file is NaN or has an integer value here.                 *)
LEMMA NumberIsInt ==
  ASSUME NEW x \in Numbers \cup {Zero}
  PROVE  x.v \in Int /\ Truncate(x.v) \in Int
<1>1. x.v \in Int
  BY SettingsAssumption DEF Numbers, Zero, NaN, Num
<1> QED BY <1>1 DEF Truncate

(* SecondsDuration of an ordinary number is at least a nanosecond.         *)
LEMMA OrdinaryIsPositive ==
  ASSUME NEW x \in Numbers \cup {Zero},
         Ordinary(x), NEW d \in SecondsDuration(x)
  PROVE  d \in Int /\ d > 0
<1>1. x.v \in Int /\ x.v >= 2 /\ d = Truncate(x.v)
  BY NumberIsInt DEF Ordinary, SecondsDuration
<1> QED BY <1>1 DEF Truncate

(* int64 arithmetic does not wrap around within the range of a Duration.   *)
LEMMA WrapFits ==
  ASSUME NEW i \in Durations
  PROVE  Wrap(i) = i
<1>1. MaxDuration \in Nat /\ i \in Int /\ -MaxDuration - 1 <= i /\ i <= MaxDuration
  BY SettingsAssumption DEF Durations, MinDuration
<1> DEFINE a == i + MaxDuration + 1
           b == 2 * (MaxDuration + 1)
<1>2. a \in Nat /\ b \in Nat /\ a < b
  BY <1>1
<1>3. a % b = a
  <2> HIDE DEF a, b
  <2> QED BY <1>2
<1>4. i - (-MaxDuration - 1) = a
  BY <1>1
<1>5. Wrap(i) = (a % b) + (-MaxDuration - 1)
  BY <1>4 DEF Wrap, MinDuration
<1> QED BY <1>1, <1>3, <1>5

(* For delays that a Duration can hold, a sample lies between them.        *)
LEMMA SampleBetween ==
  ASSUME waits.min \in Durations,
         waits.max \in Durations, 0 <= waits.min, waits.min <= waits.max,
         NEW d \in SampleDelay
  PROVE  d \in waits.min..waits.max
<1>1. /\ MaxDuration \in Nat /\ waits.min \in Int /\ waits.max \in Int
      /\ waits.max <= MaxDuration
  BY SettingsAssumption DEF Durations, MinDuration
<1>2. CASE waits.max <= waits.min
  <2>1. d = waits.min
    BY <1>1, <1>2 DEF SampleDelay
  <2> QED BY <1>1, <2>1
<1>3. CASE waits.max > waits.min
  <2>1. PICK r \in Share(Wrap(waits.max - waits.min)) :
          d = Wrap(waits.min + r)
    BY <1>1, <1>3 DEF SampleDelay
  <2>2. waits.max - waits.min \in Durations
    BY <1>1, <1>3 DEF Durations, MinDuration
  <2>3. Wrap(waits.max - waits.min) = waits.max - waits.min
    BY <2>2, WrapFits
  <2>4. r \in 0..(waits.max - waits.min)
    BY <1>1, <1>3, <2>1, <2>3 DEF Share
  <2>5. waits.min + r \in Durations
    BY <1>1, <2>4 DEF Durations, MinDuration
  <2>6. d = waits.min + r
    BY <2>1, <2>5, WrapFits
  <2> QED BY <1>1, <2>4, <2>6
<1> QED BY <1>1, <1>2, <1>3

(* Nothing is configured at first. *)
LEMMA SettingsInitInv == SettingsInit => SettingsInv
<1> SUFFICES ASSUME SettingsInit PROVE SettingsInv
  OBVIOUS
<1>1. /\ stage = "loadApp"
      /\ notify = [timeout |-> Zero, channels |-> [n \in {} |-> Zero]]
  BY DEF SettingsInit, NoNotify
<1>2. NotifyAccepted
  BY <1>1 DEF NotifyAccepted, Range
<1>3. /\ AppAccepted /\ RequestAccepted
      /\ WaitsConverted /\ DelaySampled
  BY <1>1 DEF AppAccepted, RequestAccepted, WaitsConverted,
              DelaySampled, Up
<1> QED BY <1>2, <1>3 DEF SettingsInv

(* A time-out is positive after the conversion, whatever it was before.    *)
LEMMA TimeoutPositive ==
  ASSUME NEW host, NEW t \in Numbers,
         NEW d \in MTeamTimeouts(host, t)
  PROVE  d \in 1..MaxDuration
<1>1. d \in SecondsDuration(t) /\ d > 0
  BY DEF MTeamTimeouts
<1>2. MaxDuration \in Nat
  BY SettingsAssumption
<1>3. d \in Durations
  <2>1. CASE Fits(t)
    BY <1>1, <2>1 DEF SecondsDuration, Fits
  <2>2. CASE ~Fits(t)
    BY <1>1, <1>2, <2>2 DEF SecondsDuration, Durations, MinDuration
  <2> QED BY <2>1, <2>2
<1> QED BY <1>1, <1>2, <1>3 DEF Durations, MinDuration

(* What is left of a valid notify.toml are numbers of the file. *)
LEMMA NotifyNumbers ==
  ASSUME NEW c \in [timeout : Numbers, channels : [Kinds -> Sections]]
  PROVE  /\ TimeoutsOf(c).timeout \in Numbers
         /\ \A t \in Range(TimeoutsOf(c).channels) : t \in Numbers
<1> DEFINE on == {k \in Kinds : c.channels[k].enabled}
           channels == [n \in on |-> c.channels[n].timeout]
<1>1. /\ TimeoutsOf(c).timeout = c.timeout
      /\ TimeoutsOf(c).channels = channels
  BY DEF TimeoutsOf
<1>2. \A n \in on : channels[n] \in Numbers
  BY DEF Sections
<1>3. DOMAIN channels = on
  OBVIOUS
<1> HIDE DEF channels, on
<1> QED BY <1>1, <1>2, <1>3 DEF Range

(* Each stage of App.New, a tick and a refused start keep the invariant.   *)
LEMMA SettingsNextInv ==
  ASSUME SettingsInv, [SettingsNext]_settingsVars
  PROVE  SettingsInv'
<1> USE DEF SettingsInv
<1>1. CASE UNCHANGED settingsVars
  BY <1>1 DEF settingsVars, AppAccepted, RequestAccepted,
              NotifyAccepted, WaitsConverted, DelaySampled,
              Up, ManagerTimeouts, ChannelTimeouts,
              SampleDelay
<1>2. ASSUME NEW e, Fail(e) PROVE SettingsInv'
  BY <1>2 DEF Fail, AppAccepted, RequestAccepted,
              NotifyAccepted, WaitsConverted, DelaySampled,
              Up
<1>3. CASE LoadApp
  <2>1. CASE \E e \in {"ConfigReadFailed", "ConfigParseFailed", "ConfigInvalid"} :
               Fail(e)
    BY <1>2, <2>1
  <2>2. CASE ~\E e \in {"ConfigReadFailed", "ConfigParseFailed", "ConfigInvalid"} :
               Fail(e)
    <3>1. PICK keys \in Undecoded, crontab \in BOOLEAN,
               a \in [min : Numbers, max : Numbers,
                      refresh : Numbers] :
            /\ Validate(crontab, a) /\ app' = a /\ stage' = "buildMTeam"
            /\ UNCHANGED <<failure, request, notify, waits, delay>>
      BY <1>3, <2>2 DEF LoadApp
    <3>2. AppAccepted'
      BY <3>1 DEF AppAccepted, Validate
    <3> QED BY <3>1, <3>2
            DEF RequestAccepted, NotifyAccepted, WaitsConverted,
                DelaySampled, Up
  <2> QED BY <2>1, <2>2
<1>4. CASE buildMTeamConfigs
  <2>1. CASE Fail("ConfigInvalid")
    BY <1>2, <2>1
  <2>2. CASE ~Fail("ConfigInvalid")
    <3>1. PICK host \in BOOLEAN, t \in Numbers :
            /\ request' \in MTeamTimeouts(host, t)
            /\ stage' = "loadNotify"
            /\ UNCHANGED <<failure, app, notify, waits, delay>>
      BY <1>4, <2>2 DEF buildMTeamConfigs
    <3>2. request' \in 1..MaxDuration
      BY <3>1, TimeoutPositive
    <3>3. stage = "buildMTeam"
      BY <1>4 DEF buildMTeamConfigs
    <3> QED BY <3>1, <3>2, <3>3
            DEF AppAccepted, RequestAccepted, NotifyAccepted,
                WaitsConverted, DelaySampled, Up
  <2> QED BY <2>1, <2>2
<1>5. CASE LoadConfig
  <2>1. /\ stage = "loadNotify" /\ stage' = "assemble"
        /\ UNCHANGED <<failure, app, request, waits, delay>>
    BY <1>5 DEF LoadConfig
  <2>2. CASE notify' = NoNotify
    <3>1. NotifyAccepted'
      BY <2>2 DEF NotifyAccepted, NoNotify, Range
    <3> QED BY <2>1, <3>1
            DEF AppAccepted, RequestAccepted, WaitsConverted,
                DelaySampled, Up
  <2>3. CASE notify' # NoNotify
    <3>1. PICK c \in [timeout : Numbers, channels : [Kinds -> Sections]] :
            notify' = TimeoutsOf(c)
      BY <1>5, <2>3 DEF LoadConfig
    <3>2. NotifyAccepted'
      BY <3>1, NotifyNumbers DEF NotifyAccepted
    <3> QED BY <2>1, <3>2
            DEF AppAccepted, RequestAccepted, WaitsConverted,
                DelaySampled, Up
  <2> QED BY <2>2, <2>3
<1>6. CASE Assemble
  <2>1. /\ stage = "assemble" /\ stage' = "up"
        /\ UNCHANGED <<failure, app, request, notify, delay>>
    BY <1>6 DEF Assemble
  <2>2. PICK min \in SecondsDuration(app.min), max \in SecondsDuration(app.max),
             run \in SecondsDuration(app.refresh), m \in ManagerTimeouts :
          \E send \in [DOMAIN notify.channels \cup {"base"} -> Durations] :
            /\ \A n \in DOMAIN send : send[n] \in ChannelTimeouts(n, m)
            /\ waits' = [min |-> min, max |-> max, run |-> run, send |-> send]
    BY <1>6 DEF Assemble
  <2>3. PICK send \in [DOMAIN notify.channels \cup {"base"} -> Durations] :
          /\ \A n \in DOMAIN send : send[n] \in ChannelTimeouts(n, m)
          /\ waits' = [min |-> min, max |-> max, run |-> run, send |-> send]
    BY <2>2
  <2>4. /\ waits'.min = min /\ waits'.max = max /\ waits'.run = run /\ waits'.send = send
        /\ DOMAIN send = DOMAIN notify.channels \cup {"base"}
    BY <2>3
  <2>5. WaitsConverted'
    BY <2>1, <2>2, <2>3, <2>4
       DEF WaitsConverted, Up, ManagerTimeouts,
           ChannelTimeouts
  <2> QED BY <2>1, <2>5
          DEF AppAccepted, RequestAccepted, NotifyAccepted,
              DelaySampled
<1>7. CASE runWithDelay
  <2>1. /\ stage \in {"up", "ticked"} /\ stage' = "ticked" /\ delay' \in SampleDelay
        /\ UNCHANGED <<failure, app, request, notify, waits>>
    BY <1>7 DEF runWithDelay
  <2>2. DelaySampled'
    BY <2>1 DEF DelaySampled, SampleDelay
  <2>3. WaitsConverted'
    BY <2>1 DEF WaitsConverted, Up, ManagerTimeouts,
                ChannelTimeouts
  <2> QED BY <2>1, <2>2, <2>3
          DEF AppAccepted, RequestAccepted, NotifyAccepted
<1> QED BY <1>1, <1>3, <1>4, <1>5, <1>6, <1>7 DEF SettingsNext, Refused

(* The time-outs of a process that is up.                                  *)
LEMMA BoundedWhenUp ==
  ASSUME SettingsInv
  PROVE  RequestsBounded
<1> SUFFICES ASSUME Up PROVE RequestsBounded
  BY DEF RequestsBounded
<1>1. /\ AppAccepted /\ RequestAccepted /\ NotifyAccepted
      /\ WaitsConverted
  BY DEF SettingsInv
<1>2. request \in 1..MaxDuration /\ MaxDuration \in Nat /\ PerMilli \in Nat /\ PerMilli > 0
  BY <1>1, SettingsAssumption DEF RequestAccepted, Up
<1>3. timeoutMilliseconds(request) > 0
  BY <1>2 DEF timeoutMilliseconds
<1>4. ASSUME Ordinary(app.refresh) PROVE WithTimeout(waits.run) > 0
  <2>1. app.refresh \in Numbers
    BY <1>1 DEF AppAccepted, Up
  <2>2. waits.run \in SecondsDuration(app.refresh)
    BY <1>1 DEF WaitsConverted
  <2>3. waits.run \in Int /\ waits.run > 0
    BY <1>4, <2>1, <2>2, OrdinaryIsPositive
  <2> QED BY <2>3 DEF WithTimeout
<1>5. ASSUME \A t \in {notify.timeout} \cup Range(notify.channels) :
               t = Zero \/ Ordinary(t),
             NEW d \in Range(waits.send)
      PROVE  WithTimeout(d) > 0
  <2>1. ASSUME NEW t \in Numbers \cup {Zero},
               t = Zero \/ Ordinary(t)
        PROVE  /\ Less(Zero, t) => Ordinary(t)
               /\ \A e \in SecondsDuration(t) :
                    Less(Zero, t) => e \in Int /\ e > 0
    <3>1. ~Less(Zero, Zero)
      BY DEF Less, Zero, Num
    <3> QED BY <2>1, <3>1, OrdinaryIsPositive
  <2>2. PICK m \in ManagerTimeouts :
          \A n \in DOMAIN waits.send : waits.send[n] \in ChannelTimeouts(n, m)
    BY <1>1 DEF WaitsConverted
  <2>3. m \in Int /\ m > 0
    <3>1. notify.timeout \in Numbers \cup {Zero}
      BY <1>1 DEF NotifyAccepted
    <3>2. CASE Less(Zero, notify.timeout)
      BY <1>5, <2>1, <2>2, <3>1, <3>2 DEF ManagerTimeouts
    <3>3. CASE ~Less(Zero, notify.timeout)
      BY <1>2, <2>2, <3>3 DEF ManagerTimeouts, DefaultTimeout
    <3> QED BY <3>2, <3>3
  <2>4. PICK n \in DOMAIN waits.send : d = waits.send[n]
    BY <1>5 DEF Range
  <2>5. d \in Int /\ d > 0
    <3>1. CASE n # "base" /\ Less(Zero, notify.channels[n])
      <4>1. n \in DOMAIN notify.channels
        BY <1>1, <2>4, <3>1 DEF WaitsConverted
      <4>2. notify.channels[n] \in Range(notify.channels)
        BY <4>1 DEF Range
      <4>3. notify.channels[n] \in Numbers
        BY <1>1, <4>2 DEF NotifyAccepted
      <4>4. d \in SecondsDuration(notify.channels[n])
        BY <2>2, <2>4, <3>1 DEF ChannelTimeouts
      <4> QED BY <1>5, <2>1, <3>1, <4>2, <4>3, <4>4
    <3>2. CASE ~(n # "base" /\ Less(Zero, notify.channels[n]))
      BY <2>2, <2>3, <2>4, <3>2 DEF ChannelTimeouts
    <3> QED BY <3>1, <3>2
  <2> QED BY <2>5 DEF WithTimeout
<1> QED BY <1>3, <1>4, <1>5 DEF RequestsBounded

(* The delay of a tick, between the delays that were accepted.             *)
LEMMA InRangeWhenTicked ==
  ASSUME SettingsInv
  PROVE  DelayInRange
<1> SUFFICES ASSUME stage = "ticked", Fits(app.min), Fits(app.max)
             PROVE  delay \in Truncate(app.min.v)..Truncate(app.max.v)
  BY DEF DelayInRange
<1>1. /\ app.min \in Numbers /\ app.max \in Numbers
      /\ Validate(TRUE, app)
  BY DEF SettingsInv, AppAccepted
<1>2. /\ app.min.v \in Int /\ app.max.v \in Int
  BY <1>1, NumberIsInt
<1>3. 0 <= app.min.v /\ app.min.v <= app.max.v
  BY <1>1, <1>2
     DEF Validate, Less, Fits, Zero, Num
<1>4. /\ waits.min = Truncate(app.min.v) /\ waits.min \in Durations
      /\ waits.max = Truncate(app.max.v) /\ waits.max \in Durations
  BY DEF SettingsInv, WaitsConverted, Up, SecondsDuration,
         Fits
<1>5. 0 <= waits.min /\ waits.min <= waits.max
  BY <1>2, <1>3, <1>4 DEF Truncate
<1>6. delay \in SampleDelay
  BY DEF SettingsInv, DelaySampled
<1>7. delay \in waits.min..waits.max
  BY <1>4, <1>5, <1>6, SampleBetween
<1> QED BY <1>4, <1>7

(* Every M-Team request of a process that is up has a time-out, and so     *)
(* have runs and notifications with ordinary numbers.                      *)
THEOREM RequestsBoundedHolds == SettingsSpec => []RequestsBounded
<1>1. SettingsInv /\ [SettingsNext]_settingsVars => SettingsInv'
  BY SettingsNextInv
<1>2. SettingsInv => RequestsBounded
  BY BoundedWhenUp
<1> QED BY <1>1, <1>2, SettingsInitInv, PTL DEF SettingsSpec

(* A tick waits for at least the smaller and at most the larger delay.     *)
THEOREM DelayInRangeHolds == SettingsSpec => []DelayInRange
<1>1. SettingsInv /\ [SettingsNext]_settingsVars => SettingsInv'
  BY SettingsNextInv
<1>2. SettingsInv => DelayInRange
  BY InRangeWhenTicked
<1> QED BY <1>1, <1>2, SettingsInitInv, PTL DEF SettingsSpec
=============================================================================
