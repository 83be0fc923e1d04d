----------------------------- MODULE TLSClient -----------------------------
(***************************************************************************)
(* The shared HTTP transport, pkg/apicore/tlsclient.go: a cache of HTTP    *)
(* clients, one per combination of profile, proxy, time-out, redirect      *)
(* policy and cookie scope, and of cookie jars, one per cookie scope.      *)
(* Refreshes and notification channels send requests concurrently; Close   *)
(* lets the requests in flight end before it drops the clients.            *)
(*                                                                         *)
(* acquire and the two locked parts of Close hold the mutex and are single *)
(* steps; everything between them interleaves.                             *)
(***************************************************************************)
EXTENDS Integers, FiniteSets

CONSTANTS Callers,  \* goroutines that send requests
          Closers,  \* goroutines that call Close
          Keys,     \* clientKey values
          Scope,    \* the cookie scope of a key
          NoScope,  \* the empty scope: a client without a jar
          Idle      \* a caller without a request

ASSUME TLSClientAssumption == /\ Idle \notin Keys
                              /\ IsFiniteSet(Callers)

VARIABLES closed,    \* TLSClient.closed
          done,      \* closeDone has been closed
          clients,   \* the cached clients: the jar each one was built with
          jars,      \* the jars by scope, numbered as they were made
          made,      \* the number of jars made
          inflight,  \* the wait group
          using,     \* the key under which a caller got its client
          closing    \* how far each Close has come

vars == <<closed, done, clients, jars, made, inflight, using, closing>>

Scopes == {Scope[k] : k \in Keys} \ {NoScope}

NoJar == 0

(* A map with entry k set to x. *)
Put(map, k, x) == [i \in DOMAIN map \cup {k} |-> IF i = k THEN x ELSE map[i]]

EmptyMap == [k \in {} |-> NoJar]

TypeOK == /\ closed \in BOOLEAN
          /\ done \in BOOLEAN
          /\ DOMAIN clients \subseteq Keys
          /\ \A k \in DOMAIN clients : clients[k] \in 0..made
          /\ DOMAIN jars \subseteq Scopes
          /\ \A s \in DOMAIN jars : jars[s] \in 1..made
          /\ made \in Nat
          /\ inflight \in Nat
          /\ using \in [Callers -> Keys \cup {Idle}]
          /\ closing \in [Closers -> {"no", "drain", "wait", "returned"}]

Init == /\ closed = FALSE
        /\ done = FALSE
        /\ clients = EmptyMap
        /\ jars = EmptyMap
        /\ made = 0
        /\ inflight = 0
        /\ using = [t \in Callers |-> Idle]
        /\ closing = [c \in Closers |-> "no"]

-----------------------------------------------------------------------------
(* The jar of a new client: the one of its scope, made when it is first    *)
(* needed, and kept even if the client then cannot be built.               *)
JarPerClient(k) == /\ made' = IF Scope[k] = NoScope THEN made ELSE made + 1
                   /\ jars' = IF Scope[k] = NoScope THEN jars ELSE Put(jars, Scope[k], made')

JarOfScope(k) == IF Scope[k] = NoScope \/ Scope[k] \in DOMAIN jars
                   THEN UNCHANGED <<made, jars>>
                   ELSE made' = made + 1 /\ jars' = Put(jars, Scope[k], made')

JarFor(k) == IF Scope[k] = NoScope THEN NoJar ELSE jars'[Scope[k]]

(* The check of the flag at the head of acquire. *)
OpenAnyway == TRUE

Accepts == ~closed

Take(t, k) == /\ inflight' = inflight + 1
              /\ using' = [using EXCEPT ![t] = k]

(* RoundTrip up to the return of acquire: a cached client, or a new one. *)
Reuse(t, k) == /\ using[t] = Idle
               /\ Accepts
               /\ k \in DOMAIN clients
               /\ Take(t, k)
               /\ UNCHANGED <<closed, done, clients, jars, made, closing>>

Create(t, k) == /\ using[t] = Idle
                /\ Accepts
                /\ k \notin DOMAIN clients
                /\ JarOfScope(k)
                /\ \/ /\ clients' = Put(clients, k, JarFor(k))
                      /\ Take(t, k)
                   \/ UNCHANGED <<clients, inflight, using>>
                /\ UNCHANGED <<closed, done, closing>>

(* RoundTrip returns, with a response or an error. *)
ReturnWithoutDone(t) == /\ using[t] # Idle
                        /\ using' = [using EXCEPT ![t] = Idle]
                        /\ UNCHANGED <<closed, done, clients, jars, made, inflight, closing>>

Return(t) == /\ using[t] # Idle
             /\ using' = [using EXCEPT ![t] = Idle]
             /\ inflight' = inflight - 1
             /\ UNCHANGED <<closed, done, clients, jars, made, closing>>

-----------------------------------------------------------------------------
(* Close: the first caller sets the flag, later ones wait for its end. *)
LaterReturnsAtOnce(c) ==
  /\ closing[c] = "no"
  /\ closed' = TRUE
  /\ closing' = [closing EXCEPT ![c] = IF closed THEN "returned" ELSE "drain"]
  /\ UNCHANGED <<done, clients, jars, made, inflight, using>>

Close(c) == /\ closing[c] = "no"
            /\ closed' = TRUE
            /\ closing' = [closing EXCEPT ![c] = IF closed THEN "wait" ELSE "drain"]
            /\ UNCHANGED <<done, clients, jars, made, inflight, using>>

(* inflight.Wait, then the clients and jars go and closeDone is closed. *)
Drain(c) == /\ closing[c] = "drain"
            /\ inflight = 0
            /\ clients' = EmptyMap
            /\ jars' = EmptyMap
            /\ done' = TRUE
            /\ closing' = [closing EXCEPT ![c] = "returned"]
            /\ UNCHANGED <<closed, made, inflight, using>>

Wait(c) == /\ closing[c] = "wait"
           /\ done
           /\ closing' = [closing EXCEPT ![c] = "returned"]
           /\ UNCHANGED <<closed, done, clients, jars, made, inflight, using>>

(* Nothing is left to do. *)
Closed == /\ done
          /\ \A c \in Closers : closing[c] = "returned"
          /\ UNCHANGED vars

Next == \/ \E t \in Callers : Return(t) \/ \E k \in Keys : Reuse(t, k) \/ Create(t, k)
        \/ \E c \in Closers : Close(c) \/ Drain(c) \/ Wait(c)
        \/ Closed

(* A request ends, because its client has a time-out, and the steps of     *)
(* Close are taken when they can be.                                       *)
Fairness == /\ \A t \in Callers : WF_vars(Return(t))
            /\ \A c \in Closers : WF_vars(Drain(c) \/ Wait(c))

Spec == Init /\ [][Next]_vars /\ Fairness

-----------------------------------------------------------------------------
InFlight == {t \in Callers : using[t] # Idle}

(* Clients that share a cookie scope share one jar, also when one of them  *)
(* could not be built at first: login and browsing see the same cookies.   *)
OneJarPerScope ==
  \A k \in DOMAIN clients :
    clients[k] = IF Scope[k] = NoScope THEN NoJar ELSE jars[Scope[k]]

(* Whoever's Close has returned finds the transport drained: no request in *)
(* flight, no client or jar kept; a second Close does not return early.    *)
CloseMeansDrained ==
  (\E c \in Closers : closing[c] = "returned")
    => InFlight = {} /\ DOMAIN clients = {} /\ DOMAIN jars = {}

(* The wait group is never added to after Close began to wait for it, as   *)
(* sync.WaitGroup demands, and counts the requests in flight.              *)
WaitGroupDiscipline ==
  [][/\ inflight' = Cardinality(InFlight')
     /\ closed => inflight' <= inflight]_vars

(* Every Close returns. *)
CloseReturns == \A c \in Closers : closing[c] \in {"drain", "wait"} ~> closing[c] = "returned"

-----------------------------------------------------------------------------
(* What makes them inductive: the wait group counts the callers that hold  *)
(* a client; *)
CountsInFlight == inflight = Cardinality(InFlight)

(* the jar of a cached client is never dropped without the client; *)
JarsKept == \A k \in DOMAIN clients : Scope[k] # NoScope => Scope[k] \in DOMAIN jars

(* closeDone is closed after the flag was set and everything was dropped,  *)
(* and a Close returns only after that.                                    *)
CloseOrder ==
  /\ done => closed /\ InFlight = {} /\ DOMAIN clients = {} /\ DOMAIN jars = {}
  /\ \A c \in Closers : /\ closing[c] # "no" => closed
                        /\ closing[c] = "returned" => done

IInv == TypeOK /\ CountsInFlight /\ JarsKept /\ OneJarPerScope /\ CloseOrder
=============================================================================
