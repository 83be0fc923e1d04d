-------------------------- MODULE TLSClientProofs --------------------------
(***************************************************************************)
(* The shared transport, for any number of goroutines, closers, keys and   *)
(* cookie scopes: one jar per scope, a Close that returns only when        *)
(* everything is drained, and a wait group used as sync.WaitGroup demands. *)
(***************************************************************************)
EXTENDS TLSClient, FiniteSetTheorems, TLAPS

(* A caller that takes a client is one more in flight. *)
LEMMA TakeCounts ==
  ASSUME CountsInFlight, using \in [Callers -> Keys \cup {Idle}],
         NEW t \in Callers, NEW k \in Keys, using[t] = Idle, Take(t, k)
  PROVE  /\ CountsInFlight' /\ inflight' \in Nat
         /\ using' \in [Callers -> Keys \cup {Idle}]
<1>1. InFlight' = InFlight \cup {t} /\ t \notin InFlight
  BY TLSClientAssumption DEF Take, InFlight
<1>2. IsFiniteSet(InFlight)
  BY TLSClientAssumption, FS_Subset DEF InFlight
<1>3. Cardinality(InFlight \cup {t}) = Cardinality(InFlight) + 1
  BY <1>1, <1>2, FS_AddElement
<1>4. Cardinality(InFlight) \in Nat
  BY <1>2, FS_CardinalityType
<1> QED BY <1>1, <1>3, <1>4 DEF Take, CountsInFlight

(* A caller that returns is one less. *)
LEMMA ReturnCounts ==
  ASSUME CountsInFlight, using \in [Callers -> Keys \cup {Idle}], NEW t \in Callers, Return(t)
  PROVE  /\ CountsInFlight' /\ inflight' \in Nat /\ inflight' = inflight - 1
         /\ InFlight' = InFlight \ {t} /\ using' \in [Callers -> Keys \cup {Idle}]
<1>1. InFlight' = InFlight \ {t} /\ t \in InFlight
  BY DEF Return, InFlight
<1>2. IsFiniteSet(InFlight)
  BY TLSClientAssumption, FS_Subset DEF InFlight
<1>3. Cardinality(InFlight \ {t}) = Cardinality(InFlight) - 1
  BY <1>1, <1>2, FS_RemoveElement
<1>4. Cardinality(InFlight \ {t}) \in Nat
  BY <1>2, FS_RemoveElement, FS_CardinalityType
<1> QED BY <1>1, <1>3, <1>4 DEF Return, CountsInFlight

(* An empty wait group means that no caller holds a client. *)
LEMMA ZeroMeansIdle ==
  ASSUME CountsInFlight, inflight = 0
  PROVE  InFlight = {}
<1>1. IsFiniteSet(InFlight)
  BY TLSClientAssumption, FS_Subset DEF InFlight
<1> QED BY <1>1, FS_EmptySet DEF CountsInFlight

(* The jar of a scope is there once a client of that scope needs it, and   *)
(* the jars that exist stay what they are.                                 *)
LEMMA JarKept ==
  ASSUME TypeOK, NEW k \in Keys, JarOfScope(k)
  PROVE  /\ made' \in Nat /\ made <= made'
         /\ DOMAIN jars \subseteq DOMAIN jars' /\ DOMAIN jars' \subseteq Scopes
         /\ \A s \in DOMAIN jars : jars'[s] = jars[s]
         /\ \A s \in DOMAIN jars' : jars'[s] \in 1..made'
         /\ Scope[k] # NoScope => Scope[k] \in DOMAIN jars'
<1>1. CASE Scope[k] = NoScope \/ Scope[k] \in DOMAIN jars
  BY <1>1 DEF JarOfScope, TypeOK
<1>2. CASE ~(Scope[k] = NoScope \/ Scope[k] \in DOMAIN jars)
  <2>1. made' = made + 1 /\ jars' = Put(jars, Scope[k], made')
    BY <1>2 DEF JarOfScope
  <2>2. /\ DOMAIN jars' = DOMAIN jars \cup {Scope[k]} /\ jars'[Scope[k]] = made'
        /\ \A s \in DOMAIN jars : jars'[s] = jars[s]
    BY <1>2, <2>1 DEF Put
  <2>3. Scope[k] \in Scopes
    BY <1>2 DEF Scopes
  <2> QED BY <2>1, <2>2, <2>3 DEF TypeOK
<1> QED BY <1>1, <1>2

(* An open transport has no Close to be in order with. *)
LEMMA OpenOrder ==
  ASSUME TypeOK, CloseOrder, ~closed, UNCHANGED <<closed, done, closing>>
  PROVE  CloseOrder'
BY DEF CloseOrder

(* Every step keeps the invariant. *)
LEMMA NextIInv == IInv /\ [Next]_vars => IInv'
<1> SUFFICES ASSUME IInv, [Next]_vars PROVE IInv'
  OBVIOUS
<1>1. ASSUME NEW t \in Callers, Return(t) PROVE IInv'
  <2>1. /\ CountsInFlight' /\ inflight' \in Nat /\ InFlight' = InFlight \ {t}
        /\ using' \in [Callers -> Keys \cup {Idle}]
    BY <1>1, ReturnCounts DEF IInv, TypeOK
  <2>2. UNCHANGED <<closed, done, clients, jars, made, closing>>
    BY <1>1 DEF Return
  <2>3. CloseOrder'
    BY <2>1, <2>2 DEF IInv, CloseOrder
  <2> QED BY <2>1, <2>2, <2>3 DEF IInv, TypeOK, JarsKept, OneJarPerScope
<1>2. ASSUME NEW t \in Callers, NEW k \in Keys, Reuse(t, k) PROVE IInv'
  <2>1. /\ CountsInFlight' /\ inflight' \in Nat
        /\ using' \in [Callers -> Keys \cup {Idle}]
    BY <1>2, TakeCounts DEF IInv, TypeOK, Reuse
  <2>2. ~closed /\ UNCHANGED <<closed, done, clients, jars, made, closing>>
    BY <1>2 DEF Reuse, Accepts
  <2>3. CloseOrder'
    BY <2>2, OpenOrder DEF IInv
  <2> QED BY <2>1, <2>2, <2>3 DEF IInv, TypeOK, JarsKept, OneJarPerScope
<1>3. ASSUME NEW t \in Callers, NEW k \in Keys, Create(t, k) PROVE IInv'
  <2>1. /\ made' \in Nat /\ made \in Nat /\ made <= made'
        /\ DOMAIN jars \subseteq DOMAIN jars' /\ DOMAIN jars' \subseteq Scopes
        /\ \A s \in DOMAIN jars : jars'[s] = jars[s]
        /\ \A s \in DOMAIN jars' : jars'[s] \in 1..made'
        /\ Scope[k] # NoScope => Scope[k] \in DOMAIN jars'
    BY <1>3, JarKept DEF IInv, TypeOK, Create
  <2>2. CloseOrder' /\ closed' \in BOOLEAN /\ done' \in BOOLEAN
        /\ closing' \in [Closers -> {"no", "drain", "wait", "returned"}]
    BY <1>3, OpenOrder DEF IInv, TypeOK, Create, Accepts
  <2>3. CountsInFlight' /\ inflight' \in Nat /\ using' \in [Callers -> Keys \cup {Idle}]
    <3>1. CASE Take(t, k)
      BY <1>3, <3>1, TakeCounts DEF IInv, TypeOK, Create
    <3>2. CASE UNCHANGED <<inflight, using>>
      BY <3>2 DEF IInv, TypeOK, CountsInFlight, InFlight
    <3> QED BY <1>3, <3>1, <3>2 DEF Create
  <2>4. ASSUME NEW i \in DOMAIN clients
        PROVE  /\ clients[i] \in 0..made' /\ i \in Keys
               /\ Scope[i] # NoScope => Scope[i] \in DOMAIN jars'
               /\ clients[i] = IF Scope[i] = NoScope THEN NoJar ELSE jars'[Scope[i]]
    <3>1. /\ clients[i] = IF Scope[i] = NoScope THEN NoJar ELSE jars[Scope[i]]
          /\ Scope[i] # NoScope => Scope[i] \in DOMAIN jars
          /\ clients[i] \in 0..made /\ i \in Keys
      BY DEF IInv, OneJarPerScope, JarsKept, TypeOK
    <3> QED BY <2>1, <3>1
  <2>5. CASE clients' = Put(clients, k, JarFor(k))
    <3>1. /\ DOMAIN clients' = DOMAIN clients \cup {k} /\ clients'[k] = JarFor(k)
          /\ \A i \in DOMAIN clients : i # k => clients'[i] = clients[i]
      BY <2>5 DEF Put
    <3>2. JarFor(k) \in 0..made'
      BY <2>1 DEF JarFor, NoJar
    <3>3. JarsKept' /\ OneJarPerScope'
      BY <2>1, <2>4, <3>1 DEF JarsKept, OneJarPerScope, JarFor
    <3>4. DOMAIN clients' \subseteq Keys /\ \A i \in DOMAIN clients' : clients'[i] \in 0..made'
      BY <2>4, <3>1, <3>2
    <3> QED BY <2>1, <2>2, <2>3, <3>3, <3>4 DEF IInv, TypeOK
  <2>6. CASE UNCHANGED clients
    <3>1. JarsKept' /\ OneJarPerScope'
      BY <2>4, <2>6 DEF JarsKept, OneJarPerScope
    <3>2. DOMAIN clients' \subseteq Keys /\ \A i \in DOMAIN clients' : clients'[i] \in 0..made'
      BY <2>4, <2>6
    <3> QED BY <2>1, <2>2, <2>3, <3>1, <3>2 DEF IInv, TypeOK
  <2> QED BY <1>3, <2>5, <2>6 DEF Create
<1>4. ASSUME NEW c \in Closers, Close(c) PROVE IInv'
  <2>1. /\ closed' = TRUE /\ UNCHANGED <<done, clients, jars, made, inflight, using>>
        /\ closing' = [closing EXCEPT ![c] = IF closed THEN "wait" ELSE "drain"]
    BY <1>4 DEF Close
  <2>2. closing' \in [Closers -> {"no", "drain", "wait", "returned"}]
    BY <2>1 DEF IInv, TypeOK
  <2>3. CloseOrder'
    BY <2>1 DEF IInv, TypeOK, CloseOrder, InFlight
  <2> QED BY <2>1, <2>2, <2>3
          DEF IInv, TypeOK, CountsInFlight, InFlight, JarsKept, OneJarPerScope
<1>5. ASSUME NEW c \in Closers, Drain(c) PROVE IInv'
  <2>1. /\ done' = TRUE /\ clients' = EmptyMap /\ jars' = EmptyMap
        /\ closing' = [closing EXCEPT ![c] = "returned"]
        /\ UNCHANGED <<closed, made, inflight, using>>
    BY <1>5 DEF Drain
  <2>2. InFlight' = {} /\ closed /\ CountsInFlight'
    <3>1. InFlight = {}
      BY <1>5, ZeroMeansIdle DEF IInv, Drain
    <3>2. closed
      BY <1>5 DEF IInv, CloseOrder, Drain
    <3> QED BY <2>1, <3>1, <3>2 DEF IInv, InFlight, CountsInFlight
  <2>3. DOMAIN clients' = {} /\ DOMAIN jars' = {}
    BY <2>1 DEF EmptyMap
  <2>4. closing' \in [Closers -> {"no", "drain", "wait", "returned"}]
    BY <2>1 DEF IInv, TypeOK
  <2>5. CloseOrder'
    BY <2>1, <2>2, <2>3 DEF CloseOrder
  <2>6. TypeOK'
    BY <2>1, <2>3, <2>4 DEF IInv, TypeOK
  <2> QED BY <2>2, <2>3, <2>5, <2>6 DEF IInv, JarsKept, OneJarPerScope
<1>6. ASSUME NEW c \in Closers, Wait(c) PROVE IInv'
  <2>1. /\ done /\ closing' = [closing EXCEPT ![c] = "returned"]
        /\ UNCHANGED <<closed, done, clients, jars, made, inflight, using>>
    BY <1>6 DEF Wait
  <2>2. closing' \in [Closers -> {"no", "drain", "wait", "returned"}]
    BY <2>1 DEF IInv, TypeOK
  <2>3. CloseOrder'
    BY <2>1 DEF IInv, TypeOK, CloseOrder, InFlight
  <2> QED BY <2>1, <2>2, <2>3
          DEF IInv, TypeOK, CountsInFlight, InFlight, JarsKept, OneJarPerScope
<1>7. CASE UNCHANGED vars
  BY <1>7 DEF vars, IInv, TypeOK, CountsInFlight, InFlight, JarsKept, OneJarPerScope, CloseOrder
<1> QED BY <1>1, <1>2, <1>3, <1>4, <1>5, <1>6, <1>7 DEF Next, Closed

(* A fresh transport satisfies the invariant. *)
LEMMA InitIInv == Init => IInv
<1> SUFFICES ASSUME Init PROVE IInv
  OBVIOUS
<1>1. InFlight = {}
  BY DEF Init, InFlight
<1>2. CountsInFlight
  BY <1>1, FS_EmptySet DEF Init, CountsInFlight
<1>3. DOMAIN clients = {} /\ DOMAIN jars = {}
  BY DEF Init, EmptyMap
<1>4. TypeOK
  BY <1>3 DEF Init, TypeOK
<1> QED BY <1>2, <1>3, <1>4 DEF Init, IInv, JarsKept, OneJarPerScope, CloseOrder

(* Every reachable state satisfies the invariant. *)
LEMMA IInvHolds == Spec => []IInv
BY InitIInv, NextIInv, PTL DEF Spec

(* Clients that share a cookie scope share one jar, whichever of them was  *)
(* built first and whatever build failed in between (jarForScope).         *)
THEOREM OneJarPerScopeHolds == Spec => []OneJarPerScope
<1>1. IInv => OneJarPerScope
  BY DEF IInv
<1> QED BY <1>1, IInvHolds, PTL

(* No Close returns, the first or a concurrent later one, before every     *)
(* request has ended and all clients and jars are dropped.                 *)
THEOREM CloseMeansDrainedHolds == Spec => []CloseMeansDrained
<1>1. IInv => CloseMeansDrained
  BY DEF IInv, CloseOrder, CloseMeansDrained
<1> QED BY <1>1, IInvHolds, PTL

(* acquire never adds to the wait group once Close has set the flag, so    *)
(* the Wait of Close sees every request and no Add races it.               *)
THEOREM WaitGroupDisciplineHolds == Spec => WaitGroupDiscipline
<1>1. IInv /\ IInv' /\ [Next]_vars
        => [/\ inflight' = Cardinality(InFlight')
            /\ closed => inflight' <= inflight]_vars
  <2> SUFFICES ASSUME IInv, IInv', Next
               PROVE  /\ inflight' = Cardinality(InFlight')
                      /\ closed => inflight' <= inflight
    OBVIOUS
  <2>1. inflight' = Cardinality(InFlight')
    BY DEF IInv, CountsInFlight
  <2>2. ASSUME closed PROVE inflight' <= inflight
    <3>1. inflight \in Nat
      BY DEF IInv, TypeOK
    <3>2. ASSUME NEW t \in Callers, NEW k \in Keys PROVE ~Reuse(t, k) /\ ~Create(t, k)
      BY <2>2 DEF Reuse, Create, Accepts
    <3>3. inflight' = inflight \/ inflight' = inflight - 1
      BY <3>2 DEF Next, Return, Close, Drain, Wait, Closed, vars
    <3> QED BY <3>1, <3>3
  <2> QED BY <2>1, <2>2
<1> QED BY <1>1, IInvHolds, PTL DEF Spec, WaitGroupDiscipline
=============================================================================
