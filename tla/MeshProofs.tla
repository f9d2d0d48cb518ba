----------------------------- MODULE MeshProofs -----------------------------
(***************************************************************************)
(* Proofs about module Mesh, for any number of requests: its types, and    *)
(* that the gateway's answers are honest and its failures the request's    *)
(* own.                                                                    *)
(*                                                                         *)
(* Both speak of finished requests; what makes them inductive is Sound,    *)
(* which says of a request under way what is already known about the       *)
(* answer it will get: where get_order's call is on its way, and what the  *)
(* status just read stands for.                                            *)
(***************************************************************************)
EXTENDS Mesh, TLAPS

ServiceTypes ==
    /\ up \subseteq Service
    /\ cert \in [Client -> {"valid", "expired"}]
    /\ listed \in [Client -> {"no", "new", "old"}]

ConnTypes ==
    /\ session \subseteq Edge
    /\ idle \in [Edge -> Nat] /\ stale \in [Edge -> Nat]

RequestTypes ==
    /\ pc \in [Request -> {"new", "calling", "serving", "reading", "done", "dropped"}]
    /\ target \in [Request -> Server]
    /\ route \in [Request -> Route]
    /\ hop \in [Request -> {1, 2}]
    /\ head \in [Request -> Status \cup {0}]
    /\ status \in [Request -> Status \cup {0}]
    /\ handled \in [Request -> SUBSET Server]
    /\ broken \subseteq Request

\* An answer of 200 for q would be true, one with another status excused.
Deserved(q) == route[q] \in {"known", "open"} /\ NeededFor(q) \subseteq handled[q]
Excused(q)  == route[q] \in {"unknown", "malformed"} \/ q \in broken

Sound(q) ==
    /\ pc[q] = "new" => hop[q] = 1
    /\ pc[q] \in {"calling", "serving", "reading"} /\ hop[q] = 2 =>
           target[q] = "order" /\ route[q] = "known"
    /\ pc[q] = "reading" /\ hop[q] = 2 => head[q] = 200 /\ "user" \in handled[q]
    /\ pc[q] = "reading" /\ hop[q] = 1 => IF head[q] = 200 THEN Deserved(q)
                                                           ELSE Excused(q)
    /\ pc[q] = "done" => IF status[q] = 200 THEN Deserved(q) ELSE Excused(q)

Inv == ServiceTypes /\ ConnTypes /\ RequestTypes /\ \A q \in Request : Sound(q)

-----------------------------------------------------------------------------
\* The invariant speaks of all the variables and is true at first.
LEMMA InvInit == Init => Inv
  BY DEF Init, Inv, ServiceTypes, ConnTypes, RequestTypes, Sound, Service, Client, Server,
         Edge, Route, Status

\* A request whose call fails stays sound: get_order's answer is excused by the
\* broken call, and so is the gateway's.
LEMMA FailKeepsSound ==
    ASSUME Inv, NEW F \in SUBSET InFlight, Fail(F, AfterFailure)
    PROVE  RequestTypes' /\ \A q \in Request : Sound(q)'
  <1>1. F \subseteq Request
    BY DEF InFlight
  <1>2. RequestTypes'
    BY <1>1 DEF Inv, RequestTypes, Fail, AfterFailure, OrderStatusOnFailure, Status
  <1>3. ASSUME NEW q \in Request PROVE Sound(q)'
    <2>1. CASE q \in F
      BY <1>1, <1>3, <2>1 DEF Inv, RequestTypes, Sound, Fail, AfterFailure, Excused,
                              OrderStatusOnFailure
    <2>2. CASE q \notin F
      BY <1>1, <1>3, <2>2 DEF Inv, RequestTypes, Sound, Fail, Deserved, Excused, NeededFor
    <2> QED BY <2>1, <2>2
  <1> QED BY <1>2, <1>3

\* The same for the failure of the gateway's own calls.
LEMMA GatewayFailKeepsSound ==
    ASSUME Inv, NEW F \in SUBSET InFlight, Fail(F, AfterGatewayFailure)
    PROVE  RequestTypes' /\ \A q \in Request : Sound(q)'
  <1>1. F \subseteq Request
    BY DEF InFlight
  <1>2. RequestTypes'
    BY <1>1 DEF Inv, RequestTypes, Fail, AfterGatewayFailure, Status
  <1>3. ASSUME NEW q \in Request PROVE Sound(q)'
    <2>1. CASE q \in F
      BY <1>1, <1>3, <2>1 DEF Inv, RequestTypes, Sound, Fail, AfterGatewayFailure, Excused
    <2>2. CASE q \notin F
      BY <1>1, <1>3, <2>2 DEF Inv, RequestTypes, Sound, Fail, Deserved, Excused, NeededFor
    <2> QED BY <2>1, <2>2
  <1> QED BY <1>2, <1>3

\* Nothing is claimed of a dropped request.
LEMMA DropKeepsSound ==
    ASSUME Inv, NEW D \in SUBSET Request, Drop(D)
    PROVE  RequestTypes' /\ \A q \in Request : Sound(q)'
  <1>1. RequestTypes'
    BY DEF Inv, RequestTypes, Drop, Status, Server, Route
  <1>2. ASSUME NEW q \in Request PROVE Sound(q)'
    <2>1. CASE q \in D
      BY <1>2, <2>1 DEF Sound, Drop
    <2>2. CASE q \notin D
      BY <1>2, <2>2 DEF Inv, RequestTypes, Sound, Drop, Deserved, Excused, NeededFor
    <2> QED BY <2>1, <2>2
  <1> QED BY <1>1, <1>2

\* Steps that leave the requests alone keep what is said of them.
LEMMA RequestsUntouched ==
    ASSUME Inv, UNCHANGED request_vars
    PROVE  RequestTypes' /\ \A q \in Request : Sound(q)'
  BY DEF Inv, RequestTypes, request_vars, Sound, Deserved, Excused, NeededFor

\* Taking a connection out of a pool that has one, or putting one in, leaves a
\* number of connections in each pool.
LEMMA PoolSteps ==
    ASSUME NEW pool \in [Edge -> Nat], NEW e \in Edge
    PROVE  /\ pool[e] > 0 => [pool EXCEPT ![e] = pool[e] - 1] \in [Edge -> Nat]
           /\ [pool EXCEPT ![e] = pool[e] + 1] \in [Edge -> Nat]
  <1>1. pool[e] \in Nat
    OBVIOUS
  <1>2. pool[e] + 1 \in Nat /\ (pool[e] > 0 => pool[e] - 1 \in Nat)
    BY <1>1
  <1> QED BY <1>2, Zenon

\* A request under way is on one of the edges.
LEMMA EdgeOfInFlight ==
    ASSUME Inv, NEW q \in InFlight
    PROVE  EdgeOf(q) \in Edge
  BY DEF Inv, InFlight, RequestTypes, Sound, EdgeOf, Caller, Callee, Edge, Server

-----------------------------------------------------------------------------
(* One lemma for the steps of a request, one for those of the services *)

LEMMA ProgressKeepsInv ==
    ASSUME Inv, NEW r \in Request, Progress(r)
    PROVE  Inv'
  <1> USE DEF Inv
  <1>1. CASE Reuse(r)
    <2>1. ServiceTypes' /\ ConnTypes'
      <3>1. EdgeOf(r) \in Edge
        BY <1>1, EdgeOfInFlight DEF Reuse, InFlight
      <3> QED BY <1>1, <3>1, PoolSteps DEF Reuse, ServiceTypes, ConnTypes, service_vars
    <2>2. RequestTypes' /\ \A q \in Request : Sound(q)'
      BY <1>1 DEF Reuse, Goto, RequestTypes, Sound, Deserved, Excused, NeededFor
    <2> QED BY <2>1, <2>2
  <1>2. CASE ReuseStale(r)
    <2>1. ServiceTypes' /\ ConnTypes'
      <3>1. EdgeOf(r) \in Edge
        BY <1>2, EdgeOfInFlight DEF ReuseStale, InFlight
      <3> QED BY <1>2, <3>1, PoolSteps DEF ReuseStale, ServiceTypes, ConnTypes, service_vars
    <2>2. RequestTypes' /\ \A q \in Request : Sound(q)'
      BY <1>2, FailKeepsSound DEF ReuseStale, InFlight
    <2> QED BY <2>1, <2>2
  <1>3. CASE Connect(r)
    <2>1. ServiceTypes' /\ ConnTypes'
      BY <1>3 DEF Connect, NeedsConnection, ServiceTypes, ConnTypes, service_vars,
                  EdgeOf, Caller, Callee, RequestTypes, Sound, Server, Edge
    <2>2. RequestTypes' /\ \A q \in Request : Sound(q)'
      BY <1>3 DEF Connect, NeedsConnection, Goto, RequestTypes, Sound, Deserved, Excused,
                  NeededFor
    <2> QED BY <2>1, <2>2
  <1>4. CASE HandshakeRefused(r) \/ ConnectFails(r)
    <2>1. ServiceTypes' /\ ConnTypes'
      BY <1>4 DEF HandshakeRefused, ConnectFails, ServiceTypes, ConnTypes, service_vars,
                  conn_vars
    <2>2. RequestTypes' /\ \A q \in Request : Sound(q)'
      BY <1>4, FailKeepsSound DEF HandshakeRefused, ConnectFails, NeedsConnection, InFlight
    <2> QED BY <2>1, <2>2
  <1>5. CASE FanOut(r)
    <2>1. ServiceTypes' /\ ConnTypes'
      BY <1>5 DEF FanOut, ServiceTypes, ConnTypes, service_vars, conn_vars
    <2>2. target[r] = "order" /\ route[r] = "known"
      BY <1>5 DEF FanOut, NeededFor, RequestTypes, Server
    <2>3. RequestTypes' /\ \A q \in Request : Sound(q)'
      BY <1>5, <2>2 DEF FanOut, Goto, RequestTypes, Sound, Deserved, Excused, NeededFor
    <2> QED BY <2>1, <2>3
  <1>6. CASE Serve(r)
    <2>1. ServiceTypes' /\ ConnTypes'
      BY <1>6 DEF Serve, ServiceTypes, ConnTypes, service_vars, conn_vars
    <2>2. HandlerStatus(r) \in Status
      BY DEF HandlerStatus, Status, RequestTypes, Route
    <2>3. Callee(r) \in Server
      BY DEF Callee, RequestTypes, Server
    <2>4. RequestTypes'
      BY <1>6, <2>2, <2>3 DEF Serve, Goto, RequestTypes
    <2>5. Sound(r)'
      <3>1. CASE hop[r] = 2
        BY <1>6, <3>1, <2>3 DEF Serve, Goto, RequestTypes, Sound, HandlerStatus, Callee
      <3>2. CASE hop[r] = 1
        BY <1>6, <3>2, <2>3 DEF Serve, Goto, RequestTypes, Sound, HandlerStatus, Callee,
                                Deserved, Excused, NeededFor, Route
      <3> QED BY <3>1, <3>2 DEF RequestTypes
    <2>6. \A q \in Request \ {r} : Sound(q)'
      BY <1>6 DEF Serve, Goto, RequestTypes, Sound, Deserved, Excused, NeededFor
    <2> QED BY <2>1, <2>4, <2>5, <2>6
  <1>7. CASE OrderReads(r)
    <2>1. ServiceTypes' /\ ConnTypes'
      <3>1. EdgeOf(r) \in Edge
        BY <1>7, EdgeOfInFlight DEF OrderReads, InFlight
      <3> QED BY <1>7, <3>1, PoolSteps DEF OrderReads, ToPool, ServiceTypes, ConnTypes,
                                          service_vars
    <2>2. OrderStatus(head[r]) = 200 /\ target[r] = "order" /\ route[r] = "known"
      BY <1>7 DEF OrderReads, OrderStatus, HasJson, Sound
    <2>3. RequestTypes'
      BY <1>7, <2>2 DEF OrderReads, RequestTypes, Status, Server
    <2>4. Sound(r)'
      BY <1>7, <2>2 DEF OrderReads, RequestTypes, Sound, Deserved, NeededFor
    <2>5. \A q \in Request \ {r} : Sound(q)'
      BY <1>7 DEF OrderReads, RequestTypes, Sound, Deserved, Excused, NeededFor
    <2> QED BY <2>1, <2>3, <2>4, <2>5
  <1>8. CASE GatewayReads(r)
    <2>1. ServiceTypes' /\ ConnTypes'
      <3>1. EdgeOf(r) \in Edge
        BY <1>8, EdgeOfInFlight DEF GatewayReads, InFlight
      <3> QED BY <1>8, <3>1, PoolSteps DEF GatewayReads, ToPool, ServiceTypes, ConnTypes,
                                          service_vars
    <2>2. /\ GatewayStatus(head[r]) \in Status
          /\ GatewayStatus(head[r]) = 200 <=> head[r] = 200
      BY DEF GatewayStatus, HasJson, Status
    <2>3. RequestTypes'
      BY <1>8, <2>2 DEF GatewayReads, Goto, RequestTypes
    <2>4. \A q \in Request : Sound(q)'
      BY <1>8, <2>2 DEF GatewayReads, Goto, RequestTypes, Sound, Deserved, Excused,
                        NeededFor
    <2> QED BY <2>1, <2>3, <2>4
  <1> QED BY <1>1, <1>2, <1>3, <1>4, <1>5, <1>6, <1>7, <1>8 DEF Progress

\* A crash leaves pools, sessions and certificates well typed.
LEMMA CrashTypes ==
    ASSUME Inv, NEW s \in Service, up' = up \ {s}, PoolsAfterCrash(s),
           CertsAfterCrash(s) \/ UNCHANGED <<cert, listed>>
    PROVE  ServiceTypes' /\ ConnTypes'
  <1>1. ServiceTypes'
    BY DEF Inv, ServiceTypes, CertsAfterCrash
  <1>2. ConnTypes'
    BY DEF Inv, ConnTypes, PoolsAfterCrash
  <1> QED BY <1>1, <1>2

LEMMA NextKeepsInv == Inv /\ [Next]_vars => Inv'
  <1> SUFFICES ASSUME Inv, [Next]_vars PROVE Inv'
    OBVIOUS
  <1>1. CASE \E q \in Request, s \in Server, i \in Id, r \in Route : Receive(q, s, i, r)
    <2>1. PICK p \in Request, s \in Server, i \in Id, r \in Route : Receive(p, s, i, r)
      BY <1>1
    <2>2. ServiceTypes' /\ ConnTypes'
      BY <2>1 DEF Inv, Receive, ServiceTypes, ConnTypes, service_vars, conn_vars
    <2>3. RequestTypes' /\ \A q \in Request : Sound(q)'
      BY <2>1 DEF Inv, Receive, Goto, RequestTypes, Sound, Deserved, Excused, NeededFor
    <2> QED BY <2>2, <2>3 DEF Inv
  <1>0. CASE \E q \in Request, s \in Server : RefusePath(q, s)
    <2>1. PICK p \in Request, s \in Server : RefusePath(p, s)
      BY <1>0
    <2>2. ServiceTypes' /\ ConnTypes'
      BY <2>1 DEF Inv, RefusePath, ServiceTypes, ConnTypes, service_vars, conn_vars
    <2>3. RequestTypes' /\ \A q \in Request : Sound(q)'
      BY <2>1 DEF Inv, RefusePath, Goto, RequestTypes, Sound, Deserved, Excused, NeededFor,
                  Route, Status
    <2> QED BY <2>2, <2>3 DEF Inv
  <1>2. CASE \E q \in Request : Progress(q)
    BY <1>2, ProgressKeepsInv
  <1>3. CASE \E q \in Request : Cancel(q)
    <2>1. ServiceTypes' /\ ConnTypes'
      BY <1>3 DEF Inv, Cancel, ServiceTypes, ConnTypes, service_vars, conn_vars
    <2>2. RequestTypes' /\ \A q \in Request : Sound(q)'
      BY <1>3, DropKeepsSound DEF Cancel
    <2> QED BY <2>1, <2>2 DEF Inv
  <1>4. CASE GatewayCrash
    <2>1. ServiceTypes' /\ ConnTypes'
      BY <1>4, CrashTypes DEF GatewayCrash, Service
    <2>2. RequestTypes' /\ \A q \in Request : Sound(q)'
      BY <1>4, DropKeepsSound DEF GatewayCrash, InFlight
    <2> QED BY <2>1, <2>2 DEF Inv
  <1>5. CASE OrderCrash
    <2>1. ServiceTypes' /\ ConnTypes'
      BY <1>5, CrashTypes DEF OrderCrash, Service
    <2>2. RequestTypes' /\ \A q \in Request : Sound(q)'
      BY <1>5, GatewayFailKeepsSound DEF OrderCrash
    <2> QED BY <2>1, <2>2 DEF Inv
  <1>6. CASE UserCrash
    <2>1. ServiceTypes' /\ ConnTypes'
      BY <1>6, CrashTypes DEF UserCrash, Service
    <2>2. RequestTypes' /\ \A q \in Request : Sound(q)'
      BY <1>6, FailKeepsSound DEF UserCrash
    <2> QED BY <2>1, <2>2 DEF Inv
  <1>7. CASE \E s \in Service : Boot(s)
    BY <1>7, RequestsUntouched DEF Inv, Boot, ServiceTypes, ConnTypes, conn_vars
  <1>8. CASE \E s \in Server : Rotate(s)
    BY <1>8, RequestsUntouched DEF Inv, Rotate, ServiceTypes, ConnTypes, service_vars
  <1>9. CASE \E s \in Client : Expire(s) \/ Revoke(s) \/ PollIntervalEnds(s)
    BY <1>9, RequestsUntouched DEF Inv, Expire, Revoke, PollIntervalEnds, ServiceTypes,
                                   ConnTypes, conn_vars
  <1>10. CASE VaultRestart
    BY <1>10, RequestsUntouched DEF Inv, VaultRestart, ServiceTypes, ConnTypes, conn_vars
  <1>11. CASE \E e \in Edge : IdleCloses(e) \/ StaleNoticed(e)
    BY <1>11, RequestsUntouched DEF Inv, IdleCloses, StaleNoticed, ServiceTypes, ConnTypes,
                                    service_vars
  <1>12. CASE UNCHANGED vars
    BY <1>12, RequestsUntouched DEF Inv, ServiceTypes, ConnTypes, vars, service_vars,
                                    conn_vars
  <1> QED BY <1>0, <1>1, <1>2, <1>3, <1>4, <1>5, <1>6, <1>7, <1>8, <1>9, <1>10, <1>11,
             <1>12
          DEF Next

-----------------------------------------------------------------------------
\* For any number of requests, crashes, restarts and rotations: the gateway
\* reports success only for a complete answer of the route its URL named, and
\* failure only where that route has no answer or the request's own calls broke.
THEOREM AnswersAreSound == Spec => [](TypeOK /\ AnswersAreHonest /\ FailuresAreOwn)
  <1>1. Inv => TypeOK /\ AnswersAreHonest /\ FailuresAreOwn
    BY DEF Inv, ServiceTypes, ConnTypes, RequestTypes, TypeOK, Sound, Deserved, Excused,
           AnswersAreHonest, FailuresAreOwn
  <1> QED BY <1>1, InvInit, NextKeepsInv, PTL DEF Spec

-----------------------------------------------------------------------------
(* Requests only move forward *)

\* Steps that leave the requests alone.
LEMMA KnownUntouched ==
    ASSUME UNCHANGED request_vars, NEW q \in Request
    PROVE  Known(q)' = Known(q)
  BY DEF request_vars, Known

\* The steps of a request itself, and its arrival.
LEMMA OwnStepsMoveForward ==
    ASSUME Inv, NEW r \in Request, NEW q \in Request,
           \/ Progress(r) \/ Cancel(r)
           \/ \E s \in Server : RefusePath(r, s) \/ \E i \in Id, u \in Route : Receive(r, s, i, u)
    PROVE  Known(q)' = Known(q) \/ StepsLeft(q)' < StepsLeft(q)
  <1> USE DEF Inv, RequestTypes, Known, StepsLeft
  <1>1. CASE Reuse(r) \/ Connect(r)
    BY <1>1 DEF Reuse, Connect, NeedsConnection, Goto
  <1>2. CASE ReuseStale(r) \/ HandshakeRefused(r) \/ ConnectFails(r)
    BY <1>2 DEF ReuseStale, HandshakeRefused, ConnectFails, NeedsConnection, Fail, AfterFailure
  <1>3. CASE FanOut(r)
    BY <1>3 DEF FanOut, Goto
  <1>4. CASE Serve(r)
    BY <1>4 DEF Serve, Goto
  <1>5. CASE OrderReads(r) \/ GatewayReads(r)
    BY <1>5 DEF OrderReads, GatewayReads, Goto
  <1>6. CASE Cancel(r)
    BY <1>6 DEF Cancel, Drop
  <1>7. CASE \E s \in Server : RefusePath(r, s) \/ \E i \in Id, u \in Route : Receive(r, s, i, u)
    BY <1>7 DEF RefusePath, Receive, Goto
  <1> QED BY <1>1, <1>2, <1>3, <1>4, <1>5, <1>6, <1>7 DEF Progress

\* A crash ends calls, with an answer of the caller's own or with the caller.
LEMMA CrashesMoveForward ==
    ASSUME Inv, NEW q \in Request, GatewayCrash \/ OrderCrash \/ UserCrash
    PROVE  Known(q)' = Known(q) \/ StepsLeft(q)' < StepsLeft(q)
  <1> USE DEF Inv, RequestTypes, Known, StepsLeft, InFlight
  <1>1. CASE GatewayCrash
    BY <1>1 DEF GatewayCrash, Drop
  <1>2. CASE OrderCrash
    BY <1>2 DEF OrderCrash, Fail, AfterGatewayFailure
  <1>3. CASE UserCrash
    BY <1>3 DEF UserCrash, Fail, AfterFailure
  <1> QED BY <1>1, <1>2, <1>3

\* For any number of requests and failures: a request takes at most seven steps
\* from its arrival to its answer, and the answer never changes (proxy_get;
\* get_order; the callers of both).
THEOREM EveryStepIsForward == Spec => RequestsMoveForward
  <1> DEFINE Forward == \A q \in Request : Known(q)' = Known(q) \/ StepsLeft(q)' < StepsLeft(q)
  <1>1. ASSUME Inv, Next PROVE Forward
    <2>1. CASE \/ \E s \in Service : Boot(s)
               \/ \E s \in Server : Rotate(s)
               \/ \E s \in Client : Expire(s) \/ Revoke(s) \/ PollIntervalEnds(s)
               \/ VaultRestart
               \/ \E e \in Edge : IdleCloses(e) \/ StaleNoticed(e)
      BY <2>1, KnownUntouched DEF Boot, Rotate, Expire, Revoke, PollIntervalEnds, VaultRestart,
                                  IdleCloses, StaleNoticed
    <2>2. CASE \E r \in Request :
                   \/ \E s \in Server :
                          RefusePath(r, s) \/ \E i \in Id, u \in Route : Receive(r, s, i, u)
                   \/ Progress(r) \/ Cancel(r)
      BY <1>1, <2>2, OwnStepsMoveForward
    <2>3. CASE GatewayCrash \/ OrderCrash \/ UserCrash
      BY <1>1, <2>3, CrashesMoveForward
    <2> QED BY <1>1, <2>1, <2>2, <2>3 DEF Next
  <1>2. Inv /\ [Next]_vars => [Forward]_vars
    BY <1>1
  <1> QED BY <1>2, InvInit, NextKeepsInv, PTL DEF Spec, RequestsMoveForward

=============================================================================
