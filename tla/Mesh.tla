-------------------------------- MODULE Mesh --------------------------------
(***************************************************************************)
(* The three application services together: requests go from the gateway   *)
(* (proxy_get) to user-service or order-service, and get_order calls       *)
(* user-service in turn, over mTLS connections that reqwest pools.         *)
(* Services crash and are started again, their inbound configuration       *)
(* rotates, the certificate of an outbound client expires or is revoked.   *)
(*                                                                         *)
(* Each service is ready to serve when it is up (module ServiceProcess)    *)
(* and its inbound certificate is valid (module Rotation).  Requests here  *)
(* have passed the gateway's middleware (module Gateway).                  *)
(***************************************************************************)
EXTENDS Integers, FiniteSets

CONSTANTS
    Request,    \* requests to the gateway's protected routes
    Revocable   \* services whose certificate an operator may revoke

Service == {"gateway", "order", "user"}
Client  == {"gateway", "order"}         \* services with an outbound client
Server  == {"order", "user"}            \* services behind mTLS

\* Who calls whom: one connection pool each.
Edge == {<<"gateway", "order">>, <<"gateway", "user">>, <<"order", "user">>}

\* The route at a service that a URL names: /:id of a seeded entry; of none, or
\* no route at all; /:id of no UUID; or one that needs no entry, the list or
\* /health.
Route == {"known", "unknown", "malformed", "open"}

\* The gateway's path parameter, decoded, as a UUID: of a seeded entry, of none,
\* no UUID; "rewritten": no UUID, and text of which a URL makes something else
\* ("..", "?", "#", "%"); "none": /orders and /users have no parameter.
Id == {"known", "unknown", "malformed", "rewritten", "none"}

ASSUME MeshAssumption == Revocable \subseteq Client

VARIABLES
    up,         \* services that accept connections
    cert,       \* the certificate a client was built with: "valid", "expired"
    listed,     \* its time on the vault's list: "no", "new" within the
                \* 30 s of a poll, "old" after them
    session,    \* edges with a TLS session both sides could resume
    idle,       \* connections in each pool
    stale,      \* those the server has closed and the client has not noticed
    pc,         \* where each request is
    target,     \* the service the gateway calls for it
    route,      \* the route that the URL of that call names
    hop,        \* 1: the gateway's call, 2: get_order's call to user-service
    head,       \* status of the answer to that call; 0 before
    status,     \* the gateway's answer; 0 before
    handled,    \* history: services whose handler succeeded for the request
    broken      \* history: requests one of whose calls got no answer

service_vars == <<up, cert, listed>>
conn_vars    == <<session, idle, stale>>
request_vars == <<pc, target, route, hop, head, status, handled, broken>>
vars == <<service_vars, conn_vars, request_vars>>

Status == {200, 400, 404, 502}

TypeOK ==
    /\ up \subseteq Service
    /\ cert \in [Client -> {"valid", "expired"}]
    /\ listed \in [Client -> {"no", "new", "old"}]
    /\ session \subseteq Edge
    /\ idle \in [Edge -> Nat] /\ stale \in [Edge -> Nat]
    /\ pc \in [Request -> {"new", "calling", "serving", "reading", "done", "dropped"}]
    /\ target \in [Request -> Server]
    /\ route \in [Request -> Route]
    /\ hop \in [Request -> {1, 2}]
    /\ head \in [Request -> Status \cup {0}]
    /\ status \in [Request -> Status \cup {0}]
    /\ handled \in [Request -> SUBSET Server]
    /\ broken \subseteq Request

Init ==
    /\ up = Service
    /\ cert = [s \in Client |-> "valid"] /\ listed = [s \in Client |-> "no"]
    /\ session = {}
    /\ idle = [e \in Edge |-> 0] /\ stale = [e \in Edge |-> 0]
    /\ pc = [q \in Request |-> "new"]
    /\ target = [q \in Request |-> "user"] /\ route = [q \in Request |-> "open"]
    /\ hop = [q \in Request |-> 1]
    /\ head = [q \in Request |-> 0] /\ status = [q \in Request |-> 0]
    /\ handled = [q \in Request |-> {}] /\ broken = {}

Caller(q) == IF hop[q] = 1 THEN "gateway" ELSE "order"
Callee(q) == IF hop[q] = 1 THEN target[q] ELSE "user"
EdgeOf(q) == <<Caller(q), Callee(q)>>

\* The services whose handlers a complete answer needs.
NeededFor(q) == IF target[q] = "order" /\ route[q] = "known" THEN {"order", "user"}
                                                           ELSE {target[q]}

-----------------------------------------------------------------------------
(* Routes and answers *)

\* The gateway puts the decoded parameter into its URL as it is, so that parsing
\* the URL may make any route of the same service of it.
RoutesOf(i) == CASE i \in {"known", "unknown", "malformed"} -> {i}
                 [] i = "rewritten" -> Route
                 [] i = "none" -> {"open"}

\* Of the handlers' answers only the successful ones have a JSON body: the
\* others are a bare StatusCode, or axum's text about a malformed path.
HasJson(s) == s = 200

\* Mutant: a malformed path is turned into an error of the handler's own.
HandlerStatusInternal(q) ==
    CASE hop[q] = 2 \/ route[q] \in {"known", "open"} -> 200
      [] route[q] = "unknown" -> 404
      [] route[q] = "malformed" -> 500

\* Mutant: get_order asks for the user under the order's own id.
HandlerStatusWrongId(q) ==
    CASE hop[q] = 2 -> 404
      [] route[q] \in {"known", "open"} -> 200
      [] route[q] = "unknown" -> 404
      [] route[q] = "malformed" -> 400

\* get_user, the lists, health, get_order before its call, or the router for want
\* of a route.  The users of the seeded orders are all seeded.
HandlerStatus(q) ==
    CASE hop[q] = 2 \/ route[q] \in {"known", "open"} -> 200
      [] route[q] = "unknown" -> 404
      [] route[q] = "malformed" -> 400

\* What get_order makes of user-service's answer.
OrderStatus(s) == IF s = 200 /\ HasJson(s) THEN 200 ELSE 502

\* What proxy_get makes of a service's answer.
GatewayStatus(s) == IF HasJson(s) THEN s ELSE 502

\* Mutant: an order whose user cannot be had is answered without it.
OrderStatusOnFailurePartial == 200

\* What get_order answers when its call fails.
OrderStatusOnFailure == 502

\* Mutant: get_order calls again until user-service answers.
AfterFailureRetry(q) == [pc |-> IF hop[q] = 2 THEN "calling" ELSE "done",
                         hop |-> hop[q], head |-> head[q],
                         status |-> IF hop[q] = 2 THEN status[q] ELSE 502]

\* A request after its current call has failed: get_order answers the gateway,
\* proxy_get its client.
AfterFailure(q) ==
    IF hop[q] = 2
    THEN [pc |-> "reading", hop |-> 1, head |-> OrderStatusOnFailure, status |-> status[q]]
    ELSE [pc |-> "done", hop |-> 1, head |-> head[q], status |-> 502]

\* The gateway's own call fails, whatever was going on behind it.
AfterGatewayFailure(q) == [pc |-> "done", hop |-> 1, head |-> head[q], status |-> 502]

\* The calls of the requests in F end as After says.
Fail(F, After(_)) ==
    /\ pc' = [q \in Request |-> IF q \in F THEN After(q).pc ELSE pc[q]]
    /\ hop' = [q \in Request |-> IF q \in F THEN After(q).hop ELSE hop[q]]
    /\ head' = [q \in Request |-> IF q \in F THEN After(q).head ELSE head[q]]
    /\ status' = [q \in Request |-> IF q \in F THEN After(q).status ELSE status[q]]
    /\ broken' = broken \cup F
    /\ UNCHANGED <<target, route, handled>>

-----------------------------------------------------------------------------
(* A request *)

Goto(q, to) == pc' = [pc EXCEPT ![q] = to]

\* A proxy handler starts and makes the URL of its call.
Receive(q, s, i, r) ==
    /\ pc[q] = "new" /\ "gateway" \in up
    /\ r \in RoutesOf(i)
    /\ Goto(q, "calling")
    /\ target' = [target EXCEPT ![q] = s]
    /\ route' = [route EXCEPT ![q] = r]
    /\ UNCHANGED <<service_vars, conn_vars, hop, head, status, handled, broken>>

\* The parameter does not decode to text: Path<String> answers for the handler.
RefusePath(q, s) ==
    /\ pc[q] = "new" /\ "gateway" \in up
    /\ Goto(q, "done")
    /\ target' = [target EXCEPT ![q] = s]
    /\ route' = [route EXCEPT ![q] = "malformed"]
    /\ status' = [status EXCEPT ![q] = 400]
    /\ UNCHANGED <<service_vars, conn_vars, hop, head, handled, broken>>

\* send() finds a connection in the pool.
Reuse(q) ==
    /\ pc[q] = "calling" /\ idle[EdgeOf(q)] > 0
    /\ idle' = [idle EXCEPT ![EdgeOf(q)] = @ - 1]
    /\ Goto(q, "serving")
    /\ UNCHANGED <<service_vars, session, stale, target, route, hop, head, status,
                   handled, broken>>

\* It finds one that the server has closed, and the request fails with it.
ReuseStale(q) ==
    /\ pc[q] = "calling" /\ stale[EdgeOf(q)] > 0
    /\ stale' = [stale EXCEPT ![EdgeOf(q)] = @ - 1]
    /\ Fail({q}, AfterFailure)
    /\ UNCHANGED <<service_vars, session, idle>>

NeedsConnection(q) ==
    pc[q] = "calling" /\ idle[EdgeOf(q)] = 0 /\ stale[EdgeOf(q)] = 0

\* A new connection.  The certificate is verified in a full handshake; a
\* resumed session stands for the verification of the one before.
Connect(q) ==
    /\ NeedsConnection(q) /\ Callee(q) \in up
    /\ cert[Caller(q)] = "valid" \/ EdgeOf(q) \in session
    /\ session' = session \cup {EdgeOf(q)}
    /\ Goto(q, "serving")
    /\ UNCHANGED <<service_vars, idle, stale, target, route, hop, head, status,
                   handled, broken>>

\* The server refuses the certificate the client was built with.
HandshakeRefused(q) ==
    /\ NeedsConnection(q) /\ Callee(q) \in up
    /\ cert[Caller(q)] = "expired"
    /\ Fail({q}, AfterFailure)
    /\ UNCHANGED <<service_vars, conn_vars>>

\* Nobody listens.
ConnectFails(q) ==
    /\ NeedsConnection(q) /\ Callee(q) \notin up
    /\ Fail({q}, AfterFailure)
    /\ UNCHANGED <<service_vars, conn_vars>>

\* get_order finds the order and calls user-service.
FanOut(q) ==
    /\ pc[q] = "serving" /\ hop[q] = 1 /\ NeededFor(q) = {"order", "user"}
    /\ Goto(q, "calling")
    /\ hop' = [hop EXCEPT ![q] = 2]
    /\ UNCHANGED <<service_vars, conn_vars, target, route, head, status, handled,
                   broken>>

\* Another handler, or get_order for an id it does not know, answers.
Serve(q) ==
    /\ pc[q] = "serving" /\ (hop[q] = 1 => NeededFor(q) = {target[q]})
    /\ Goto(q, "reading")
    /\ head' = [head EXCEPT ![q] = HandlerStatus(q)]
    /\ handled' = [handled EXCEPT ![q] =
                       IF HandlerStatus(q) = 200 THEN @ \cup {Callee(q)} ELSE @]
    /\ UNCHANGED <<service_vars, conn_vars, target, route, hop, status, broken>>

ToPool(q) == idle' = [idle EXCEPT ![EdgeOf(q)] = @ + 1]

\* get_order has user-service's whole answer and gives its own.
OrderReads(q) ==
    /\ pc[q] = "reading" /\ hop[q] = 2
    /\ ToPool(q)
    /\ hop' = [hop EXCEPT ![q] = 1]
    /\ head' = [head EXCEPT ![q] = OrderStatus(head[q])]
    /\ handled' = [handled EXCEPT ![q] =
                       IF OrderStatus(head[q]) = 200 THEN @ \cup {"order"} ELSE @]
    /\ UNCHANGED <<service_vars, session, stale, pc, target, route, status, broken>>

\* proxy_get has the whole answer and gives its own.
GatewayReads(q) ==
    /\ pc[q] = "reading" /\ hop[q] = 1
    /\ ToPool(q)
    /\ Goto(q, "done")
    /\ status' = [status EXCEPT ![q] = GatewayStatus(head[q])]
    /\ UNCHANGED <<service_vars, session, stale, target, route, hop, head, handled,
                   broken>>

\* The gateway's handlers of the requests in D are gone, and nothing is known of
\* those requests any more.
Drop(D) ==
    /\ pc' = [q \in Request |-> IF q \in D THEN "dropped" ELSE pc[q]]
    /\ target' = [q \in Request |-> IF q \in D THEN "user" ELSE target[q]]
    /\ route' = [q \in Request |-> IF q \in D THEN "open" ELSE route[q]]
    /\ hop' = [q \in Request |-> IF q \in D THEN 1 ELSE hop[q]]
    /\ head' = [q \in Request |-> IF q \in D THEN 0 ELSE head[q]]
    /\ handled' = [q \in Request |-> IF q \in D THEN {} ELSE handled[q]]
    /\ broken' = broken \ D
    /\ UNCHANGED status

\* The gateway's client goes away; the handlers behind it are dropped too, with
\* the connections they wait on.
Cancel(q) ==
    /\ pc[q] \in {"calling", "serving", "reading"}
    /\ Drop({q})
    /\ UNCHANGED <<service_vars, conn_vars>>

-----------------------------------------------------------------------------
(* Services and connections *)

InFlight == {q \in Request : pc[q] \in {"calling", "serving", "reading"}}

\* A pool loses what it held when its client dies; when its server dies it
\* keeps the connections until the client notices.
PoolsAfterCrash(s) ==
    /\ idle' = [e \in Edge |-> IF s \in {e[1], e[2]} THEN 0 ELSE idle[e]]
    /\ stale' = [e \in Edge |-> CASE e[1] = s -> 0
                                  [] e[1] # s /\ e[2] = s -> stale[e] + idle[e]
                                  [] OTHER -> stale[e]]
    /\ session' = {e \in session : s \notin {e[1], e[2]}}

\* A crashed service will not use its client's certificate any more.
CertsAfterCrash(s) ==
    /\ cert' = [c \in Client |-> IF c = s THEN "valid" ELSE cert[c]]
    /\ listed' = [c \in Client |-> IF c = s THEN "no" ELSE listed[c]]

\* The gateway dies with its requests.
GatewayCrash ==
    /\ "gateway" \in up /\ up' = up \ {"gateway"}
    /\ Drop(InFlight)
    /\ PoolsAfterCrash("gateway") /\ CertsAfterCrash("gateway")

\* order-service dies: the gateway's calls to it break.
OrderCrash ==
    /\ "order" \in up /\ up' = up \ {"order"}
    /\ Fail({q \in InFlight : target[q] = "order" /\ (hop[q] = 1 => pc[q] # "calling")},
            AfterGatewayFailure)
    /\ PoolsAfterCrash("order") /\ CertsAfterCrash("order")

\* user-service dies: the calls to it break, the gateway's and get_order's.
UserCrash ==
    /\ "user" \in up /\ up' = up \ {"user"}
    /\ Fail({q \in InFlight : Callee(q) = "user" /\ pc[q] # "calling"}, AfterFailure)
    /\ PoolsAfterCrash("user")
    /\ UNCHANGED <<cert, listed>>

\* The supervisor starts a service: new certificate, new client, empty pools.
Boot(s) ==
    /\ s \notin up /\ up' = up \cup {s}
    /\ UNCHANGED <<cert, listed, conn_vars, request_vars>>

\* The rotation task of s installs a new ServerConfig, with a session store of
\* its own.  The outbound client keeps its certificate.
Rotate(s) ==
    /\ s \in up
    /\ session' = {e \in session : e[2] # s}
    /\ UNCHANGED <<service_vars, idle, stale, request_vars>>

\* The certificate that s presents as a client reaches the end of its life.
Expire(s) ==
    /\ s \in up /\ cert[s] = "valid"
    /\ cert' = [cert EXCEPT ![s] = "expired"]
    /\ UNCHANGED <<up, listed, conn_vars, request_vars>>

\* POST /vault/revoke for that certificate.
Revoke(s) ==
    /\ s \in up \cap Revocable /\ listed[s] = "no"
    /\ listed' = [listed EXCEPT ![s] = "new"]
    /\ UNCHANGED <<up, cert, conn_vars, request_vars>>

\* Thirty seconds pass.
PollIntervalEnds(s) ==
    /\ listed[s] = "new"
    /\ listed' = [listed EXCEPT ![s] = "old"]
    /\ UNCHANGED <<up, cert, conn_vars, request_vars>>

\* The vault keeps its list in memory.
VaultRestart ==
    /\ \E s \in Client : listed[s] # "no"
    /\ listed' = [s \in Client |-> "no"]
    /\ UNCHANGED <<up, cert, conn_vars, request_vars>>

\* The client closes a connection that has been idle for long.
IdleCloses(e) ==
    /\ idle[e] > 0
    /\ idle' = [idle EXCEPT ![e] = @ - 1]
    /\ UNCHANGED <<service_vars, session, stale, request_vars>>

\* The client notices a connection its server has closed.
StaleNoticed(e) ==
    /\ stale[e] > 0
    /\ stale' = [stale EXCEPT ![e] = @ - 1]
    /\ UNCHANGED <<service_vars, session, idle, request_vars>>

Progress(q) ==
    \/ Reuse(q) \/ ReuseStale(q) \/ Connect(q) \/ HandshakeRefused(q) \/ ConnectFails(q)
    \/ FanOut(q) \/ Serve(q) \/ OrderReads(q) \/ GatewayReads(q)

Next ==
    \/ \E q \in Request :
        \/ \E s \in Server : RefusePath(q, s) \/ \E i \in Id, r \in Route : Receive(q, s, i, r)
        \/ Progress(q) \/ Cancel(q)
    \/ GatewayCrash \/ OrderCrash \/ UserCrash
    \/ \E s \in Service : Boot(s)
    \/ \E s \in Server : Rotate(s)
    \/ \E s \in Client : Expire(s) \/ Revoke(s) \/ PollIntervalEnds(s)
    \/ VaultRestart
    \/ \E e \in Edge : IdleCloses(e) \/ StaleNoticed(e)

Spec == Init /\ [][Next]_vars

\* The runtimes poll their tasks, and a peer answers or breaks the connection
\* (no call has a timeout).
FairSpec == Spec /\ \A q \in Request : WF_vars(Progress(q))

-----------------------------------------------------------------------------
\* However services crash, restart and rotate while a request is on its way
\* through two of them, the gateway reports success only if the route its
\* URL named has something to answer, and only if every service behind that
\* answer succeeded for this request: no partial order, nothing left over from a
\* broken call.  By RoutesOf a UUID of no entry, and text that a URL leaves alone,
\* are never answered with success; a parameter that the URL rewrites is answered
\* for whatever route came of it.
AnswersAreHonest ==
    \A q \in Request : pc[q] = "done" /\ status[q] = 200 =>
        /\ route[q] \in {"known", "open"}
        /\ NeededFor(q) \subseteq handled[q]

\* A request for an entry that exists, for a list, or for whatever route with an
\* answer its parameter was rewritten to, fails only if one of its own calls broke
\* or could not be made: an error status a handler chose never stands in the way,
\* nor does a failure of another request.
FailuresAreOwn ==
    \A q \in Request : pc[q] = "done" /\ status[q] # 200 =>
        route[q] \in {"unknown", "malformed"} \/ q \in broken

\* Every request ends, whichever service goes down on its way.
RequestsEnd == \A q \in Request : pc[q] = "calling" ~> pc[q] \in {"done", "dropped"}

\* All that is known of a request, and how many steps of its own it has left at
\* most: the gateway's call is connected, served (calling user-service in turn,
\* which is served and read) and read.
Known(q) == <<pc[q], target[q], route[q], hop[q], head[q], status[q], handled[q],
              q \in broken>>

StepsLeft(q) ==
    CASE pc[q] = "new" -> 7
      [] pc[q] = "calling" -> IF hop[q] = 1 THEN 6 ELSE 4
      [] pc[q] = "serving" -> IF hop[q] = 1 THEN 5 ELSE 3
      [] pc[q] = "reading" -> IF hop[q] = 1 THEN 1 ELSE 2
      [] pc[q] \in {"done", "dropped"} -> 0

\* Whatever touches a request, a step of its own or a crash somewhere on its way,
\* brings it nearer to its end: no call is made twice, no failure sends it back,
\* and an answer once given is final.
RequestsMoveForward ==
    [][\A q \in Request : Known(q)' = Known(q) \/ StepsLeft(q)' < StepsLeft(q)]_vars

(* What the repository says and the code does not do *)

\* rotation.rs:1: "Hot certificate rotation without downtime." - no service that
\* is up refuses the certificate of another.
RotationWithoutDowntime == [][\A q \in Request : ~HandshakeRefused(q)]_vars

\* routes.rs:139: "All services poll `GET /vault/crl` every 30 seconds and reject
\* connections from any peer whose cert serial is on the list."
RevokedPeersRejected == [][\A q \in Request : Connect(q) => listed[Caller(q)] # "old"]_vars

=============================================================================
