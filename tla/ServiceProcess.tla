-------------------------- MODULE ServiceProcess --------------------------
(***************************************************************************)
(* One application service (user-service, order-service, api-gateway) from *)
(* main() on: the boot sequence and the Locked / Unsealing / Serving state *)
(* of its identity, the rotation task that runs beside it, the listener    *)
(* that reads the rotating TLS configuration for every connection, and the *)
(* serial the process reports as its own.  (The certificate it presents to *)
(* other services is in module Mesh.)                                      *)
(*                                                                         *)
(* Time is left out (module Rotation has it).  A bundle is the number of   *)
(* the vault's answer that carried it, so a later bundle is a larger       *)
(* number.  Calls to the vault and handshakes end when the other side says *)
(* so, which may be never: no client or server in the code sets a timeout. *)
(***************************************************************************)
EXTENDS Integers

CONSTANTS
    Conn,           \* inbound TCP connections
    NoConn,         \* the accept loop holds no connection
    MaxBundles      \* bound: bundles the vault signs for this service

ASSUME ServiceAssumption ==
    /\ MaxBundles \in Nat
    /\ NoConn \notin Conn

\* Bundles are numbered from 1.
NoBundle == 0

VARIABLES
    main,           \* where main() is
    state,          \* ServiceIdentity.state
    bundle,         \* ServiceIdentity.bundle, and boot.bundle
    inner,          \* RotatingTlsConfig.inner
    serial,         \* RotatingTlsConfig.serial
    vault_bundle,   \* HttpVaultClient.bundle
    cert_serial,    \* AppState.cert_serial, what GET /health reports
    rotation,       \* where the rotation task is
    new_bundle,     \* the rotation task's bundle between renew() and the swap
    accepted,       \* the connection the accept loop holds, if any
    conn,           \* stage of each inbound connection
    config,         \* configuration each connection's handshake uses
    at_accept,      \* history: inner when the connection was accepted
    signed          \* history: bundles signed so far

identity_vars == <<state, bundle>>
tls_vars      == <<inner, serial>>
rot_vars      == <<rotation, new_bundle, vault_bundle>>
conn_vars     == <<accepted, conn, config, at_accept>>
vars == <<main, identity_vars, tls_vars, cert_serial, rot_vars, conn_vars, signed>>

TypeOK ==
    /\ main \in {"start", "nonce", "post", "unsealed", "spawned", "bind",
                 "accepting", "exited"}
    /\ state \in {"Locked", "Unsealing", "Serving"}
    /\ {bundle, inner, serial, vault_bundle, cert_serial, new_bundle} \subseteq 0 .. signed
    /\ rotation \in {"none", "sleeping", "nonce", "post", "build", "swapped"}
    /\ accepted \in Conn \cup {NoConn}
    /\ conn \in [Conn -> {"new", "queued", "accepted", "handshake", "open", "closed"}]
    /\ config \in [Conn -> Nat]
    /\ at_accept \in [Conn -> Nat]
    /\ signed \in 0 .. MaxBundles

Init ==
    /\ main = "start"
    /\ state = "Locked"
    /\ bundle = NoBundle /\ inner = NoBundle /\ serial = NoBundle
    /\ cert_serial = NoBundle
    /\ rotation = "none" /\ new_bundle = NoBundle /\ vault_bundle = NoBundle
    /\ accepted = NoConn
    /\ conn = [c \in Conn |-> "new"]
    /\ config = [c \in Conn |-> NoBundle]
    /\ at_accept = [c \in Conn |-> NoBundle]
    /\ signed = 0

-----------------------------------------------------------------------------
(* Boot *)

\* unseal() sets Unsealing and asks the vault for a nonce.
BeginUnseal ==
    /\ main = "start"
    /\ main' = "nonce"
    /\ state' = "Unsealing"
    /\ UNCHANGED <<bundle, tls_vars, cert_serial, rot_vars, conn_vars, signed>>

\* The nonce arrives, the quote is made (or left empty) and posted.
NonceArrives ==
    /\ main = "nonce"
    /\ main' = "post"
    /\ UNCHANGED <<identity_vars, tls_vars, cert_serial, rot_vars, conn_vars, signed>>

\* Mutant: an answer the vault did not sign is taken for a bundle.
UnsealGrantedUnsigned ==
    /\ main = "post" /\ signed < MaxBundles
    /\ bundle' = signed + 1
    /\ state' = "Serving"
    /\ main' = "unsealed"
    /\ UNCHANGED <<tls_vars, cert_serial, rot_vars, conn_vars, signed>>

\* The vault grants: bundle first, state second.
UnsealGranted ==
    /\ main = "post" /\ signed < MaxBundles
    /\ signed' = signed + 1
    /\ bundle' = signed + 1
    /\ state' = "Serving"
    /\ main' = "unsealed"
    /\ UNCHANGED <<tls_vars, cert_serial, rot_vars, conn_vars>>

\* The process ends; its memory and its connections go with it.
Exit ==
    /\ main' = "exited"
    /\ state' = "Locked"
    /\ bundle' = NoBundle /\ inner' = NoBundle /\ serial' = NoBundle
    /\ cert_serial' = NoBundle
    /\ rotation' = "none" /\ new_bundle' = NoBundle /\ vault_bundle' = NoBundle
    /\ accepted' = NoConn
    /\ conn' = [c \in Conn |-> IF conn[c] = "new" THEN "new" ELSE "closed"]
    /\ UNCHANGED <<config, at_accept>>

\* Mutant: the early return of the rejected branch is missing.
UnsealRejectedGoesOn ==
    /\ main = "post" /\ signed < MaxBundles
    /\ signed' = signed + 1
    /\ bundle' = signed + 1
    /\ state' = "Locked"
    /\ main' = "unsealed"
    /\ UNCHANGED <<tls_vars, cert_serial, rot_vars, conn_vars>>

\* The vault rejects: back to Locked, and main() returns the error.
UnsealRejected ==
    /\ main = "post"
    /\ Exit
    /\ UNCHANGED signed

\* Either call fails; the vault may have signed a bundle that is lost.
UnsealFails ==
    /\ main \in {"nonce", "post"}
    /\ signed' \in IF main = "post" /\ signed < MaxBundles
                   THEN {signed, signed + 1} ELSE {signed}
    /\ Exit

\* RotatingTlsConfig::new, HttpVaultClient::new, spawn_rotation_task.
SpawnRotation ==
    /\ main = "unsealed"
    /\ main' = "spawned"
    /\ inner' = bundle /\ serial' = bundle
    /\ vault_bundle' = bundle
    /\ rotation' = "sleeping"
    /\ UNCHANGED <<identity_vars, cert_serial, new_bundle, conn_vars, signed>>

\* main() builds the application state from the boot result.
BuildAppState ==
    /\ main = "spawned"
    /\ main' = "bind"
    /\ cert_serial' = bundle
    /\ UNCHANGED <<identity_vars, tls_vars, rot_vars, conn_vars, signed>>

\* serve_mtls(): the listener is bound.
Bind ==
    /\ main = "bind"
    /\ main' = "accepting"
    /\ UNCHANGED <<identity_vars, tls_vars, cert_serial, rot_vars, conn_vars, signed>>

\* The TLS configuration, the client or the address is refused: main() ends.
BootFails ==
    /\ main \in {"unsealed", "spawned", "bind"}
    /\ Exit
    /\ UNCHANGED signed

\* The supervisor starts the process again.
Restart ==
    /\ main = "exited"
    /\ main' = "start"
    /\ UNCHANGED <<identity_vars, tls_vars, cert_serial, rot_vars, conn_vars, signed>>

-----------------------------------------------------------------------------
(* The rotation task *)

RotationStep(from, to) ==
    /\ rotation = from
    /\ rotation' = to
    /\ UNCHANGED <<main, identity_vars, cert_serial, conn_vars>>

\* The sleep, or the pause between attempts, is over: renew() asks for a nonce.
Wake ==
    /\ RotationStep("sleeping", "nonce")
    /\ UNCHANGED <<tls_vars, new_bundle, vault_bundle, signed>>

RenewNonceArrives ==
    /\ RotationStep("nonce", "post")
    /\ UNCHANGED <<tls_vars, new_bundle, vault_bundle, signed>>

\* renew() returns a bundle, which the vault client keeps.
RenewGranted ==
    /\ signed < MaxBundles
    /\ RotationStep("post", "build")
    /\ signed' = signed + 1
    /\ new_bundle' = signed + 1
    /\ vault_bundle' = signed + 1
    /\ UNCHANGED tls_vars

\* renew() fails, before or after the vault signed; the old certificate stays.
RenewFails ==
    /\ \/ RotationStep("nonce", "sleeping") /\ signed' = signed
       \/ /\ RotationStep("post", "sleeping")
          /\ signed' \in IF signed < MaxBundles THEN {signed, signed + 1} ELSE {signed}
    /\ UNCHANGED <<tls_vars, new_bundle, vault_bundle>>

\* Mutant: a refused bundle makes the task fall back on the boot certificate.
BundleRefusedRollsBack ==
    /\ RotationStep("build", "sleeping")
    /\ inner' = bundle /\ serial' = bundle
    /\ new_bundle' = NoBundle
    /\ UNCHANGED <<vault_bundle, signed>>

\* rustls refuses the bundle; the old certificate stays.
BundleRefused ==
    /\ RotationStep("build", "sleeping")
    /\ new_bundle' = NoBundle
    /\ UNCHANGED <<tls_vars, vault_bundle, signed>>

\* The swap is two writes under two locks: first the configuration ...
SwapConfig ==
    /\ RotationStep("build", "swapped")
    /\ inner' = new_bundle
    /\ UNCHANGED <<serial, new_bundle, vault_bundle, signed>>

\* Mutant: the serial is not written back.
SwapSerialForgotten ==
    /\ RotationStep("swapped", "sleeping")
    /\ serial' = serial
    /\ new_bundle' = NoBundle
    /\ UNCHANGED <<inner, vault_bundle, signed>>

\* ... then the serial.
SwapSerial ==
    /\ RotationStep("swapped", "sleeping")
    /\ serial' = new_bundle
    /\ new_bundle' = NoBundle
    /\ UNCHANGED <<inner, vault_bundle, signed>>

-----------------------------------------------------------------------------
(* The accept loop *)

ConnStep == UNCHANGED <<main, identity_vars, tls_vars, cert_serial, rot_vars, signed>>

Connect(c) ==
    /\ main = "accepting"
    /\ conn[c] = "new"
    /\ conn' = [conn EXCEPT ![c] = "queued"]
    /\ ConnStep /\ UNCHANGED <<accepted, config, at_accept>>

\* Mutant: the loop accepts the next connection only when no handshake is
\* under way (acceptor.accept() awaited in the loop).
AcceptOneAtATime(c) ==
    /\ main = "accepting" /\ accepted = NoConn
    /\ \A d \in Conn : conn[d] # "handshake"
    /\ conn[c] = "queued"
    /\ conn' = [conn EXCEPT ![c] = "accepted"]
    /\ accepted' = c
    /\ at_accept' = [at_accept EXCEPT ![c] = inner]
    /\ ConnStep /\ UNCHANGED config

\* listener.accept() returns a connection.
Accept(c) ==
    /\ main = "accepting" /\ accepted = NoConn
    /\ conn[c] = "queued"
    /\ conn' = [conn EXCEPT ![c] = "accepted"]
    /\ accepted' = c
    /\ at_accept' = [at_accept EXCEPT ![c] = inner]
    /\ ConnStep /\ UNCHANGED config

\* Mutant: the acceptor built before the loop is used.
ConfigForBoot == bundle

\* tls_config.current()
ConfigFor == inner

\* The current configuration is read and the handshake given a task of its own.
StartHandshake(c) ==
    /\ accepted = c
    /\ conn' = [conn EXCEPT ![c] = "handshake"]
    /\ config' = [config EXCEPT ![c] = ConfigFor]
    /\ accepted' = NoConn
    /\ ConnStep /\ UNCHANGED at_accept

\* The peer completes the handshake, or it fails.
HandshakeEnds(c) ==
    /\ conn[c] = "handshake"
    /\ \E stage \in {"open", "closed"} : conn' = [conn EXCEPT ![c] = stage]
    /\ ConnStep /\ UNCHANGED <<accepted, config, at_accept>>

\* serve_connection() returns.
Close(c) ==
    /\ conn[c] = "open"
    /\ conn' = [conn EXCEPT ![c] = "closed"]
    /\ ConnStep /\ UNCHANGED <<accepted, config, at_accept>>

\* accept() fails (too many open files, say): `?` ends the loop and main().
AcceptFails ==
    /\ main = "accepting" /\ accepted = NoConn
    /\ Exit
    /\ UNCHANGED signed

-----------------------------------------------------------------------------
\* Steps that wait for nobody outside the process.
LocalStep ==
    \/ BeginUnseal \/ SpawnRotation \/ BuildAppState \/ Bind
    \/ \E c \in Conn : Accept(c) \/ StartHandshake(c)

LocalRotationStep == Wake \/ SwapConfig \/ BundleRefused \/ SwapSerial

\* Steps that happen when the vault, a peer or the system says so.
RemoteStep ==
    \/ NonceArrives \/ UnsealGranted \/ UnsealRejected \/ UnsealFails
    \/ BootFails \/ AcceptFails \/ Restart
    \/ RenewNonceArrives \/ RenewGranted \/ RenewFails
    \/ \E c \in Conn : Connect(c) \/ HandshakeEnds(c) \/ Close(c)

Next == LocalStep \/ LocalRotationStep \/ RemoteStep

Spec == Init /\ [][Next]_vars

\* tokio polls main() and the rotation task; nothing is assumed of the vault,
\* of the peers or of the supervisor.
FairSpec == Spec /\ WF_vars(LocalStep) /\ WF_vars(LocalRotationStep)

-----------------------------------------------------------------------------
\* "Serving is the only state in which handlers will accept connections"
\* (identity.rs:19): a listener implies an unsealed identity and a certificate
\* loaded, at every point of the boot sequence and its failures.
AcceptsOnlyWhenServing ==
    main = "accepting" => state = "Serving" /\ inner # NoBundle

\* "New connections - even those arriving in the same millisecond as the swap -
\* will see the new cert" (rotation.rs:11): a handshake never uses a
\* certificate older than the one active when its connection was accepted.
NewConnectionsSeeSwap ==
    \A c \in Conn : conn[c] \in {"handshake", "open"} => config[c] >= at_accept[c]

\* The serial reported beside the configuration is that of the configuration,
\* except between the two writes of the swap, when it is the older one.
SerialFollowsConfig ==
    /\ rotation # "swapped" => serial = inner
    /\ rotation = "swapped" => serial < inner

\* A certificate once swapped in is never replaced by an older one while the
\* process runs, whatever calls were lost in between.
CertNeverGoesBack ==
    [][main' # "exited" => inner' >= inner /\ serial' >= serial]_vars

\* A peer that stalls in its handshake, or a rotation in progress, does not
\* keep the listener from the next connection.
QueuedIsTakenUp ==
    \A c \in Conn : conn[c] = "queued" ~> conn[c] \in {"handshake", "open", "closed"}

(* Refinement *)

Listening == main = "accepting"

StageOf(c) ==
    IF conn[c] \in {"queued", "accepted"} THEN "waiting"
    ELSE IF conn[c] \in {"handshake", "open"} THEN "served"
    ELSE IF conn[c] = "closed" THEN "gone"
    ELSE "new"

Register == INSTANCE CertRegister
    WITH Client <- Conn,
         active <- IF Listening THEN inner ELSE NoBundle,
         stage  <- [c \in Conn |-> StageOf(c)],
         uses   <- config

\* "wraps a ServerConfig ... and atomically swaps it in" (rotation.rs:3): with two
\* locks, an accept loop, handshakes in tasks of their own, lost answers and
\* restarts, the listener behaves as the single register of CertRegister, whose
\* certificates only get newer, also from one process to the next.
ListenerIsRegister == Register!RegisterSpec

(* What the repository says and the code does not do *)

\* models.rs:161: cert_serial is the "Serial of the currently-active TLS
\* certificate", looked at while no swap is going on.
HealthSerialCurrent ==
    main = "accepting" /\ rotation = "sleeping" => cert_serial = serial

=============================================================================
