--------------------------- MODULE ServiceProofs ---------------------------
(***************************************************************************)
(* The safety properties of a service process, for any number of           *)
(* connections, bundles and restarts.                                      *)
(***************************************************************************)
EXTENDS ServiceProcess, TLAPS

\* What each stage of main() has behind it.
BootInv ==
    /\ main \in {"unsealed", "spawned", "bind", "accepting"} =>
         state = "Serving" /\ bundle # NoBundle
    /\ main \in {"spawned", "bind", "accepting"} <=> rotation # "none"
    /\ rotation # "none" => inner # NoBundle
    /\ rotation = "none" => inner = NoBundle /\ serial = NoBundle

\* A bundle on its way in is newer than the one being served.
SwapInv ==
    /\ rotation = "build" => new_bundle > inner
    /\ rotation = "swapped" => new_bundle = inner /\ serial < inner
    /\ rotation # "swapped" => serial = inner

\* A connection in hand was accepted under the current configuration or an
\* older one.
ConnInv ==
    /\ accepted # NoConn => main = "accepting" /\ at_accept[accepted] <= inner
    /\ \A c \in Conn : conn[c] = "accepted" <=> accepted = c
    /\ NewConnectionsSeeSwap

ServiceInv == TypeOK /\ BootInv /\ SwapInv /\ ConnInv

LEMMA ServiceInit == Init => ServiceInv
  BY ServiceAssumption
     DEF Init, ServiceInv, TypeOK, BootInv, SwapInv, ConnInv, NewConnectionsSeeSwap,
         NoBundle

\* The end of the process clears what the invariant is about.
LEMMA ExitStep ==
    ASSUME ServiceInv, Exit, signed' \in signed .. MaxBundles
    PROVE  ServiceInv'
  BY ServiceAssumption
     DEF Exit, ServiceInv, TypeOK, BootInv, SwapInv, ConnInv, NewConnectionsSeeSwap,
         NoBundle

LEMMA ServiceStep ==
    ASSUME ServiceInv, [Next]_vars
    PROVE  ServiceInv'
<1> USE ServiceAssumption
    DEF ServiceInv, TypeOK, BootInv, SwapInv, ConnInv, NewConnectionsSeeSwap, NoBundle,
        identity_vars, tls_vars, rot_vars, conn_vars
<1>1. CASE BeginUnseal
  BY <1>1 DEF BeginUnseal
<1>2. CASE NonceArrives
  BY <1>2 DEF NonceArrives
<1>3. CASE UnsealGranted
  BY <1>3 DEF UnsealGranted
<1>4. CASE UnsealRejected \/ UnsealFails \/ BootFails \/ AcceptFails
  BY <1>4, ExitStep DEF UnsealRejected, UnsealFails, BootFails, AcceptFails
<1>5. CASE SpawnRotation
  BY <1>5 DEF SpawnRotation
<1>6. CASE BuildAppState
  BY <1>6 DEF BuildAppState
<1>7. CASE Bind \/ Restart
  BY <1>7 DEF Bind, Restart
<1>8. CASE Wake \/ RenewNonceArrives
  BY <1>8 DEF Wake, RenewNonceArrives, RotationStep
<1>9. CASE RenewGranted
  BY <1>9 DEF RenewGranted, RotationStep
<1>10. CASE RenewFails
  BY <1>10 DEF RenewFails, RotationStep
<1>11. CASE BundleRefused
  BY <1>11 DEF BundleRefused, RotationStep
<1>12. CASE SwapConfig
  BY <1>12 DEF SwapConfig, RotationStep
<1>13. CASE SwapSerial
  BY <1>13 DEF SwapSerial, RotationStep
<1>14. ASSUME NEW c \in Conn, Connect(c) \/ HandshakeEnds(c) \/ Close(c)
       PROVE  ServiceInv'
  BY <1>14 DEF Connect, HandshakeEnds, Close, ConnStep
<1>15. ASSUME NEW c \in Conn, Accept(c)
       PROVE  ServiceInv'
  BY <1>15 DEF Accept, ConnStep
<1>16. ASSUME NEW c \in Conn, StartHandshake(c)
       PROVE  ServiceInv'
  BY <1>16 DEF StartHandshake, ConfigFor, ConnStep
<1>17. CASE UNCHANGED vars
  BY <1>17 DEF vars
<1> QED
  BY <1>1, <1>2, <1>3, <1>4, <1>5, <1>6, <1>7, <1>8, <1>9, <1>10, <1>11, <1>12,
     <1>13, <1>14, <1>15, <1>16, <1>17
     DEF Next, LocalStep, LocalRotationStep, RemoteStep

\* A listener is only ever up in the Serving state with a certificate loaded
\* (identity.rs, boot.rs), the serial follows the configuration through the
\* two-write swap (rotation.rs), and a handshake never uses a certificate older
\* than the one active when its connection was accepted (serve_mtls).
THEOREM ServiceIsSafe ==
    Spec => []( /\ TypeOK
                /\ AcceptsOnlyWhenServing
                /\ SerialFollowsConfig
                /\ NewConnectionsSeeSwap )
<1>1. Init => ServiceInv
  BY ServiceInit
<1>2. ServiceInv /\ [Next]_vars => ServiceInv'
  BY ServiceStep
<1>3. ServiceInv => /\ TypeOK /\ AcceptsOnlyWhenServing
                    /\ SerialFollowsConfig /\ NewConnectionsSeeSwap
  BY DEF ServiceInv, BootInv, SwapInv, ConnInv, AcceptsOnlyWhenServing,
         SerialFollowsConfig
<1> QED  BY <1>1, <1>2, <1>3, PTL DEF Spec

\* Rotation only ever moves forward: lost answers, refused bundles and retries
\* never bring an older certificate back (rotation.rs: rotation_loop).
THEOREM CertOnlyMovesForward == Spec => CertNeverGoesBack
<1> DEFINE Forward == main' # "exited" => inner' >= inner /\ serial' >= serial
<1>1. Init => ServiceInv
  BY ServiceInit
<1>2. ServiceInv /\ [Next]_vars => ServiceInv'
  BY ServiceStep
<1>3. ASSUME ServiceInv, Next
      PROVE  Forward
  <2> USE DEF ServiceInv, TypeOK, SwapInv, BootInv, NoBundle, tls_vars
  <2>1. inner \in Nat /\ serial \in Nat
    BY <1>3
  <2>2. CASE LocalRotationStep
    BY <1>3, <2>1, <2>2 DEF LocalRotationStep, Wake, SwapConfig, BundleRefused, SwapSerial,
                      RotationStep
  <2>3. CASE LocalStep
    BY <1>3, <2>1, <2>3 DEF LocalStep, BeginUnseal, SpawnRotation, BuildAppState, Bind,
                      Accept, StartHandshake, ConnStep
  <2>4. CASE RemoteStep
    BY <1>3, <2>1, <2>4 DEF RemoteStep, NonceArrives, UnsealGranted, UnsealRejected,
                      UnsealFails, BootFails, AcceptFails, Exit, Restart,
                      RenewNonceArrives, RenewGranted, RenewFails, RotationStep,
                      Connect, HandshakeEnds, Close, ConnStep
  <2> QED  BY <1>3, <2>2, <2>3, <2>4 DEF Next
<1>4. ServiceInv /\ [Next]_vars => [Forward]_vars
  BY <1>3
<1> QED  BY <1>1, <1>2, <1>4, PTL DEF Spec, CertNeverGoesBack

-----------------------------------------------------------------------------
(* The listener implements CertRegister *)

\* No connection was ever served with a certificate as new as one that is still
\* to be put up; without a listener there are no connections.
RegisterInv ==
    /\ \A c \in Conn : config[c] <= signed
    /\ main = "unsealed" => \A c \in Conn : config[c] < bundle
    /\ main \in {"spawned", "bind"} => \A c \in Conn : config[c] < inner
    /\ main = "accepting" => \A c \in Conn : config[c] <= inner
    /\ main # "accepting" => \A c \in Conn : conn[c] \in {"new", "closed"}

LEMMA RegisterExit ==
    ASSUME ServiceInv, RegisterInv, Exit, signed' \in signed .. MaxBundles
    PROVE  RegisterInv'
  BY ServiceAssumption DEF Exit, ServiceInv, TypeOK, RegisterInv

LEMMA RegisterInvStep ==
    ASSUME ServiceInv, RegisterInv, [Next]_vars
    PROVE  RegisterInv'
<1> USE ServiceAssumption
    DEF ServiceInv, TypeOK, BootInv, SwapInv, ConnInv, RegisterInv, NoBundle,
        identity_vars, tls_vars, rot_vars, conn_vars
<1>1. CASE BeginUnseal \/ NonceArrives \/ BuildAppState \/ Bind \/ Restart
  BY <1>1 DEF BeginUnseal, NonceArrives, BuildAppState, Bind, Restart
<1>2. CASE UnsealGranted
  BY <1>2 DEF UnsealGranted
<1>3. CASE UnsealRejected \/ UnsealFails \/ BootFails \/ AcceptFails
  BY <1>3, RegisterExit DEF UnsealRejected, UnsealFails, BootFails, AcceptFails
<1>4. CASE SpawnRotation
  BY <1>4 DEF SpawnRotation
<1>5. CASE Wake \/ RenewNonceArrives \/ BundleRefused \/ SwapSerial
  BY <1>5 DEF Wake, RenewNonceArrives, BundleRefused, SwapSerial, RotationStep
<1>6. CASE RenewGranted
  BY <1>6 DEF RenewGranted, RotationStep
<1>7. CASE RenewFails
  BY <1>7 DEF RenewFails, RotationStep
<1>8. CASE SwapConfig
  BY <1>8 DEF SwapConfig, RotationStep
<1>9. ASSUME NEW c \in Conn, Connect(c) \/ HandshakeEnds(c) \/ Close(c) \/ Accept(c)
      PROVE  RegisterInv'
  BY <1>9 DEF Connect, HandshakeEnds, Close, Accept, ConnStep
<1>10. ASSUME NEW c \in Conn, StartHandshake(c)
       PROVE  RegisterInv'
  BY <1>10 DEF StartHandshake, ConfigFor, ConnStep
<1>11. CASE UNCHANGED vars
  BY <1>11 DEF vars
<1> QED
  BY <1>1, <1>2, <1>3, <1>4, <1>5, <1>6, <1>7, <1>8, <1>9, <1>10, <1>11
     DEF Next, LocalStep, LocalRotationStep, RemoteStep

ActiveBar == IF Listening THEN inner ELSE NoBundle
StageBar == [c \in Conn |-> StageOf(c)]
BarUnchanged == ActiveBar' = ActiveBar /\ StageBar' = StageBar /\ config' = config

\* With or without a listener, the end of the process is Shut or no step.
LEMMA RegisterShuts ==
    ASSUME ServiceInv, RegisterInv, Exit
    PROVE  Register!Shut
<1>1. ActiveBar' = 0 /\ config' = config
  BY DEF Exit, ActiveBar, Listening, NoBundle
<1>2. \A c \in Conn : StageOf(c)' = IF StageOf(c) = "new" THEN "new" ELSE "gone"
  BY DEF Exit, StageOf, ServiceInv, TypeOK
<1>3. StageBar' = [c \in Conn |-> IF StageBar[c] = "new" THEN "new" ELSE "gone"]
  BY <1>2 DEF StageBar
<1> QED  BY <1>1, <1>3 DEF Register!Shut, ActiveBar, StageBar

LEMMA RegisterStep ==
    ASSUME ServiceInv, RegisterInv, [Next]_vars
    PROVE  Register!RegisterNext \/ BarUnchanged
<1> USE DEF NoBundle, identity_vars, tls_vars, rot_vars, conn_vars
<1>1. ASSUME UNCHANGED <<conn, config>>, ~Listening, ~Listening'
      PROVE  BarUnchanged
  BY <1>1 DEF BarUnchanged, ActiveBar, StageBar, StageOf
<1>2. ASSUME UNCHANGED <<conn, config, main, inner>>
      PROVE  BarUnchanged
  BY <1>2 DEF BarUnchanged, ActiveBar, StageBar, StageOf, Listening
<1>3. CASE BeginUnseal \/ NonceArrives \/ UnsealGranted \/ SpawnRotation
           \/ BuildAppState \/ Restart
  BY <1>1, <1>3
     DEF BeginUnseal, NonceArrives, UnsealGranted, SpawnRotation, BuildAppState, Restart,
         Listening
<1>4. CASE UnsealRejected \/ UnsealFails \/ BootFails \/ AcceptFails
  BY <1>4, RegisterShuts
     DEF UnsealRejected, UnsealFails, BootFails, AcceptFails, Register!RegisterNext
<1>5. CASE Wake \/ RenewNonceArrives \/ RenewGranted \/ RenewFails \/ BundleRefused
           \/ SwapSerial
  BY <1>2, <1>5 DEF Wake, RenewNonceArrives, RenewGranted, RenewFails, BundleRefused,
                    SwapSerial, RotationStep
<1>6. CASE Bind
  <2>1. ActiveBar = 0 /\ ActiveBar' = inner
    BY <1>6 DEF Bind, ActiveBar, Listening
  <2>2. inner \in Nat /\ inner > 0 /\ \A c \in Conn : config[c] < inner
    BY <1>6 DEF Bind, ServiceInv, TypeOK, BootInv, RegisterInv
  <2>3. StageBar' = StageBar /\ config' = config
    BY <1>6 DEF Bind, StageBar, StageOf
  <2>4. Register!Publish
    BY <2>1, <2>2, <2>3 DEF Register!Publish, ActiveBar, StageBar
  <2> QED  BY <2>4 DEF Register!RegisterNext
<1>7. CASE SwapConfig /\ Listening
  <2>1. ActiveBar = inner /\ ActiveBar' = new_bundle
    BY <1>7 DEF SwapConfig, RotationStep, ActiveBar, Listening
  <2>2. /\ inner \in Nat /\ new_bundle \in Nat /\ new_bundle > inner
        /\ \A c \in Conn : config[c] \in Nat /\ config[c] <= inner
    BY <1>7 DEF SwapConfig, RotationStep, Listening, ServiceInv, TypeOK, SwapInv, RegisterInv
  <2>3. StageBar' = StageBar /\ config' = config
    BY <1>7 DEF SwapConfig, RotationStep, StageBar, StageOf
  <2>4. Register!Publish
    BY <2>1, <2>2, <2>3 DEF Register!Publish, ActiveBar, StageBar
  <2> QED  BY <2>4 DEF Register!RegisterNext
<1>8. CASE SwapConfig /\ ~Listening
  BY <1>1, <1>8 DEF SwapConfig, RotationStep, Listening
<1>9. ASSUME NEW c \in Conn, Accept(c)
      PROVE  BarUnchanged
  <2>1. \A d \in Conn : StageOf(d)' = StageOf(d)
    BY <1>9 DEF Accept, StageOf, ServiceInv, TypeOK
  <2> QED
    BY <1>9, <2>1 DEF Accept, ConnStep, BarUnchanged, ActiveBar, StageBar, Listening
<1>10. ASSUME NEW c \in Conn, Connect(c)
       PROVE  Register!RegisterNext
  <2>1. \A d \in Conn : StageOf(d)' = IF d = c THEN "waiting" ELSE StageOf(d)
    BY <1>10 DEF Connect, StageOf, ServiceInv, TypeOK
  <2>2. /\ StageBar' = [StageBar EXCEPT ![c] = "waiting"] /\ StageBar[c] = "new"
    BY <1>10, <2>1 DEF Connect, StageBar, StageOf
  <2>3. ActiveBar' = ActiveBar /\ ActiveBar # 0 /\ config' = config
    BY <1>10 DEF Connect, ConnStep, ActiveBar, Listening, ServiceInv, BootInv
  <2>4. Register!Arrive(c)
    BY <2>2, <2>3 DEF Register!Arrive, ActiveBar, StageBar
  <2> QED  BY <2>4 DEF Register!RegisterNext
<1>11. ASSUME NEW c \in Conn, StartHandshake(c)
       PROVE  Register!RegisterNext
  <2>1. main = "accepting" /\ accepted = c
    BY <1>11, ServiceAssumption DEF StartHandshake, ServiceInv, ConnInv
  <2>2. ActiveBar' = ActiveBar /\ ActiveBar = inner /\ inner # 0
    BY <1>11, <2>1 DEF StartHandshake, ConnStep, ActiveBar, Listening, ServiceInv, BootInv
  <2>3. conn[c] = "accepted"
    BY <1>11, <2>1 DEF ServiceInv, ConnInv
  <2>4. \A d \in Conn : StageOf(d)' = IF d = c THEN "served" ELSE StageOf(d)
    BY <1>11 DEF StartHandshake, StageOf, ServiceInv, TypeOK
  <2>5. StageBar' = [StageBar EXCEPT ![c] = "served"] /\ StageBar[c] = "waiting"
    BY <2>3, <2>4 DEF StageBar, StageOf
  <2>6. config' = [config EXCEPT ![c] = inner]
    BY <1>11 DEF StartHandshake, ConfigFor
  <2>7. Register!Serve(c)
    BY <2>2, <2>5, <2>6 DEF Register!Serve, ActiveBar, StageBar
  <2> QED  BY <2>7 DEF Register!RegisterNext
<1>12. ASSUME NEW c \in Conn, HandshakeEnds(c) \/ Close(c)
       PROVE  Register!RegisterNext \/ BarUnchanged
  <2>1. /\ UNCHANGED <<main, inner, config>> /\ StageOf(c) = "served"
        /\ \A d \in Conn \ {c} : StageOf(d)' = StageOf(d)
        /\ StageOf(c)' \in {"served", "gone"}
    BY <1>12 DEF HandshakeEnds, Close, ConnStep, StageOf, ServiceInv, TypeOK
  <2>2. ActiveBar' = ActiveBar /\ config' = config
    BY <2>1 DEF ActiveBar, Listening
  <2>3. CASE StageOf(c)' = "served"
    BY <2>1, <2>2, <2>3 DEF BarUnchanged, StageBar
  <2>4. CASE StageOf(c)' = "gone"
    <3>1. StageBar' = [StageBar EXCEPT ![c] = "gone"] /\ StageBar[c] = "served"
      BY <2>1, <2>4 DEF StageBar
    <3>2. Register!Leave(c)
      BY <2>2, <3>1 DEF Register!Leave, ActiveBar, StageBar
    <3> QED  BY <3>2 DEF Register!RegisterNext
  <2> QED  BY <2>1, <2>3, <2>4
<1>13. CASE UNCHANGED vars
  BY <1>2, <1>13 DEF vars
<1> QED
  BY <1>3, <1>4, <1>5, <1>6, <1>7, <1>8, <1>9, <1>10, <1>11, <1>12, <1>13
     DEF Next, LocalStep, LocalRotationStep, RemoteStep

\* Two locks, an accept loop, handshakes in their own tasks, a rotation task and
\* restarts add up to one atomic register that only moves forward (rotation.rs:
\* RotatingTlsConfig, rotation_loop; serve_mtls; identity.rs: unseal).
THEOREM ServiceImplementsRegister == Spec => ListenerIsRegister
<1>1. Init => Register!RegisterInit
  BY DEF Init, Register!RegisterInit, StageOf, Listening, NoBundle
<1>2. Init => ServiceInv /\ RegisterInv
  BY ServiceInit DEF Init, RegisterInv, NoBundle
<1>3. ServiceInv /\ RegisterInv /\ [Next]_vars => ServiceInv' /\ RegisterInv'
  BY ServiceStep, RegisterInvStep
<1>4. ServiceInv /\ RegisterInv /\ [Next]_vars =>
        [Register!RegisterNext]_(Register!register_vars)
  BY RegisterStep DEF BarUnchanged, ActiveBar, StageBar, Register!register_vars
<1> QED
  BY <1>1, <1>2, <1>3, <1>4, PTL DEF Spec, ListenerIsRegister, Register!RegisterSpec

=============================================================================
