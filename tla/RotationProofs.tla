-------------------------- MODULE RotationProofs --------------------------
(***************************************************************************)
(* The rotation loop for every TTL, latency bound and drift with enough    *)
(* margin: whatever the vault fails, the served certificate is valid       *)
(* except after a lost round, and valid again soon after the vault is      *)
(* back.  A host clock that is ahead, by any amount, changes neither.      *)
(***************************************************************************)
EXTENDS Rotation, TLAPS

\* What a full round may cost: three calls and the pauses of 2 s and 4 s.
RoundCost == 3 * MaxLatency + 6

\* The last tenth of the shortest-lived certificate a renewal delivers,
\* corrected for the drift of its expires_at, is longer than a round.
Margin ==
    /\ RoundCost < CERT_TTL_SECS - MaxLatency
    /\ \A d \in Drift : 10 * RoundCost < CERT_TTL_SECS - MaxLatency - 9 * d

\* The same for a single call.
CallMargin ==
    /\ MaxLatency < CERT_TTL_SECS - MaxLatency
    /\ \A d \in Drift : 10 * MaxLatency < CERT_TTL_SECS - MaxLatency - 9 * d

-----------------------------------------------------------------------------
(* Types and the shape of a round *)

\* The loop variables go together, and a bundle under way is as young as the
\* call it came with.
Shape ==
    /\ phase = "calling"  =>
        /\ attempt \in 1 .. 3
        /\ delay = (IF attempt = 1 THEN 2 ELSE IF attempt = 2 THEN 4 ELSE 8)
        /\ timer <= MaxLatency
        /\ fresh = 0 \/ fresh >= CERT_TTL_SECS - MaxLatency + timer
    /\ phase = "delaying" =>
        /\ attempt \in 1 .. 2
        /\ delay = (IF attempt = 1 THEN 4 ELSE 8)
    /\ phase # "calling" => fresh = 0

ShapeInv == TypeOK /\ Shape

\* The sleep before the next round is a number of seconds.
LEMMA SleepIsNat ==
    ASSUME NEW f \in Nat, NEW d \in Drift
    PROVE  SleepSecs(TtlSecs(f, d)) \in Nat
<1> USE RotationAssumption
<1>1. TtlSecs(f, d) \in Nat
  BY DEF TtlSecs, Floor0
<1> QED  BY <1>1 DEF SleepSecs

LEMMA Constants ==
    /\ SleepSecs(BACK_OFF) = 27
    /\ QuietCap = 28 + MaxLatency
    /\ QuietCap \in Nat
  BY RotationAssumption DEF QuietCap, SleepSecs, BACK_OFF

LEMMA ShapeInit == Init => ShapeInv
<1> SUFFICES ASSUME Init PROVE ShapeInv
  OBVIOUS
<1> USE RotationAssumption
<1>1. life \in Nat /\ life <= CERT_TTL_SECS
  BY DEF Init
<1>2. timer \in Nat
  BY <1>1, SleepIsNat DEF Init
<1>3. TypeOK
  BY <1>1, <1>2, Constants DEF Init, TypeOK, MAX_ATTEMPTS, FIRST_DELAY
<1>4. Shape
  BY DEF Init, Shape
<1> QED  BY <1>3, <1>4 DEF ShapeInv

LEMMA ShapeStep ==
    ASSUME ShapeInv, [Next]_vars
    PROVE  ShapeInv'
<1> USE RotationAssumption, Constants DEF ShapeInv, TypeOK, Shape, MAX_ATTEMPTS, FIRST_DELAY
<1>1. CASE StartRound
  BY <1>1 DEF StartRound
<1>2. CASE RetryAttempt
  BY <1>2 DEF RetryAttempt
<1>3. CASE VaultSigns
  BY <1>3 DEF VaultSigns
<1>4. ASSUME NEW d \in Drift, InstallBundle(d)
      PROVE  ShapeInv'
  BY <1>4, SleepIsNat DEF InstallBundle, SleepOn
<1>5. CASE AttemptFails
  BY <1>5 DEF AttemptFails
<1>6. CASE Tick
  BY <1>6 DEF Tick, Floor0
<1>7. CASE RoundFails
  BY <1>7 DEF RoundFails, SleepOn
<1>8. CASE RefuseBundle
  BY <1>8 DEF RefuseBundle, SleepOn
<1>9. CASE UNCHANGED vars
  BY <1>9 DEF vars
<1> QED  BY <1>1, <1>2, <1>3, <1>4, <1>5, <1>6, <1>7, <1>8, <1>9 DEF Next, TaskStep

\* The loop's variables keep their types for any TTL, latency and drift; in
\* particular retry_renew never makes a fourth attempt (rotation.rs:
\* rotation_loop, retry_renew).
THEOREM RotationTypeCorrect == Spec => []TypeOK
<1>1. Init => ShapeInv
  BY ShapeInit
<1>2. ShapeInv /\ [Next]_vars => ShapeInv'
  BY ShapeStep
<1>3. ShapeInv => TypeOK
  BY DEF ShapeInv
<1> QED  BY <1>1, <1>2, <1>3, PTL DEF Spec

-----------------------------------------------------------------------------
(* Validity: any number of failed attempts within a round *)

\* What is still to come in a round once the current call, made on attempt k,
\* has used up its time.
RestOfRound(k) == IF k = 1 THEN 2 * MaxLatency + 6
                  ELSE IF k = 2 THEN MaxLatency + 4 ELSE 0

\* Unless a round was lost, the served certificate outlives the current wait
\* and what may follow it.
Reserve ==
    last_round = "renewed" =>
        /\ phase = "sleeping" => life > timer + RoundCost
        /\ phase = "calling"  => life > timer + RestOfRound(attempt)
        /\ phase = "delaying" => life > timer + MaxLatency + RestOfRound(attempt + 1)

TimedInv == ShapeInv /\ Reserve

\* Sleeping for 90 % of a new bundle leaves more than a round of it.
LEMMA NinetyPercent ==
    ASSUME Margin,
           NEW f \in Nat, f >= CERT_TTL_SECS - MaxLatency,
           NEW d \in Drift
    PROVE  f > SleepSecs(TtlSecs(f, d)) + RoundCost
<1> USE RotationAssumption
<1>1. d \in Int
  OBVIOUS
<1>2. 10 * RoundCost < CERT_TTL_SECS - MaxLatency - 9 * d
  BY DEF Margin
<1>3. RoundCost \in Nat /\ CERT_TTL_SECS \in Nat /\ MaxLatency \in Nat
  BY DEF RoundCost
<1>4. CASE f + d > 0
  <2>1. SleepSecs(TtlSecs(f, d)) = (9 * (f + d)) \div 10
    BY <1>4 DEF SleepSecs, TtlSecs, Floor0
  <2> QED  BY <1>1, <1>2, <1>3, <1>4, <2>1
<1>5. CASE ~(f + d > 0)
  <2>1. SleepSecs(TtlSecs(f, d)) = 0
    BY <1>5 DEF SleepSecs, TtlSecs, Floor0
  <2>2. f > RoundCost
    BY <1>3 DEF Margin
  <2> QED  BY <2>1, <2>2, <1>3
<1> QED  BY <1>4, <1>5

LEMMA InitReserves ==
    ASSUME Margin, Init
    PROVE  TimedInv
<1>1. ShapeInv
  BY ShapeInit
<1>2. life \in Nat /\ life >= CERT_TTL_SECS - MaxLatency
  BY RotationAssumption DEF Init
<1>3. life > timer + RoundCost
  BY <1>2, NinetyPercent DEF Init
<1> QED  BY <1>1, <1>3 DEF Init, TimedInv, Reserve

LEMMA NextReserves ==
    ASSUME Margin, TimedInv, [Next]_vars
    PROVE  TimedInv'
<1>0. ShapeInv'
  BY ShapeStep DEF TimedInv
<1> USE RotationAssumption, <1>0
    DEF MAX_ATTEMPTS, FIRST_DELAY, TimedInv, ShapeInv, TypeOK, Shape, Reserve, RestOfRound
<1>1. CASE StartRound
  BY <1>1 DEF StartRound, RoundCost
<1>2. CASE RetryAttempt
  BY <1>2 DEF RetryAttempt
<1>3. CASE VaultSigns
  BY <1>3 DEF VaultSigns
<1>4. ASSUME NEW d \in Drift, InstallBundle(d)
      PROVE  TimedInv'
  <2>1. fresh \in Nat /\ fresh >= CERT_TTL_SECS - MaxLatency
    BY <1>4 DEF InstallBundle
  <2>2. fresh > SleepSecs(TtlSecs(fresh, d)) + RoundCost
    BY <2>1, NinetyPercent
  <2> QED  BY <1>4, <2>2 DEF InstallBundle, SleepOn
<1>5. CASE AttemptFails
  BY <1>5 DEF AttemptFails
<1>6. CASE Tick
  BY <1>6 DEF Tick, Floor0, RoundCost
<1>7. CASE RoundFails
  BY <1>7 DEF RoundFails, SleepOn
<1>8. CASE RefuseBundle
  BY <1>8 DEF RefuseBundle, SleepOn
<1>9. CASE UNCHANGED vars
  BY <1>9 DEF vars
<1> QED  BY <1>1, <1>2, <1>3, <1>4, <1>5, <1>6, <1>7, <1>8, <1>9 DEF Next, TaskStep

\* The rotation loop serves an expired certificate only after a round of three
\* attempts has failed, or ended in an unusable bundle, and never once a later
\* round has succeeded (rotation.rs: rotation_loop, retry_renew), under Margin.
THEOREM ActiveCertNeverExpires ==
    ASSUME Margin
    PROVE  Spec => []ActiveCertValid
<1>1. Init => TimedInv
  BY InitReserves
<1>2. TimedInv /\ [Next]_vars => TimedInv'
  BY NextReserves
<1>3. TimedInv => ActiveCertValid
  BY RotationAssumption
     DEF TimedInv, ShapeInv, TypeOK, Shape, Reserve, ActiveCertValid, RestOfRound,
         RoundCost, MAX_ATTEMPTS
<1> QED  BY <1>1, <1>2, <1>3, PTL DEF Spec

-----------------------------------------------------------------------------
(* Recovery: any number of failed rounds and unusable bundles *)

\* Either the certificate lasts beyond the next call, or the last failure is
\* so recent that the call comes, and ends, within QuietCap seconds of it.
Recovering ==
    /\ phase = "sleeping" => life > timer + MaxLatency \/ quiet + timer <= 27
    /\ phase = "calling"  => life > timer \/ quiet + timer <= 27 + MaxLatency
    /\ phase = "delaying" => quiet + timer <= 4

RecoveryInv == ShapeInv /\ Recovering

\* Sleeping for 90 % of a new bundle leaves more than a call of it.
LEMMA NinetyPercentLeavesACall ==
    ASSUME CallMargin,
           NEW f \in Nat, f >= CERT_TTL_SECS - MaxLatency,
           NEW d \in Drift
    PROVE  f > SleepSecs(TtlSecs(f, d)) + MaxLatency
<1> USE RotationAssumption
<1>1. d \in Int
  OBVIOUS
<1>2. 10 * MaxLatency < CERT_TTL_SECS - MaxLatency - 9 * d
  BY DEF CallMargin
<1>3. CASE f + d > 0
  <2>1. SleepSecs(TtlSecs(f, d)) = (9 * (f + d)) \div 10
    BY <1>3 DEF SleepSecs, TtlSecs, Floor0
  <2> QED  BY <1>1, <1>2, <1>3, <2>1
<1>4. CASE ~(f + d > 0)
  <2>1. SleepSecs(TtlSecs(f, d)) = 0
    BY <1>4 DEF SleepSecs, TtlSecs, Floor0
  <2>2. f > MaxLatency
    BY DEF CallMargin
  <2> QED  BY <2>1, <2>2
<1> QED  BY <1>3, <1>4

LEMMA InitRecovers ==
    ASSUME CallMargin, Init
    PROVE  RecoveryInv
<1>1. ShapeInv
  BY ShapeInit
<1>2. life \in Nat /\ life >= CERT_TTL_SECS - MaxLatency
  BY RotationAssumption DEF Init
<1>3. life > timer + MaxLatency
  BY <1>2, NinetyPercentLeavesACall DEF Init
<1> QED  BY <1>1, <1>3 DEF Init, RecoveryInv, Recovering

LEMMA NextRecovers ==
    ASSUME CallMargin, RecoveryInv, [Next]_vars
    PROVE  RecoveryInv'
<1>0. ShapeInv'
  BY ShapeStep DEF RecoveryInv
<1> USE RotationAssumption, Constants, <1>0
    DEF MAX_ATTEMPTS, FIRST_DELAY, RecoveryInv, ShapeInv, TypeOK, Shape, Recovering
<1>1. CASE StartRound
  BY <1>1 DEF StartRound
<1>2. CASE RetryAttempt
  BY <1>2 DEF RetryAttempt
<1>3. CASE VaultSigns
  BY <1>3 DEF VaultSigns
<1>4. ASSUME NEW d \in Drift, InstallBundle(d)
      PROVE  RecoveryInv'
  <2>1. fresh \in Nat /\ fresh >= CERT_TTL_SECS - MaxLatency
    BY <1>4 DEF InstallBundle
  <2>2. fresh > SleepSecs(TtlSecs(fresh, d)) + MaxLatency
    BY <2>1, NinetyPercentLeavesACall
  <2> QED  BY <1>4, <2>2 DEF InstallBundle, SleepOn
<1>5. CASE AttemptFails
  BY <1>5 DEF AttemptFails
<1>6. CASE Tick
  BY <1>6 DEF Tick, Floor0
<1>7. CASE RoundFails
  BY <1>7 DEF RoundFails, SleepOn
<1>8. CASE RefuseBundle
  BY <1>8 DEF RefuseBundle, SleepOn
<1>9. CASE UNCHANGED vars
  BY <1>9 DEF vars
<1> QED  BY <1>1, <1>2, <1>3, <1>4, <1>5, <1>6, <1>7, <1>8, <1>9 DEF Next, TaskStep

\* After an outage of any length the served certificate is valid again once
\* the vault has answered for one back-off and one call (rotation.rs: the
\* ttl = 30 branches of rotation_loop).
THEOREM OutageIsBounded ==
    ASSUME CallMargin
    PROVE  Spec => []RecoversInTime
<1>1. Init => RecoveryInv
  BY InitRecovers
<1>2. RecoveryInv /\ [Next]_vars => RecoveryInv'
  BY NextRecovers
<1>3. RecoveryInv => RecoversInTime
  BY RotationAssumption, Constants
     DEF RecoveryInv, ShapeInv, TypeOK, Shape, Recovering, RecoversInTime, MAX_ATTEMPTS
<1> QED  BY <1>1, <1>2, <1>3, PTL DEF Spec

-----------------------------------------------------------------------------
(* The code's constants *)

\* The TTL of issuer.rs, and an expires_at that this host takes to be at most a
\* second late; it may look as early as it likes, as on a host whose clock is
\* ahead.  The bound on a call is the one thing the code does not set.
CodeConstants ==
    /\ CERT_TTL_SECS = 300
    /\ MaxLatency <= 7
    /\ \A d \in Drift : d <= 1

LEMMA CodeHasMargin ==
    ASSUME CodeConstants
    PROVE  Margin /\ CallMargin
<1>1. CERT_TTL_SECS = 300 /\ MaxLatency \in Nat /\ MaxLatency <= 7
  BY RotationAssumption DEF CodeConstants
<1>2. \A d \in Drift : d \in Int /\ d <= 1
  BY RotationAssumption DEF CodeConstants
<1>3. Margin
  BY <1>1, <1>2 DEF Margin, RoundCost
<1>4. CallMargin
  BY <1>1, <1>2 DEF CallMargin
<1> QED  BY <1>3, <1>4

\* With the code's own constants, whatever fails and however often, and however
\* far this host's clock is ahead of the vault's: as long as a call to the vault
\* takes at most 7 s, the served certificate is valid unless the last round of
\* renewals failed, and valid again soon after the vault is back (rotation.rs:
\* rotation_loop, retry_renew; models.rs: ttl_secs; issuer.rs: CERT_TTL_SECS).
THEOREM TimingOfTheCode ==
    ASSUME CodeConstants
    PROVE  Spec => [](ActiveCertValid /\ RecoversInTime)
<1>1. Margin /\ CallMargin
  BY CodeHasMargin
<1>2. Spec => []ActiveCertValid
  BY <1>1, ActiveCertNeverExpires
<1>3. Spec => []RecoversInTime
  BY <1>1, OutageIsBounded
<1> QED  BY <1>2, <1>3, PTL

=============================================================================
