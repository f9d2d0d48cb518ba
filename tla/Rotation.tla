----------------------------- MODULE Rotation -----------------------------
(***************************************************************************)
(* The timing of certificate renewal in one service                        *)
(* (shared/src/rotation.rs): rotation_loop sleeps for 90 % of the          *)
(* certificate's TTL, retry_renew calls the vault up to three times with   *)
(* growing pauses, a failed round is followed by a back-off, and a success *)
(* installs the new certificate.                                           *)
(*                                                                         *)
(* Time is counted in seconds and kept as distances: timer is what remains *)
(* of the task's current wait, life what remains of the certificate being  *)
(* served.  Nothing grows, so the code's constants are checked unscaled.   *)
(* A step that is due is taken before time passes (tokio wakes a task as   *)
(* soon as its timer fires); a call to the vault takes at most MaxLatency. *)
(***************************************************************************)
EXTENDS Integers

CONSTANTS
    CERT_TTL_SECS,  \* issuer.rs: 300
    MaxLatency,     \* longest a call to renew() takes; the client sets no limit
    Drift           \* expires_at, read on this host, minus the real expiry

ASSUME RotationAssumption ==
    /\ CERT_TTL_SECS \in Nat /\ MaxLatency \in Nat
    /\ MaxLatency < CERT_TTL_SECS
    /\ Drift \subseteq Int

MAX_ATTEMPTS == 3   \* retry_renew(.., 3)
FIRST_DELAY  == 2   \* Duration::from_secs(2)
BACK_OFF     == 30  \* ttl = 30

VARIABLES
    phase,      \* "sleeping", "calling" the vault, "delaying" between attempts
    timer,      \* seconds left of that wait, or of the call's MaxLatency
    attempt,    \* retry_renew's loop variable
    delay,      \* the pause after the next failure
    life,       \* seconds until the served certificate expires; 0 = expired
    fresh,      \* the same for the bundle of the current call; 0 = not signed
    quiet,      \* history: seconds since the last failed attempt, capped
    last_round  \* history: how the latest round ended

vars == <<phase, timer, attempt, delay, life, fresh, quiet, last_round>>

Floor0(n) == IF n > 0 THEN n ELSE 0

\* (ttl as f64 * 0.9) as u64.  The double nearest 0.9 lies above 9/10, so the
\* truncated product is the integer quotient.
SleepSecs(ttl) == (9 * ttl) \div 10

\* Mutant: a negative number of seconds is cast to u64 as it is (the sleep is
\* then longer than any certificate lives).
TtlSecsWraps(f, d) == IF f + d < 0 THEN 10 * CERT_TTL_SECS ELSE f + d

\* CertBundle::ttl_secs() of a bundle that really has f seconds left.
TtlSecs(f, d) == Floor0(f + d)

\* quiet is counted up to the first value RecoversInTime does not distinguish.
QuietCap == SleepSecs(BACK_OFF) + MaxLatency + 1

TypeOK ==
    /\ phase \in {"sleeping", "calling", "delaying"}
    /\ timer \in Nat
    /\ attempt \in 0 .. MAX_ATTEMPTS
    /\ delay \in Nat
    /\ life \in 0 .. CERT_TTL_SECS
    /\ fresh \in 0 .. CERT_TTL_SECS
    /\ quiet \in 0 .. QuietCap
    /\ last_round \in {"renewed", "lost"}

\* spawn_rotation_task(initial_ttl): the bundle of the unseal call has been on
\* its way for up to MaxLatency seconds.
Init ==
    /\ phase = "sleeping"
    /\ life \in (CERT_TTL_SECS - MaxLatency) .. CERT_TTL_SECS
    /\ \E d \in Drift : timer = SleepSecs(TtlSecs(life, d))
    /\ attempt = 0
    /\ delay = FIRST_DELAY
    /\ fresh = 0
    /\ quiet = QuietCap
    /\ last_round = "renewed"

\* The sleep is over: retry_renew() makes its first call.
StartRound ==
    /\ phase = "sleeping" /\ timer = 0
    /\ phase' = "calling"
    /\ timer' = MaxLatency
    /\ attempt' = 1
    /\ delay' = FIRST_DELAY
    /\ UNCHANGED <<life, fresh, quiet, last_round>>

\* During the call the vault signs a certificate (issue(): not_after).
VaultSigns ==
    /\ phase = "calling" /\ fresh = 0
    /\ fresh' = CERT_TTL_SECS
    /\ UNCHANGED <<phase, timer, attempt, delay, life, quiet, last_round>>

\* The loop goes back to sleep on the given ttl.
SleepOn(ttl) ==
    /\ phase' = "sleeping"
    /\ timer' = SleepSecs(ttl)
    /\ fresh' = 0
    /\ attempt' = 0
    /\ UNCHANGED delay

\* renew() returns a bundle rustls accepts: it is swapped in, and the next
\* sleep is computed from it.
InstallBundle(d) ==
    /\ phase = "calling" /\ fresh > 0
    /\ life' = fresh
    /\ SleepOn(TtlSecs(fresh, d))
    /\ last_round' = "renewed"
    /\ UNCHANGED quiet

\* renew() returns a bundle rustls refuses: the old certificate stays.
RefuseBundle ==
    /\ phase = "calling" /\ fresh > 0
    /\ SleepOn(BACK_OFF)
    /\ quiet' = 0
    /\ last_round' = "lost"
    /\ UNCHANGED life

\* Mutant: one attempt too many.
AttemptFailsOneMore ==
    /\ phase = "calling" /\ attempt <= MAX_ATTEMPTS
    /\ phase' = "delaying"
    /\ timer' = delay
    /\ delay' = delay * 2
    /\ fresh' = 0
    /\ quiet' = 0
    /\ UNCHANGED <<attempt, life, last_round>>

\* renew() fails and attempts are left.  A certificate the vault had signed
\* for this call is lost.
AttemptFails ==
    /\ phase = "calling" /\ attempt < MAX_ATTEMPTS
    /\ phase' = "delaying"
    /\ timer' = delay
    /\ delay' = delay * 2
    /\ fresh' = 0
    /\ quiet' = 0
    /\ UNCHANGED <<attempt, life, last_round>>

\* Mutant: the loop keeps its old ttl after a failed round.
RoundFailsKeepsTtl ==
    /\ phase = "calling" /\ attempt = MAX_ATTEMPTS
    /\ SleepOn(CERT_TTL_SECS)
    /\ quiet' = 0
    /\ last_round' = "lost"
    /\ UNCHANGED life

\* The last attempt fails: back off, whatever is left of the certificate.
RoundFails ==
    /\ phase = "calling" /\ attempt = MAX_ATTEMPTS
    /\ SleepOn(BACK_OFF)
    /\ quiet' = 0
    /\ last_round' = "lost"
    /\ UNCHANGED life

RetryAttempt ==
    /\ phase = "delaying" /\ timer = 0
    /\ phase' = "calling"
    /\ timer' = MaxLatency
    /\ attempt' = attempt + 1
    /\ UNCHANGED <<delay, life, fresh, quiet, last_round>>

\* A second passes.
Tick ==
    /\ timer > 0
    /\ timer' = timer - 1
    /\ life' = Floor0(life - 1)
    /\ fresh' = Floor0(fresh - 1)
    /\ quiet' = IF quiet < QuietCap THEN quiet + 1 ELSE quiet
    /\ UNCHANGED <<phase, attempt, delay, last_round>>

TaskStep ==
    \/ StartRound
    \/ RetryAttempt
    \/ VaultSigns
    \/ \E d \in Drift : InstallBundle(d)
    \/ RefuseBundle
    \/ AttemptFails
    \/ RoundFails

Next == TaskStep \/ Tick

Spec == Init /\ [][Next]_vars

-----------------------------------------------------------------------------
\* The listener never serves an expired certificate, unless a whole round of
\* renewals has just failed: 90 % of the TTL leaves room for both pauses and
\* three slow calls, and one successful round is enough to start afresh, however
\* many failed before it.  A clock that is ahead does no harm, as ttl_secs() stops
\* at 0: the task then sleeps too little, never too long.
ActiveCertValid == last_round = "renewed" => life > 0

\* Whatever fails, and for however long: once the vault has been answering for
\* one back-off and one call, the certificate served is valid again.
RecoversInTime == life = 0 => quiet < QuietCap

=============================================================================
