---------------------------- MODULE CertRegister ----------------------------
(***************************************************************************)
(* What a service promises about the certificate it is served under,       *)
(* without its boot sequence, its rotation task or its two locks: at any   *)
(* moment the listener has one certificate or is down; a connection is     *)
(* served, in one step, with the very certificate the listener has then;   *)
(* and a certificate put up is newer than every one a connection was ever  *)
(* served with, in this process or an earlier one.                         *)
(***************************************************************************)
EXTENDS Integers

CONSTANT Client     \* inbound connections

VARIABLES
    active,     \* number of the listener's certificate, 0 while it is down
    stage,      \* client -> "new", "waiting", "served" or "gone"
    uses        \* client -> the certificate it was last served with, 0 for none

register_vars == <<active, stage, uses>>

RegisterTypeOK ==
    /\ active \in Nat
    /\ stage \in [Client -> {"new", "waiting", "served", "gone"}]
    /\ uses \in [Client -> Nat]

RegisterInit ==
    /\ active = 0
    /\ stage = [c \in Client |-> "new"]
    /\ uses = [c \in Client |-> 0]

\* The listener comes up, or is given its next certificate.
Publish ==
    /\ active' \in Nat /\ active' > active
    /\ \A c \in Client : uses[c] < active'
    /\ UNCHANGED <<stage, uses>>

\* The listener goes down, and all that was connected with it.
Shut ==
    /\ active' = 0
    /\ stage' = [c \in Client |-> IF stage[c] = "new" THEN "new" ELSE "gone"]
    /\ UNCHANGED uses

Arrive(c) ==
    /\ active # 0 /\ stage[c] = "new"
    /\ stage' = [stage EXCEPT ![c] = "waiting"]
    /\ UNCHANGED <<active, uses>>

Serve(c) ==
    /\ active # 0 /\ stage[c] = "waiting"
    /\ stage' = [stage EXCEPT ![c] = "served"]
    /\ uses' = [uses EXCEPT ![c] = active]
    /\ UNCHANGED active

Leave(c) ==
    /\ stage[c] = "served"
    /\ stage' = [stage EXCEPT ![c] = "gone"]
    /\ UNCHANGED <<active, uses>>

RegisterNext ==
    \/ Publish
    \/ Shut
    \/ \E c \in Client : Arrive(c) \/ Serve(c) \/ Leave(c)

RegisterSpec == RegisterInit /\ [][RegisterNext]_register_vars

=============================================================================
