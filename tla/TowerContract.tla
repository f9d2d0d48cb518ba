--------------------------- MODULE TowerContract ---------------------------
(***************************************************************************)
(* Tower's contract between a layer and the service inside it, without     *)
(* faults, delays or futures: an instance of the service is called at most *)
(* once, only after it was found ready, and holds one of the service's     *)
(* places from then until it is dropped.                                   *)
(***************************************************************************)
EXTENDS Integers, FiniteSets

CONSTANTS
    Instance,   \* instances of the inner service, one to a request
    Capacity    \* places in it

VARIABLE instance       \* "fresh", "reserved", "running" or "gone"

TowerTypeOK == instance \in [Instance -> {"fresh", "reserved", "running", "gone"}]

TowerInit == instance = [i \in Instance |-> "fresh"]

Held == {i \in Instance : instance[i] \in {"reserved", "running"}}

\* poll_ready() says Ready: a place is reserved with the instance.
Reserve(i) ==
    /\ instance[i] = "fresh" /\ Cardinality(Held) < Capacity
    /\ instance' = [instance EXCEPT ![i] = "reserved"]

\* call() on the instance that was ready.
Start(i) ==
    /\ instance[i] = "reserved"
    /\ instance' = [instance EXCEPT ![i] = "running"]

\* The instance, or the future made of it, is dropped.
Release(i) ==
    /\ instance[i] # "gone"
    /\ instance' = [instance EXCEPT ![i] = "gone"]

TowerNext == \E i \in Instance : Reserve(i) \/ Start(i) \/ Release(i)

TowerSpec == TowerInit /\ [][TowerNext]_instance

=============================================================================
