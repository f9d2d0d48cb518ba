------------------------------ MODULE MCChaos ------------------------------
(* Chaos for a few requests: more of them than the inner service admits. *)
EXTENDS Chaos

=============================================================================
