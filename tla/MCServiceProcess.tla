------------------------- MODULE MCServiceProcess -------------------------
(* ServiceProcess for a few connections and bundles. *)
EXTENDS ServiceProcess, TLC

Symmetry == Permutations(Conn)

=============================================================================
