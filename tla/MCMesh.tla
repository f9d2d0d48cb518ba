------------------------------- MODULE MCMesh -------------------------------
(* Mesh for a few requests. *)
EXTENDS Mesh

=============================================================================
