----------------------------- MODULE MCGateway -----------------------------
(* Gateway for a few users, tokens and requests. *)
EXTENDS Gateway, TLC

Symmetry == Permutations(User) \cup Permutations(Token) \cup Permutations(Request)
            \cup Permutations(FileKey)

=============================================================================
