------------------------------ MODULE MCVault ------------------------------
(* Instances of Vault for TLC. *)
EXTENDS Vault, TLC

CONSTANTS m1, m2, s1

Body(op, m, t, q) ==
    [op |-> op, service |-> s1, machine |-> m, nonce |-> t, quote |-> q]

\* What well-behaved and careless callers post: the right quote, no quote, the
\* same nonce in the other spelling, a wrong quote, a machine that is not on
\* the list, a nonce that is not hex (no nonce at all is refused the same way).
AllInputs ==
    {Body(op, m1, HexEncode(n), Sha256(n)) : op \in {"unseal", "renew"}, n \in Nonce}
    \cup {Body("renew", m1, <<n, "upper">>, Empty) : n \in Nonce}
    \cup {Body("unseal", m1, HexEncode(n), Garbled) : n \in Nonce}
    \cup {Body("unseal", m2, HexEncode(n), Sha256(n)) : n \in Nonce}
    \cup {Body("renew", m1, Garbled, Empty)}

\* Only requests that can be granted: for runs about what follows a grant.
GoodInputs ==
    {Body(op, m1, HexEncode(n), Sha256(n)) : op \in {"unseal", "renew"}, n \in Nonce}

\* One granted and one rejected unseal per nonce: for runs about the log.
LogInputs ==
    {Body("unseal", m1, HexEncode(n), q) : n \in Nonce, q \in {Empty, Garbled}}

FirstSerial == {SerialHex(1)}
NoSerials == {}

Symmetry == Permutations(Handler) \cup Permutations(Nonce)
=============================================================================
