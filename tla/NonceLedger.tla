---------------------------- MODULE NonceLedger ----------------------------
(***************************************************************************)
(* What the vault promises about nonces, without its store, its clock or   *)
(* its handlers: a nonce is handed out once, may then authorise at most    *)
(* one certificate, is burnt by the first refusal it is presented for, and *)
(* never comes back once it has been spent, burnt or discarded             *)
(* (vault-service/src/attestation_verifier.rs, NonceStore and verify).     *)
(***************************************************************************)
CONSTANT Nonce

VARIABLE ledger     \* nonce -> "unborn", "live", "spent", "burnt" or "void"

LedgerTypeOK == ledger \in [Nonce -> {"unborn", "live", "spent", "burnt", "void"}]

LedgerInit == ledger = [n \in Nonce |-> "unborn"]

\* A nonce is handed out; some that have grown old are discarded with it.
HandOut(n, old) ==
    /\ ledger[n] = "unborn"
    /\ \A m \in old : ledger[m] = "live"
    /\ ledger' = [m \in Nonce |-> IF m = n THEN "live"
                                  ELSE IF m \in old THEN "void" ELSE ledger[m]]

\* A request is accepted on the strength of a live nonce.
Spend(n) ==
    /\ ledger[n] = "live"
    /\ ledger' = [ledger EXCEPT ![n] = "spent"]

\* A live nonce is presented and refused: too old, or with a bad quote.
Burn(n) ==
    /\ ledger[n] = "live"
    /\ ledger' = [ledger EXCEPT ![n] = "burnt"]

\* Live nonces are discarded, forgotten by a restart.
Discard(old) ==
    /\ \A m \in old : ledger[m] = "live"
    /\ ledger' = [m \in Nonce |-> IF m \in old THEN "void" ELSE ledger[m]]

LedgerNext ==
    \/ \E n \in Nonce : Spend(n) \/ Burn(n)
    \/ \E old \in SUBSET Nonce : Discard(old)
    \/ \E n \in Nonce : \E old \in SUBSET Nonce : HandOut(n, old)

LedgerSpec == LedgerInit /\ [][LedgerNext]_ledger
=============================================================================
