--------------------------- MODULE IssuanceLedger ---------------------------
(***************************************************************************)
(* What the vault promises about its issuance log, without its mutex, its  *)
(* blocking pool or its handlers (vault-service/src/log.rs): a caller is   *)
(* told the outcome only once its entry is under way or known to be lost,  *)
(* an entry under way reaches the file or is lost, and neither a recorded  *)
(* entry nor a lost one ever changes again.  A caller that leaves before   *)
(* its entry is handed over leaves none; only a crash can leave an entry   *)
(* whose caller was never told.                                            *)
(***************************************************************************)
EXTENDS Naturals

CONSTANT Caller     \* requests whose outcome belongs in the log

VARIABLES
    record,     \* caller -> "open", "queued", "recorded" or "lost"
    caller,     \* caller -> "waiting", "told" or "gone"
    crashes     \* how often the process has ended

issuance_vars == <<record, caller, crashes>>

IssuanceTypeOK ==
    /\ record \in [Caller -> {"open", "queued", "recorded", "lost"}]
    /\ caller \in [Caller -> {"waiting", "told", "gone"}]
    /\ crashes \in Nat

IssuanceInit ==
    /\ record = [c \in Caller |-> "open"]
    /\ caller = [c \in Caller |-> "waiting"]
    /\ crashes = 0

\* The entry of a caller that waits is handed over, or cannot be.
Enter(c, fate) ==
    /\ record[c] = "open" /\ caller[c] = "waiting"
    /\ record' = [record EXCEPT ![c] = fate]
    /\ UNCHANGED <<caller, crashes>>

\* An entry under way reaches the file, or the disk refuses it.
Settle(c, fate) ==
    /\ record[c] = "queued"
    /\ record' = [record EXCEPT ![c] = fate]
    /\ UNCHANGED <<caller, crashes>>

\* The outcome goes out.
Tell(c) ==
    /\ record[c] # "open" /\ caller[c] = "waiting"
    /\ caller' = [caller EXCEPT ![c] = "told"]
    /\ UNCHANGED <<record, crashes>>

\* A caller goes away while its entry is still to be handed over.
Leave(c, fate) ==
    /\ record[c] = "open" /\ caller[c] = "waiting"
    /\ record' = [record EXCEPT ![c] = fate]
    /\ caller' = [caller EXCEPT ![c] = "gone"]
    /\ UNCHANGED crashes

\* The process ends: every entry under way is lost with it, and others that
\* would have been handed over; callers that wait for an answer get none.
Crash ==
    /\ crashes' = crashes + 1
    /\ IssuanceTypeOK'
    /\ \A c \in Caller :
        /\ record'[c] # record[c] => record[c] \in {"open", "queued"} /\ record'[c] = "lost"
        /\ record'[c] # "queued"
        /\ caller'[c] # caller[c] => caller[c] = "waiting" /\ caller'[c] = "gone"

IssuanceNext ==
    \/ \E c \in Caller : \E fate \in {"queued", "lost"} : Enter(c, fate)
    \/ \E c \in Caller : \E fate \in {"recorded", "lost"} : Settle(c, fate)
    \/ \E c \in Caller : Tell(c)
    \/ \E c \in Caller : \E fate \in {"open", "lost"} : Leave(c, fate)
    \/ Crash

IssuanceSpec == IssuanceInit /\ [][IssuanceNext]_issuance_vars

=============================================================================
