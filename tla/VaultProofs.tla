---------------------------- MODULE VaultProofs ----------------------------
(***************************************************************************)
(* Type correctness and the safety invariants of the vault, for every set  *)
(* of handlers, nonces and requests and every window and TTL.              *)
(***************************************************************************)
EXTENDS Vault, TLAPS

\* How far a handler has come determines what it holds.
Progress ==
    \A h \in Handler :
        /\ pc[h] \in {"idle", "received"} => verdict[h] = "none" /\ cert[h] = NoCert
        /\ pc[h] = "received" => req[h] \in Request
        /\ pc[h] = "verified" => cert[h] = NoCert
        /\ pc[h] \in {"verified", "signing"} => verdict[h] = "ok"
        /\ pc[h] = "signing" => cert[h] \in Cert
        /\ pc[h] \in {"logging", "appending", "answering"} /\ verdict[h] = "ok" =>
               cert[h] \in Cert
        /\ verdict[h] = "ok" => req[h] \in Request /\ req[h].nonce \in HexText
        /\ resp[h] # "none" => pc[h] = "done"

TypeInv == TypeOK /\ Progress

USE DEF Stamp

LEMMA NonceOfType ==
    ASSUME NEW h \in Handler, req[h] \in Request, req[h].nonce \in HexText
    PROVE  NonceOf(h) \in Nonce
  BY DEF NonceOf, HexDecode, HexText

LEMMA TypeInit == Init => TypeInv
  BY VaultAssumption DEF Init, InitialSerial, TypeInv, TypeOK, Progress

LEMMA TypeStep ==
    ASSUME TypeInv, [Next]_vars
    PROVE  TypeInv'
<1> USE VaultAssumption DEF vault_vars, handler_vars, history_vars
<1>1. ASSUME NEW n \in Nonce, GetNonce(n)
      PROVE  TypeInv'
  BY <1>1 DEF GetNonce, TypeInv, TypeOK, Progress, Registered, Fresh
<1>2. ASSUME NEW h \in Handler, NEW r \in Inputs, Receive(h, r)
      PROVE  TypeInv'
  BY <1>2 DEF Receive, TypeInv, TypeOK, Progress
<1>3. ASSUME NEW h \in Handler, RejectEarly(h)
      PROVE  TypeInv'
  BY <1>3 DEF RejectEarly, Reject, TypeInv, TypeOK, Progress
<1>4. ASSUME NEW h \in Handler, RejectAfterConsume(h)
      PROVE  TypeInv'
  <2>1. NonceOf(h) \in Nonce
    BY <1>4, NonceOfType DEF RejectAfterConsume, PreChecks, TypeInv, Progress
  <2> QED
    BY <1>4, <2>1 DEF RejectAfterConsume, Reject, Consumed, TypeInv, TypeOK, Progress
<1>5. ASSUME NEW h \in Handler, Accept(h)
      PROVE  TypeInv'
  BY <1>5 DEF Accept, Consumed, PreChecks, TypeInv, TypeOK, Progress
<1>6. ASSUME NEW h \in Handler, BeginIssue(h)
      PROVE  TypeInv'
  BY <1>6 DEF BeginIssue, NextSerial, Cert, TypeInv, TypeOK, Progress
<1>7. ASSUME NEW h \in Handler, FinishIssue(h)
      PROVE  TypeInv'
  <2>1. cert[h] \in Cert /\ clock + CERT_TTL_SECS \in Nat
    BY <1>7 DEF FinishIssue, TypeInv, TypeOK, Progress
  <2> DEFINE done == [cert[h] EXCEPT !.expires_at = clock + CERT_TTL_SECS]
  <2>2. done \in Cert
    BY <2>1 DEF Cert
  <2>3. cert' = [cert EXCEPT ![h] = done]
    BY <1>7 DEF FinishIssue
  <2> HIDE DEF done
  <2>4. /\ cert' \in [Handler -> Cert \cup {NoCert}]
        /\ cert'[h] \in Cert
        /\ \A g \in Handler \ {h} : cert'[g] = cert[g]
    BY <2>2, <2>3 DEF TypeInv, TypeOK
  <2>5. TypeOK'
    BY <1>7, <2>4 DEF FinishIssue, TypeInv, TypeOK
  <2>6. pc' = [pc EXCEPT ![h] = "logging"] /\ verdict' = verdict /\ req' = req /\ resp' = resp
    BY <1>7 DEF FinishIssue
  <2>7. Progress'
    BY <1>7, <2>4, <2>6 DEF FinishIssue, TypeInv, TypeOK, Progress
  <2> QED  BY <2>5, <2>7 DEF TypeInv
<1>8. ASSUME NEW h \in Handler, IssueFails(h)
      PROVE  TypeInv'
  BY <1>8 DEF IssueFails, TypeInv, TypeOK, Progress
<1>9. ASSUME NEW h \in Handler, LockLog(h)
      PROVE  TypeInv'
  BY <1>9 DEF LockLog, TypeInv, TypeOK, Progress
<1>10. ASSUME NEW h \in Handler, AppendEntry(h)
       PROVE  TypeInv'
  <2>1. LogEntry(h) \in Entry
    BY <1>10 DEF AppendEntry, LogEntry, Entry, SerialHex, SerialText, Cert,
                 TypeInv, TypeOK, Progress
  <2> QED  BY <1>10, <2>1 DEF AppendEntry, HandOver, TypeInv, TypeOK, Progress
<1>11. ASSUME NEW h \in Handler, AppendFails(h)
       PROVE  TypeInv'
  BY <1>11 DEF AppendFails, TypeInv, TypeOK, Progress
<1>19. ASSUME NEW h \in Handler, Respond(h)
       PROVE  TypeInv'
  BY <1>19 DEF Respond, Answer, TypeInv, TypeOK, Progress
<1>12. ASSUME NEW h \in Handler, Cancel(h)
       PROVE  TypeInv'
  BY <1>12 DEF Cancel, ReleasedBy, TypeInv, TypeOK, Progress
<1>13. ASSUME NEW e \in writes, WriteLands(e)
       PROVE  TypeInv'
  BY <1>13 DEF WriteLands, TypeInv, TypeOK, Progress
<1>14. ASSUME NEW e \in writes, WriteLost(e)
       PROVE  TypeInv'
  BY <1>14 DEF WriteLost, Entry, TypeInv, TypeOK, Progress
<1>15. ASSUME NEW s \in RevokeInputs, Revoke(s)
       PROVE  TypeInv'
  BY <1>15 DEF Revoke, TypeInv, TypeOK, Progress
<1>16. CASE Restart
  BY <1>16 DEF Restart, InitialSerial, NoncesAfterRestart, Entry, TypeInv, TypeOK, Progress
<1>17. CASE Tick
  BY <1>17 DEF Tick, TypeInv, TypeOK, Progress
<1>18. CASE UNCHANGED vars
  BY <1>18 DEF vars, TypeInv, TypeOK, Progress
<1> QED
  BY <1>1, <1>2, <1>3, <1>4, <1>5, <1>6, <1>7, <1>8, <1>9, <1>10, <1>11, <1>12,
     <1>13, <1>14, <1>15, <1>16, <1>17, <1>18, <1>19 DEF Next, HandlerStep

\* Every variable of the vault keeps its type, through concurrent handlers,
\* dropped tasks and restarts (state.rs: AppState; routes.rs: the handlers).
THEOREM VaultTypeCorrect == Spec => []TypeOK
<1>1. Init => TypeInv
  BY TypeInit
<1>2. TypeInv /\ [Next]_vars => TypeInv'
  BY TypeStep
<1>3. TypeInv => TypeOK
  BY DEF TypeInv
<1> QED  BY <1>1, <1>2, <1>3, PTL DEF Spec

-----------------------------------------------------------------------------
(* Nonces *)

\* The store only holds nonces of this process, with the time they were handed
\* out; an accepted request's nonce was fresh, of the process that accepted it,
\* and has left the store for good; so has a burnt one, which nobody spends.
NonceInv ==
    /\ \A n \in DOMAIN nonce_store :
        /\ n \in DOMAIN born
        /\ born[n].at = nonce_store[n] /\ born[n].epoch = epoch
    /\ \A h \in Handler : verdict[h] = "ok" =>
        /\ NonceOf(h) \in DOMAIN born \ DOMAIN nonce_store
        /\ verified[h].at - born[NonceOf(h)].at < NONCE_TTL
        /\ verified[h].epoch = born[NonceOf(h)].epoch
        /\ NonceOf(h) \notin burnt
    /\ burnt \subseteq DOMAIN born \ DOMAIN nonce_store
    /\ NonceSingleUse

\* NonceInv only depends on these.
LEMMA NonceFrame ==
    ASSUME NonceInv, UNCHANGED <<nonce_store, born, epoch, req, verdict, verified, burnt>>
    PROVE  NonceInv'
  BY DEF NonceInv, NonceSingleUse, NonceOf

\* A request that is not accepted can only take nonces from the store.
LEMMA NonceRejected ==
    ASSUME TypeInv, NonceInv, NEW h \in Handler, NEW S,
           pc[h] = "received",
           verdict' = [verdict EXCEPT ![h] = "rejected"],
           nonce_store' = [m \in DOMAIN nonce_store \ S |-> nonce_store[m]],
           burnt' = burnt \cup (S \cap DOMAIN nonce_store),
           UNCHANGED <<born, epoch, req, verified>>
    PROVE  NonceInv'
  BY DEF NonceInv, NonceSingleUse, NonceOf, TypeInv, TypeOK

LEMMA NonceStep ==
    ASSUME TypeInv, NonceInv, [Next]_vars
    PROVE  NonceInv'
<1> USE VaultAssumption DEF vault_vars, handler_vars, history_vars
<1>1. ASSUME NEW n \in Nonce, GetNonce(n)
      PROVE  NonceInv'
  <2>1. /\ DOMAIN born' = DOMAIN born \cup {n}
        /\ born'[n] = [at |-> clock, epoch |-> epoch]
        /\ \A m \in DOMAIN born : born'[m] = born[m]
        /\ n \notin DOMAIN born
    BY <1>1 DEF GetNonce
  <2>2. /\ DOMAIN nonce_store' \subseteq DOMAIN nonce_store \cup {n}
        /\ n \in DOMAIN nonce_store' => nonce_store'[n] = clock
        /\ \A m \in DOMAIN nonce_store' \ {n} : nonce_store'[m] = nonce_store[m]
    BY <1>1 DEF GetNonce, Registered
  <2>3. /\ verdict' = verdict /\ req' = req /\ verified' = verified /\ epoch' = epoch
        /\ burnt' = burnt
    BY <1>1 DEF GetNonce
  <2> QED  BY <2>1, <2>2, <2>3 DEF NonceInv, NonceSingleUse, NonceOf
<1>2. ASSUME NEW h \in Handler, NEW r \in Inputs, Receive(h, r)
      PROVE  NonceInv'
  <2>1. verdict[h] # "ok"
    BY <1>2 DEF Receive, TypeInv, Progress
  <2>2. \A g \in Handler \ {h} : req'[g] = req[g]
    BY <1>2 DEF Receive, TypeInv, TypeOK
  <2>3. UNCHANGED <<nonce_store, born, epoch, verdict, verified, burnt>>
    BY <1>2 DEF Receive
  <2> QED  BY <2>1, <2>2, <2>3 DEF NonceInv, NonceSingleUse, NonceOf
<1>3. ASSUME NEW h \in Handler, RejectEarly(h)
      PROVE  NonceInv'
  <2>1. /\ nonce_store' = [m \in DOMAIN nonce_store \ {} |-> nonce_store[m]]
        /\ burnt' = burnt \cup ({} \cap DOMAIN nonce_store)
    BY <1>3 DEF RejectEarly, TypeInv, TypeOK
  <2> QED  BY <1>3, <2>1, NonceRejected DEF RejectEarly, Reject
<1>4. ASSUME NEW h \in Handler, RejectAfterConsume(h)
      PROVE  NonceInv'
  BY <1>4, NonceRejected DEF RejectAfterConsume, Reject, Consumed
<1>5. ASSUME NEW h \in Handler, Accept(h)
      PROVE  NonceInv'
  <2> DEFINE n == NonceOf(h)
  <2>1. n \in DOMAIN nonce_store /\ clock - nonce_store[n] < NONCE_TTL
    BY <1>5 DEF Accept, ConsumeSucceeds, Fresh
  <2>2. /\ DOMAIN nonce_store' = DOMAIN nonce_store \ {n}
        /\ \A m \in DOMAIN nonce_store' : nonce_store'[m] = nonce_store[m]
    BY <1>5 DEF Accept, Consumed
  <2>3. /\ verified'[h].at = clock /\ verified'[h].epoch = epoch
        /\ \A g \in Handler \ {h} : verified'[g] = verified[g] /\ verdict'[g] = verdict[g]
    BY <1>5 DEF Accept, TypeInv, TypeOK
  <2>4. UNCHANGED <<born, epoch, req, burnt>>
    BY <1>5 DEF Accept
  <2>5. \A g \in Handler : NonceOf(g)' = NonceOf(g)
    BY <2>4 DEF NonceOf
  <2>6. \A g \in Handler \ {h} : verdict[g] = "ok" => NonceOf(g) # n
    BY <2>1 DEF NonceInv
  <2> HIDE DEF n
  <2>7. NonceSingleUse'
    BY <2>3, <2>5, <2>6 DEF NonceInv, NonceSingleUse, n
  <2> QED  BY <2>1, <2>2, <2>3, <2>4, <2>5, <2>6, <2>7 DEF NonceInv, n
<1>6. ASSUME NEW h \in Handler, BeginIssue(h) \/ FinishIssue(h) \/ IssueFails(h)
      PROVE  NonceInv'
  BY <1>6, NonceFrame DEF BeginIssue, FinishIssue, IssueFails
<1>7. ASSUME NEW h \in Handler, LockLog(h) \/ AppendEntry(h) \/ AppendFails(h)
                                 \/ Respond(h) \/ Cancel(h)
      PROVE  NonceInv'
  BY <1>7, NonceFrame DEF LockLog, AppendEntry, AppendFails, Respond, Cancel
<1>8. ASSUME NEW e \in writes, WriteLands(e) \/ WriteLost(e)
      PROVE  NonceInv'
  BY <1>8, NonceFrame DEF WriteLands, WriteLost
<1>9. ASSUME NEW s \in RevokeInputs, Revoke(s)
      PROVE  NonceInv'
  BY <1>9, NonceFrame DEF Revoke
<1>10. CASE Restart
  <2>1. DOMAIN nonce_store' = {}
    BY <1>10 DEF Restart, NoncesAfterRestart
  <2>2. UNCHANGED <<born, req, verdict, verified, burnt>>
    BY <1>10 DEF Restart
  <2> QED  BY <2>1, <2>2 DEF NonceInv, NonceSingleUse, NonceOf
<1>11. CASE Tick \/ UNCHANGED vars
  BY <1>11, NonceFrame DEF Tick, vars
<1> QED
  BY <1>1, <1>2, <1>3, <1>4, <1>5, <1>6, <1>7, <1>8, <1>9, <1>10, <1>11
     DEF Next, HandlerStep

\* A nonce authorises one request at most, it is fresh when it does, and it was
\* handed out by the vault process that accepts it (attestation_verifier.rs:
\* NonceStore and verify), whatever the interleaving.
THEOREM NoncesAreSafe ==
    Spec => [](NonceSingleUse /\ NonceFresh /\ NonceFromThisInstance)
<1>1. Init => TypeInv /\ NonceInv
  BY TypeInit DEF Init, NonceInv, NonceSingleUse
<1>2. TypeInv /\ NonceInv /\ [Next]_vars => TypeInv' /\ NonceInv'
  BY TypeStep, NonceStep
<1>3. NonceInv => NonceSingleUse /\ NonceFresh /\ NonceFromThisInstance
  BY DEF NonceInv, NonceFresh, NonceFromThisInstance
<1> QED  BY <1>1, <1>2, <1>3, PTL DEF Spec

-----------------------------------------------------------------------------
(* Serials *)

\* Serials given out by this process lie below the counter.
SerialInv ==
    /\ \A h \in Handler : cert[h] # NoCert =>
        /\ cert[h].epoch <= epoch
        /\ cert[h].epoch = epoch => cert[h].serial < SERIAL_COUNTER
    /\ SerialNamesOneCert

LEMMA SerialFrame ==
    ASSUME SerialInv, UNCHANGED <<cert, epoch, SERIAL_COUNTER>>
    PROVE  SerialInv'
  BY DEF SerialInv, SerialNamesOneCert

LEMMA SerialStep ==
    ASSUME TypeInv, SerialInv, [Next]_vars
    PROVE  SerialInv'
<1> USE VaultAssumption DEF vault_vars, handler_vars, history_vars
<1>1. ASSUME NEW h \in Handler, BeginIssue(h)
      PROVE  SerialInv'
  <2> DEFINE made == [serial |-> SERIAL_COUNTER, not_after |-> clock + CERT_TTL_SECS,
                      expires_at |-> 0, epoch |-> epoch]
  <2>1. cert' = [cert EXCEPT ![h] = made]
    BY <1>1 DEF BeginIssue
  <2>2. /\ cert'[h].serial = SERIAL_COUNTER /\ cert'[h].epoch = epoch
        /\ \A g \in Handler \ {h} : cert'[g] = cert[g]
    BY <2>1 DEF TypeInv, TypeOK
  <2>3. SERIAL_COUNTER' = SERIAL_COUNTER + 1 /\ epoch' = epoch
    BY <1>1 DEF BeginIssue, NextSerial
  <2>4. \A g \in Handler : cert[g] # NoCert => cert[g].serial \in Nat /\ cert[g].epoch \in Nat
    BY DEF TypeInv, TypeOK, Cert
  <2>5. SERIAL_COUNTER \in Nat /\ epoch \in Nat
    BY DEF TypeInv, TypeOK
  <2> QED  BY <2>2, <2>3, <2>4, <2>5 DEF SerialInv, SerialNamesOneCert
<1>2. ASSUME NEW h \in Handler, FinishIssue(h)
      PROVE  SerialInv'
  <2>1. cert[h] \in Cert
    BY <1>2 DEF FinishIssue, TypeInv, Progress
  <2> DEFINE done == [cert[h] EXCEPT !.expires_at = clock + CERT_TTL_SECS]
  <2>2. done.serial = cert[h].serial /\ done.epoch = cert[h].epoch
    BY <2>1 DEF Cert
  <2>3. cert' = [cert EXCEPT ![h] = done]
    BY <1>2 DEF FinishIssue
  <2> HIDE DEF done
  <2>4. /\ cert'[h].serial = cert[h].serial /\ cert'[h].epoch = cert[h].epoch
        /\ cert[h] # NoCert
        /\ \A g \in Handler \ {h} : cert'[g] = cert[g]
    BY <2>1, <2>2, <2>3 DEF TypeInv, TypeOK
  <2>5. UNCHANGED <<epoch, SERIAL_COUNTER>>
    BY <1>2 DEF FinishIssue
  <2> QED  BY <2>4, <2>5 DEF SerialInv, SerialNamesOneCert
<1>3. ASSUME NEW h \in Handler, IssueFails(h)
      PROVE  SerialInv'
  BY <1>3 DEF IssueFails, SerialInv, SerialNamesOneCert, TypeInv, TypeOK
<1>4. CASE Restart
  <2>1. epoch' = epoch + 1 /\ cert' = cert
    BY <1>4 DEF Restart
  <2>2. epoch \in Nat /\ \A h \in Handler : cert[h] # NoCert => cert[h].epoch \in Nat
    BY DEF TypeInv, TypeOK, Cert
  <2> QED  BY <2>1, <2>2 DEF SerialInv, SerialNamesOneCert
<1>5. ASSUME NEW h \in Handler,
             \/ RejectEarly(h) \/ RejectAfterConsume(h) \/ Accept(h)
             \/ LockLog(h) \/ AppendEntry(h) \/ AppendFails(h) \/ Respond(h) \/ Cancel(h)
      PROVE  SerialInv'
  BY <1>5, SerialFrame
     DEF RejectEarly, RejectAfterConsume, Accept, LockLog, AppendEntry, AppendFails,
         Respond, Cancel
<1>6. ASSUME NEW n \in Nonce, GetNonce(n)
      PROVE  SerialInv'
  BY <1>6, SerialFrame DEF GetNonce
<1>7. ASSUME NEW h \in Handler, NEW r \in Inputs, Receive(h, r)
      PROVE  SerialInv'
  BY <1>7, SerialFrame DEF Receive
<1>8. ASSUME NEW e \in writes, WriteLands(e) \/ WriteLost(e)
      PROVE  SerialInv'
  BY <1>8, SerialFrame DEF WriteLands, WriteLost
<1>9. ASSUME NEW s \in RevokeInputs, Revoke(s)
      PROVE  SerialInv'
  BY <1>9, SerialFrame DEF Revoke
<1>10. CASE Tick \/ UNCHANGED vars
  BY <1>10, SerialFrame DEF Tick, vars
<1> QED
  BY <1>1, <1>2, <1>3, <1>4, <1>5, <1>6, <1>7, <1>8, <1>9, <1>10
     DEF Next, HandlerStep

\* Two certificates of one vault process never share a serial (issuer.rs:
\* SERIAL_COUNTER.fetch_add in issue).
THEOREM SerialsAreUnique == Spec => []SerialNamesOneCert
<1>1. Init => TypeInv /\ SerialInv
  BY TypeInit DEF Init, SerialInv, SerialNamesOneCert
<1>2. TypeInv /\ SerialInv /\ [Next]_vars => TypeInv' /\ SerialInv'
  BY TypeStep, SerialStep
<1>3. SerialInv => SerialNamesOneCert
  BY DEF SerialInv
<1> QED  BY <1>1, <1>2, <1>3, PTL DEF Spec

-----------------------------------------------------------------------------
(* The log *)

\* A handler about to answer has handed its entry over, or could not.
LogInv ==
    /\ LogLockOwner /\ AnswerAccounted
    /\ \A h \in Handler : pc[h] = "answering" =>
            h \in lost \/ LogEntry(h) \in writes \cup log_file

\* A handler that has not reached append() may move anywhere but into it.
LEMMA LogFrame ==
    ASSUME TypeInv, LogInv, NEW h \in Handler,
           pc[h] \notin {"appending", "answering", "done"},
           pc'[h] \notin {"appending", "answering"},
           \A g \in Handler \ {h} : /\ pc'[g] = pc[g] /\ verdict'[g] = verdict[g]
                                    /\ cert'[g] = cert[g] /\ resp'[g] = resp[g]
                                    /\ req'[g] = req[g],
           ~IsRecorded(h)',
           UNCHANGED <<log_lock, writes, log_file, lost>>
    PROVE  LogInv'
<1>1. LogLockOwner'
  BY DEF LogInv, LogLockOwner
<1>2. \A g \in Handler \ {h} : LogEntry(g)' = LogEntry(g)
  BY DEF LogEntry
<1>3. AnswerAccounted'
  BY <1>2 DEF LogInv, AnswerAccounted, IsRecorded
<1> QED  BY <1>1, <1>2, <1>3 DEF LogInv

LEMMA LogStep ==
    ASSUME TypeInv, LogInv, [Next]_vars
    PROVE  LogInv'
<1> USE VaultAssumption DEF vault_vars, handler_vars, history_vars
<1>0. \A g \in Handler : resp[g] # "none" => pc[g] = "done"
  BY DEF TypeInv, Progress
<1>1. ASSUME NEW h \in Handler, RejectEarly(h) \/ RejectAfterConsume(h) \/ Accept(h)
      PROVE  LogInv'
  <2>1. pc[h] = "received" /\ resp[h] = "none"
    BY <1>0, <1>1 DEF RejectEarly, RejectAfterConsume, Accept, TypeInv, TypeOK
  <2>2. ~IsRecorded(h)'
    BY <1>1, <2>1 DEF RejectEarly, RejectAfterConsume, Accept, Reject, IsRecorded,
                      TypeInv, TypeOK
  <2> QED
    BY <1>1, <2>1, <2>2, LogFrame
       DEF RejectEarly, RejectAfterConsume, Accept, Reject, TypeInv, TypeOK
<1>2. ASSUME NEW h \in Handler, BeginIssue(h) \/ FinishIssue(h) \/ IssueFails(h)
      PROVE  LogInv'
  BY <1>0, <1>2, LogFrame DEF BeginIssue, FinishIssue, IssueFails, IsRecorded,
                              TypeInv, TypeOK
<1>3. ASSUME NEW h \in Handler, NEW r \in Inputs, Receive(h, r)
      PROVE  LogInv'
  BY <1>0, <1>3, LogFrame DEF Receive, IsRecorded, TypeInv, TypeOK
<1>4. ASSUME NEW h \in Handler, LockLog(h)
      PROVE  LogInv'
  <2>1. \A g \in Handler : LogEntry(g)' = LogEntry(g)
    BY <1>4 DEF LockLog, LogEntry
  <2>2. LogLockOwner' /\ AnswerAccounted'
    BY <1>4, <2>1 DEF LockLog, LogInv, LogLockOwner, AnswerAccounted, IsRecorded,
                      TypeInv, TypeOK
  <2> QED  BY <1>4, <2>1, <2>2 DEF LockLog, LogInv, TypeInv, TypeOK
<1>5. ASSUME NEW h \in Handler, AppendEntry(h) \/ AppendFails(h)
      PROVE  LogInv'
  <2>1. \A g \in Handler : LogEntry(g)' = LogEntry(g)
    BY <1>5 DEF AppendEntry, AppendFails, LogEntry
  <2>2. LogLockOwner'
    BY <1>5 DEF AppendEntry, AppendFails, LogInv, LogLockOwner, TypeInv, TypeOK
  <2>3. /\ h \in lost' \/ LogEntry(h) \in writes'
        /\ lost \subseteq lost' /\ writes \subseteq writes' /\ log_file' = log_file
        /\ resp' = resp /\ req' = req /\ pc' = [pc EXCEPT ![h] = "answering"]
    BY <1>5 DEF AppendEntry, AppendFails, HandOver
  <2>4. AnswerAccounted'
    BY <2>1, <2>3 DEF LogInv, AnswerAccounted, IsRecorded
  <2>5. \A g \in Handler \ {h} : pc'[g] = pc[g]
    BY <2>3 DEF TypeInv, TypeOK
  <2> QED  BY <2>1, <2>2, <2>3, <2>4, <2>5 DEF LogInv
<1>13. ASSUME NEW h \in Handler, Respond(h)
       PROVE  LogInv'
  <2>1. \A g \in Handler : LogEntry(g)' = LogEntry(g)
    BY <1>13 DEF Respond, LogEntry
  <2>2. /\ pc[h] = "answering" /\ pc'[h] = "done"
        /\ \A g \in Handler \ {h} : pc'[g] = pc[g] /\ resp'[g] = resp[g]
        /\ UNCHANGED <<log_lock, writes, log_file, lost, req>>
    BY <1>13 DEF Respond, TypeInv, TypeOK
  <2>3. LogLockOwner'
    BY <2>2 DEF LogInv, LogLockOwner
  <2>4. AnswerAccounted'
    BY <2>1, <2>2 DEF LogInv, AnswerAccounted, IsRecorded
  <2> QED  BY <2>1, <2>2, <2>3, <2>4 DEF LogInv
<1>6. ASSUME NEW h \in Handler, Cancel(h)
      PROVE  LogInv'
  <2>1. \A g \in Handler : LogEntry(g)' = LogEntry(g)
    BY <1>6 DEF Cancel, LogEntry
  <2>2. LogLockOwner'
    BY <1>6 DEF Cancel, ReleasedBy, LogInv, LogLockOwner, TypeInv, TypeOK
  <2>3. AnswerAccounted'
    BY <1>6, <2>1 DEF Cancel, LogInv, AnswerAccounted, IsRecorded
  <2> QED  BY <1>6, <2>1, <2>2, <2>3 DEF Cancel, LogInv, TypeInv, TypeOK
<1>7. ASSUME NEW e \in writes, WriteLands(e) \/ WriteLost(e)
      PROVE  LogInv'
  <2>1. \A g \in Handler : LogEntry(g)' = LogEntry(g) /\ LogEntry(g).rid = g
    BY <1>7 DEF WriteLands, WriteLost, LogEntry
  <2>2. LogLockOwner'
    BY <1>7 DEF WriteLands, WriteLost, LogInv, LogLockOwner
  <2>3. AnswerAccounted'
    BY <1>7, <2>1 DEF WriteLands, WriteLost, LogInv, AnswerAccounted, IsRecorded
  <2> QED  BY <1>7, <2>1, <2>2, <2>3 DEF WriteLands, WriteLost, LogInv
<1>8. CASE Restart
  <2>1. \A g \in Handler : LogEntry(g)' = LogEntry(g) /\ LogEntry(g).rid = g
    BY <1>8 DEF Restart, LogEntry
  <2>2. LogLockOwner'
    BY <1>8 DEF Restart, LogLockOwner, TypeInv, TypeOK
  <2>3. AnswerAccounted'
    BY <1>8, <2>1 DEF Restart, LogInv, AnswerAccounted, IsRecorded
  <2>4. \A g \in Handler : pc'[g] # "answering"
    BY <1>8 DEF Restart, TypeInv, TypeOK
  <2> QED  BY <2>2, <2>3, <2>4 DEF LogInv
<1>9. ASSUME UNCHANGED <<log_lock, writes, log_file, lost, pc, req, verdict, cert, resp>>
      PROVE  LogInv'
  <2>1. \A g \in Handler : LogEntry(g)' = LogEntry(g)
    BY <1>9 DEF LogEntry
  <2>2. LogLockOwner' /\ AnswerAccounted'
    BY <1>9, <2>1 DEF LogInv, LogLockOwner, AnswerAccounted, IsRecorded
  <2> QED  BY <1>9, <2>1, <2>2 DEF LogInv
<1>10. ASSUME NEW n \in Nonce, GetNonce(n)
       PROVE  LogInv'
  BY <1>9, <1>10 DEF GetNonce
<1>11. ASSUME NEW s \in RevokeInputs, Revoke(s)
       PROVE  LogInv'
  BY <1>9, <1>11 DEF Revoke
<1>12. CASE Tick \/ UNCHANGED vars
  BY <1>9, <1>12 DEF Tick, vars
<1> QED
  BY <1>1, <1>2, <1>3, <1>4, <1>5, <1>6, <1>7, <1>8, <1>10, <1>11, <1>12, <1>13
     DEF Next, HandlerStep

\* The log mutex belongs to the handler in append() and to nobody else, and a
\* grant or a refused unseal that was answered is in the log, on its way there, or lost to
\* a disk error or a crash (log.rs: append; routes.rs: unseal, renew).
THEOREM LogIsSound == Spec => [](LogLockOwner /\ AnswerAccounted)
<1>1. Init => TypeInv /\ LogInv
  BY TypeInit, VaultAssumption DEF Init, LogInv, LogLockOwner, AnswerAccounted, IsRecorded
<1>2. TypeInv /\ LogInv /\ [Next]_vars => TypeInv' /\ LogInv'
  BY TypeStep, LogStep
<1>3. LogInv => LogLockOwner /\ AnswerAccounted
  BY DEF LogInv
<1> QED  BY <1>1, <1>2, <1>3, PTL DEF Spec

-----------------------------------------------------------------------------
(* The vault implements NonceLedger *)

Bar == [n \in Nonce |-> LedgerOf(n)]

SpentBy(h, n) == verdict[h] = "ok" /\ NonceOf(h) = n

\* LedgerOf in terms of its cases, which NonceInv makes disjoint.
LEMMA LedgerCases ==
    ASSUME NonceInv, NEW n \in Nonce
    PROVE  /\ LedgerOf(n) = "unborn" <=> n \notin DOMAIN born
           /\ LedgerOf(n) = "spent"  <=> \E h \in Handler : SpentBy(h, n)
           /\ LedgerOf(n) = "live"   <=> n \in DOMAIN nonce_store
           /\ LedgerOf(n) = "burnt"  <=> n \in burnt
           /\ LedgerOf(n) \in {"unborn", "spent", "burnt", "live", "void"}
  BY DEF LedgerOf, NonceInv, SpentBy

LEMMA LedgerStutters ==
    ASSUME UNCHANGED <<nonce_store, born, burnt, req, verdict>>
    PROVE  Bar' = Bar
  BY DEF Bar, LedgerOf, NonceOf

\* Nonces of S leave the store, nothing is accepted and nothing is burnt: S is
\* discarded.
LEMMA LedgerDiscards ==
    ASSUME NonceInv, NonceInv', NEW S,
           DOMAIN nonce_store' = DOMAIN nonce_store \ S,
           born' = born, burnt' = burnt,
           \A n \in Nonce : (\E h \in Handler : SpentBy(h, n))' <=>
                           (\E h \in Handler : SpentBy(h, n))
    PROVE  \E old \in SUBSET Nonce : Ledger!Discard(old)
<1> DEFINE old == DOMAIN nonce_store \cap S \cap Nonce
<1>1. \A n \in Nonce : LedgerOf(n)' = IF n \in old THEN "void" ELSE LedgerOf(n)
  BY LedgerCases DEF LedgerOf, SpentBy
<1>2. \A n \in old : Bar[n] = "live"
  BY LedgerCases DEF Bar
<1>3. Bar' = [n \in Nonce |-> IF n \in old THEN "void" ELSE Bar[n]]
  BY <1>1 DEF Bar
<1>4. Ledger!Discard(old)
  BY <1>2, <1>3 DEF Ledger!Discard, Bar
<1> QED  BY <1>4

LEMMA LedgerStep ==
    ASSUME TypeInv, NonceInv, NonceInv', [Next]_vars
    PROVE  Ledger!LedgerNext \/ Bar' = Bar
<1> USE VaultAssumption DEF vault_vars, handler_vars, history_vars
<1>1. ASSUME NEW n \in Nonce, GetNonce(n)
      PROVE  Ledger!LedgerNext
  <2> DEFINE old == (Nonce \cap DOMAIN nonce_store) \ DOMAIN nonce_store'
  <2>1. /\ n \notin DOMAIN born /\ DOMAIN born' = DOMAIN born \cup {n}
        /\ verdict' = verdict /\ req' = req /\ burnt' = burnt
    BY <1>1 DEF GetNonce
  <2>2. n \in DOMAIN nonce_store' /\ DOMAIN nonce_store' \subseteq DOMAIN nonce_store \cup {n}
    BY <1>1 DEF GetNonce, Registered
  <2>3. \A h \in Handler, m \in Nonce : SpentBy(h, m)' <=> SpentBy(h, m)
    BY <2>1 DEF SpentBy, NonceOf
  <2>4. \A m \in Nonce : LedgerOf(m)' = IF m = n THEN "live"
                                       ELSE IF m \in old THEN "void" ELSE LedgerOf(m)
    BY <2>1, <2>2, <2>3, LedgerCases DEF LedgerOf, SpentBy, NonceInv
  <2>5. Bar[n] = "unborn" /\ \A m \in old : Bar[m] = "live"
    BY <2>1, LedgerCases DEF Bar
  <2>6. Bar' = [m \in Nonce |-> IF m = n THEN "live"
                               ELSE IF m \in old THEN "void" ELSE Bar[m]]
    BY <2>4 DEF Bar
  <2>7. Ledger!HandOut(n, old)
    BY <2>5, <2>6 DEF Ledger!HandOut, Bar
  <2> QED  BY <2>7 DEF Ledger!LedgerNext
<1>2. ASSUME NEW h \in Handler, NEW r \in Inputs, Receive(h, r)
      PROVE  Bar' = Bar
  <2>1. verdict[h] # "ok"
    BY <1>2 DEF Receive, TypeInv, Progress
  <2>2. /\ \A g \in Handler \ {h} : req'[g] = req[g]
        /\ UNCHANGED <<nonce_store, born, burnt, verdict>>
    BY <1>2 DEF Receive, TypeInv, TypeOK
  <2>3. \A n \in Nonce : LedgerOf(n)' = LedgerOf(n)
    BY <2>1, <2>2 DEF LedgerOf, NonceOf
  <2> QED  BY <2>3 DEF Bar
<1>3. ASSUME NEW h \in Handler, pc[h] = "received",
             verdict' = [verdict EXCEPT ![h] = "rejected"], req' = req
      PROVE  \A g \in Handler, n \in Nonce : SpentBy(g, n)' <=> SpentBy(g, n)
  BY <1>3 DEF SpentBy, NonceOf, TypeInv, TypeOK, Progress
<1>4. ASSUME NEW h \in Handler, RejectEarly(h)
      PROVE  Bar' = Bar
  <2>1. /\ UNCHANGED <<nonce_store, born, burnt>>
        /\ \A g \in Handler, n \in Nonce : SpentBy(g, n)' <=> SpentBy(g, n)
    BY <1>3, <1>4 DEF RejectEarly, Reject
  <2>2. \A n \in Nonce : LedgerOf(n)' = LedgerOf(n)
    BY <2>1 DEF LedgerOf, SpentBy
  <2> QED  BY <2>2 DEF Bar
<1>5. ASSUME NEW h \in Handler, RejectAfterConsume(h)
      PROVE  Ledger!LedgerNext \/ Bar' = Bar
  <2>1. PICK n \in Nonce : n = NonceOf(h)
    BY <1>5, NonceOfType DEF RejectAfterConsume, PreChecks, TypeInv, Progress
  <2>2. /\ DOMAIN nonce_store' = DOMAIN nonce_store \ {n}
        /\ burnt' = burnt \cup ({n} \cap DOMAIN nonce_store) /\ born' = born
        /\ \A g \in Handler, m \in Nonce : SpentBy(g, m)' <=> SpentBy(g, m)
    BY <1>3, <1>5, <2>1 DEF RejectAfterConsume, Consumed, Reject
  <2>3. CASE n \in DOMAIN nonce_store
    <3>1. Bar[n] = "live"
      BY <2>3, LedgerCases DEF Bar
    <3>2. \A m \in Nonce : LedgerOf(m)' = IF m = n THEN "burnt" ELSE LedgerOf(m)
      BY <2>2, <2>3, LedgerCases DEF LedgerOf, SpentBy, NonceInv
    <3>3. Bar' = [Bar EXCEPT ![n] = "burnt"]
      BY <3>2 DEF Bar
    <3>4. Ledger!Burn(n)
      BY <3>1, <3>3 DEF Ledger!Burn, Bar
    <3> QED  BY <3>4 DEF Ledger!LedgerNext
  <2>4. CASE n \notin DOMAIN nonce_store
    <3>1. \A m \in Nonce : LedgerOf(m)' = LedgerOf(m)
      BY <2>2, <2>4 DEF LedgerOf, SpentBy
    <3> QED  BY <3>1 DEF Bar
  <2> QED  BY <2>3, <2>4
<1>6. ASSUME NEW h \in Handler, Accept(h)
      PROVE  Ledger!LedgerNext
  <2>1. PICK n \in Nonce : n = NonceOf(h)
    BY <1>6, NonceOfType DEF Accept, PreChecks, TypeInv, Progress
  <2>2. n \in DOMAIN nonce_store /\ DOMAIN nonce_store' = DOMAIN nonce_store \ {n}
    BY <1>6, <2>1 DEF Accept, ConsumeSucceeds, Consumed
  <2>3. /\ born' = born /\ req' = req /\ burnt' = burnt /\ verdict'[h] = "ok"
        /\ \A g \in Handler \ {h} : verdict'[g] = verdict[g]
        /\ verdict[h] # "ok"
    BY <1>6 DEF Accept, TypeInv, TypeOK, Progress
  <2>4. \A m \in Nonce : (\E g \in Handler : SpentBy(g, m))' <=>
                         (m = n \/ \E g \in Handler : SpentBy(g, m))
    BY <2>1, <2>3 DEF SpentBy, NonceOf
  <2>5. \A m \in Nonce : LedgerOf(m)' = IF m = n THEN "spent" ELSE LedgerOf(m)
    BY <2>1, <2>2, <2>3, <2>4, LedgerCases DEF LedgerOf, SpentBy, NonceInv
  <2>6. Bar[n] = "live"
    BY <2>2, LedgerCases DEF Bar
  <2>7. Bar' = [Bar EXCEPT ![n] = "spent"]
    BY <2>5 DEF Bar
  <2>8. Ledger!Spend(n)
    BY <2>6, <2>7 DEF Ledger!Spend, Bar
  <2> QED  BY <2>8 DEF Ledger!LedgerNext
<1>7. CASE Restart
  <2>1. DOMAIN nonce_store' = DOMAIN nonce_store \ DOMAIN nonce_store
    BY <1>7 DEF Restart, NoncesAfterRestart
  <2>2. UNCHANGED <<born, burnt, req, verdict>>
    BY <1>7 DEF Restart
  <2>3. \A g \in Handler, n \in Nonce : SpentBy(g, n)' <=> SpentBy(g, n)
    BY <2>2 DEF SpentBy, NonceOf
  <2>4. \E old \in SUBSET Nonce : Ledger!Discard(old)
    BY <2>1, <2>2, <2>3, LedgerDiscards
  <2> QED  BY <2>4 DEF Ledger!LedgerNext
<1>8. ASSUME NEW h \in Handler,
             \/ BeginIssue(h) \/ FinishIssue(h) \/ IssueFails(h) \/ LockLog(h)
             \/ AppendEntry(h) \/ AppendFails(h) \/ Respond(h) \/ Cancel(h)
      PROVE  Bar' = Bar
  BY <1>8, LedgerStutters
     DEF BeginIssue, FinishIssue, IssueFails, LockLog, AppendEntry, AppendFails,
         Respond, Cancel
<1>9. ASSUME NEW e \in writes, WriteLands(e) \/ WriteLost(e)
      PROVE  Bar' = Bar
  BY <1>9, LedgerStutters DEF WriteLands, WriteLost
<1>10. ASSUME NEW s \in RevokeInputs, Revoke(s)
       PROVE  Bar' = Bar
  BY <1>10, LedgerStutters DEF Revoke
<1>11. CASE Tick \/ UNCHANGED vars
  BY <1>11, LedgerStutters DEF Tick, vars
<1> QED
  BY <1>1, <1>2, <1>4, <1>5, <1>6, <1>7, <1>8, <1>9, <1>10, <1>11
     DEF Next, HandlerStep

\* Every behaviour of the vault is, seen through LedgerOf, a behaviour of the
\* abstract nonce ledger (attestation_verifier.rs: NonceStore).
THEOREM VaultImplementsLedger == Spec => NonceLifecycle
<1>1. Init => Ledger!LedgerInit
  BY DEF Init, Ledger!LedgerInit, LedgerOf
<1>2. Init => TypeInv /\ NonceInv
  BY TypeInit DEF Init, NonceInv, NonceSingleUse
<1>3. TypeInv /\ NonceInv /\ [Next]_vars => TypeInv' /\ NonceInv'
  BY TypeStep, NonceStep
<1>4. TypeInv /\ NonceInv /\ NonceInv' /\ [Next]_vars =>
        [Ledger!LedgerNext]_([n \in Nonce |-> LedgerOf(n)])
  BY LedgerStep DEF Bar
<1> QED  BY <1>1, <1>2, <1>3, <1>4, PTL DEF Spec, NonceLifecycle, Ledger!LedgerSpec

=============================================================================
