--------------------------- MODULE IssuanceProofs ---------------------------
(***************************************************************************)
(* What the vault's certificates and its issuance log are worth: every     *)
(* certificate was earned by a nonce of the same process, the number of    *)
(* certificates is bounded by the number of nonces handed out, the log     *)
(* never says what did not happen, and the vault implements                *)
(* IssuanceLedger.                                                         *)
(***************************************************************************)
EXTENDS VaultProofs, FiniteSetTheorems

(* Certificates *)

\* What a handler was checked for stays with it, and issue() runs in the process
\* that verified it.
EarnedInv ==
    \A h \in Handler :
        /\ verdict[h] = "ok" => /\ AllowlistContains(req[h].machine)
                                /\ QuoteAccepted(req[h].quote, NonceOf(h))
        /\ pc[h] = "verified" => verified[h].epoch = epoch
        /\ cert[h] # NoCert => /\ verdict[h] = "ok"
                               /\ cert[h].epoch = verified[h].epoch

\* Handlers that move on from where they hold no certificate, or keep theirs.
LEMMA EarnedFrame ==
    ASSUME EarnedInv, UNCHANGED <<req, verdict, verified, cert, epoch>>,
           \A h \in Handler : pc'[h] = "verified" => pc[h] = "verified"
    PROVE  EarnedInv'
  BY DEF EarnedInv, NonceOf

LEMMA EarnedStep ==
    ASSUME TypeInv, EarnedInv, [Next]_vars
    PROVE  EarnedInv'
<1> USE VaultAssumption DEF vault_vars, handler_vars, history_vars
<1>1. ASSUME NEW h \in Handler, NEW r \in Inputs, Receive(h, r)
      PROVE  EarnedInv'
  <2>1. verdict[h] = "none" /\ cert[h] = NoCert
    BY <1>1 DEF Receive, TypeInv, Progress
  <2> QED  BY <1>1, <2>1 DEF Receive, EarnedInv, NonceOf, TypeInv, TypeOK
<1>2. ASSUME NEW h \in Handler, RejectEarly(h) \/ RejectAfterConsume(h)
      PROVE  EarnedInv'
  <2>1. cert[h] = NoCert
    BY <1>2 DEF RejectEarly, RejectAfterConsume, TypeInv, Progress
  <2> QED
    BY <1>2, <2>1 DEF RejectEarly, RejectAfterConsume, Reject, EarnedInv, NonceOf, TypeInv, TypeOK
<1>3. ASSUME NEW h \in Handler, Accept(h)
      PROVE  EarnedInv'
  <2>1. cert[h] = NoCert
    BY <1>3 DEF Accept, TypeInv, Progress
  <2>2. \A g \in Handler : NonceOf(g)' = NonceOf(g)
    BY <1>3 DEF Accept, NonceOf
  <2>3. verified'[h].epoch = epoch' /\ \A g \in Handler \ {h} : verified'[g] = verified[g]
    BY <1>3 DEF Accept, TypeInv, TypeOK
  <2> QED
    BY <1>3, <2>1, <2>2, <2>3 DEF Accept, PreChecks, EarnedInv, TypeInv, TypeOK
<1>4. ASSUME NEW h \in Handler, BeginIssue(h)
      PROVE  EarnedInv'
  <2>1. cert'[h].epoch = epoch /\ \A g \in Handler \ {h} : cert'[g] = cert[g]
    BY <1>4 DEF BeginIssue, TypeInv, TypeOK
  <2>2. verdict[h] = "ok" /\ verified[h].epoch = epoch
    BY <1>4 DEF BeginIssue, EarnedInv, TypeInv, Progress
  <2> QED  BY <1>4, <2>1, <2>2 DEF BeginIssue, EarnedInv, NonceOf, TypeInv, TypeOK
<1>5. ASSUME NEW h \in Handler, FinishIssue(h)
      PROVE  EarnedInv'
  <2>1. cert[h] \in Cert /\ cert[h] # NoCert
    BY <1>5 DEF FinishIssue, TypeInv, Progress
  <2> DEFINE done == [cert[h] EXCEPT !.expires_at = clock + CERT_TTL_SECS]
  <2>2. done.epoch = cert[h].epoch
    BY <2>1 DEF Cert
  <2>3. cert' = [cert EXCEPT ![h] = done]
    BY <1>5 DEF FinishIssue
  <2> HIDE DEF done
  <2>4. cert'[h].epoch = cert[h].epoch /\ \A g \in Handler \ {h} : cert'[g] = cert[g]
    BY <2>2, <2>3 DEF TypeInv, TypeOK
  <2> QED  BY <1>5, <2>1, <2>4 DEF FinishIssue, EarnedInv, NonceOf, TypeInv, TypeOK
<1>6. ASSUME NEW h \in Handler, IssueFails(h)
      PROVE  EarnedInv'
  BY <1>6 DEF IssueFails, EarnedInv, NonceOf, TypeInv, TypeOK
<1>7. ASSUME NEW h \in Handler,
             \/ LockLog(h) \/ AppendEntry(h) \/ AppendFails(h) \/ Respond(h)
             \/ Cancel(h)
      PROVE  EarnedInv'
  BY <1>7, EarnedFrame
     DEF LockLog, AppendEntry, AppendFails, Respond, Cancel, TypeInv, TypeOK
<1>8. CASE Restart
  BY <1>8 DEF Restart, EarnedInv, NonceOf
<1>9. ASSUME NEW e \in writes, WriteLands(e) \/ WriteLost(e)
      PROVE  EarnedInv'
  BY <1>9, EarnedFrame DEF WriteLands, WriteLost
<1>10. ASSUME NEW n \in Nonce, GetNonce(n)
       PROVE  EarnedInv'
  BY <1>10, EarnedFrame DEF GetNonce
<1>11. ASSUME NEW s \in RevokeInputs, Revoke(s)
       PROVE  EarnedInv'
  BY <1>11, EarnedFrame DEF Revoke
<1>12. CASE Tick \/ UNCHANGED vars
  BY <1>12, EarnedFrame DEF Tick, vars
<1> QED
  BY <1>1, <1>2, <1>3, <1>4, <1>5, <1>6, <1>7, <1>8, <1>9, <1>10, <1>11, <1>12
     DEF Next, HandlerStep

LEMMA EarnedInit == Init => TypeInv /\ NonceInv /\ EarnedInv
  BY TypeInit DEF Init, NonceInv, NonceSingleUse, EarnedInv

LEMMA EarnedImpliesCerts ==
    ASSUME NonceInv, EarnedInv
    PROVE  CertsAreEarned
  BY DEF NonceInv, EarnedInv, CertsAreEarned

\* No certificate is signed for a machine that is not listed, on a quote that
\* was not accepted, or with a nonce of another vault process (routes.rs:
\* unseal, renew; attestation_verifier.rs: verify; issuer.rs: issue).
THEOREM CertificatesAreEarned == Spec => []CertsAreEarned
<1>1. TypeInv /\ NonceInv /\ EarnedInv /\ [Next]_vars =>
        TypeInv' /\ NonceInv' /\ EarnedInv'
  BY TypeStep, NonceStep, EarnedStep
<1>2. NonceInv /\ EarnedInv => CertsAreEarned
  BY EarnedImpliesCerts
<1> QED  BY <1>1, <1>2, EarnedInit, PTL DEF Spec

\* Handlers that hold a certificate.
Granted == {h \in Handler : cert[h] # NoCert}

LEMMA GrantsSpendNonces ==
    ASSUME TypeInv, NonceInv, EarnedInv, IsFiniteSet(Nonce)
    PROVE  /\ IsFiniteSet(Granted)
           /\ Cardinality(Granted) <= Cardinality(DOMAIN born)
<1> DEFINE f == [h \in Granted |-> NonceOf(h)]
<1>1. IsFiniteSet(DOMAIN born)
  BY FS_Subset DEF TypeInv, TypeOK
<1>2. \A h \in Granted : f[h] \in DOMAIN born
  BY DEF Granted, NonceInv, EarnedInv
<1>3. \A g, h \in Granted : g # h => f[g] # f[h]
  BY DEF Granted, NonceInv, NonceSingleUse, EarnedInv
<1>4. f \in Injection(Granted, DOMAIN born)
  BY <1>2, <1>3 DEF Injection, IsInjective
<1> HIDE DEF f
<1> QED  BY <1>1, <1>4, FS_Injection

\* The vault never signs more certificates than it hands out nonces, over any
\* number of concurrent or repeated requests and of restarts: unlike the
\* invariants about pairs of handlers, this bounds what a run of GET /vault/nonce
\* can buy (attestation_verifier.rs: NonceStore; routes.rs: unseal, renew).
THEOREM CertificatesAreCounted ==
    ASSUME IsFiniteSet(Nonce)
    PROVE  Spec => [](Cardinality(Granted) <= Cardinality(DOMAIN born))
<1>1. TypeInv /\ NonceInv /\ EarnedInv /\ [Next]_vars =>
        TypeInv' /\ NonceInv' /\ EarnedInv'
  BY TypeStep, NonceStep, EarnedStep
<1>2. TypeInv /\ NonceInv /\ EarnedInv =>
        Cardinality(Granted) <= Cardinality(DOMAIN born)
  BY GrantsSpendNonces
<1> QED  BY <1>1, <1>2, EarnedInit, PTL DEF Spec

-----------------------------------------------------------------------------
(* What the log says *)

\* Where the handler of an entry can be: about to answer, done with the answer
\* the entry speaks of, or gone with a process that has ended since.
EntryStands(h) ==
    \/ pc[h] = "answering"
    \/ pc[h] = "done" /\ resp[h] = Answer(h)
    \/ /\ pc[h] = "dropped" /\ ~HasEntry(h, writes)
       /\ epoch > 0
       /\ cert[h] # NoCert => cert[h].epoch < epoch

\* An entry is its handler's line, is not lost and is in one place only.  A
\* handler on its way through the log has a certificate, or is a refused unseal.
RecordInv ==
    /\ \A e \in writes \cup log_file :
        /\ e.rid \in Handler /\ e.rid \notin lost
        /\ e = LogEntry(e.rid)
        /\ verdict[e.rid] = "ok" => cert[e.rid] # NoCert
        /\ EntryStands(e.rid)
    /\ writes \cap log_file = {}
    /\ \A h \in lost : pc[h] \in {"answering", "done", "dropped"}
    /\ \A h \in Handler : pc[h] \in {"logging", "appending", "answering"} =>
            verdict[h] = "ok" \/ (verdict[h] = "rejected" /\ req[h].op = "unseal")

\* No entry yet: the handler has not been through append().
LEMMA NoEntryYet ==
    ASSUME RecordInv, NEW h \in Handler, pc[h] \notin {"answering", "done", "dropped"}
    PROVE  /\ \A e \in writes \cup log_file : e.rid # h
           /\ h \notin lost
  BY DEF RecordInv, EntryStands

\* What an entry says does not change with its handler's fields.
LEMMA EntriesKept ==
    ASSUME UNCHANGED <<verdict, cert>>
    PROVE  \A g \in Handler : LogEntry(g)' = LogEntry(g) /\ Answer(g)' = Answer(g)
  BY DEF LogEntry, Answer

\* A handler that has not been through append() may change freely.
LEMMA RecordFrame ==
    ASSUME TypeInv, RecordInv, NEW h \in Handler,
           pc[h] \notin {"answering", "done", "dropped"},
           \A g \in Handler \ {h} : /\ pc'[g] = pc[g] /\ req'[g] = req[g]
                                    /\ verdict'[g] = verdict[g] /\ cert'[g] = cert[g]
                                    /\ resp'[g] = resp[g],
           pc'[h] \in {"logging", "appending", "answering"} =>
               verdict'[h] = "ok" \/ (verdict'[h] = "rejected" /\ req'[h].op = "unseal"),
           UNCHANGED <<writes, log_file, lost, epoch>>
    PROVE  RecordInv'
<1>1. \A g \in Handler \ {h} : LogEntry(g)' = LogEntry(g) /\ Answer(g)' = Answer(g)
  BY DEF LogEntry, Answer
<1>2. \A g \in Handler \ {h} : EntryStands(g) => EntryStands(g)'
  BY <1>1 DEF EntryStands, HasEntry
<1>3. \A e \in writes \cup log_file : e.rid # h
  BY NoEntryYet
<1>4. lost \subseteq Handler /\ h \notin lost
  BY NoEntryYet DEF TypeInv, TypeOK
<1> QED  BY <1>1, <1>2, <1>3, <1>4 DEF RecordInv

LEMMA RecordStep ==
    ASSUME TypeInv, SerialInv, RecordInv, [Next]_vars
    PROVE  RecordInv'
<1> USE VaultAssumption DEF vault_vars, handler_vars, history_vars
<1>1. ASSUME NEW h \in Handler, NEW r \in Inputs, Receive(h, r)
      PROVE  RecordInv'
  BY <1>1, RecordFrame DEF Receive, TypeInv, TypeOK
<1>2. ASSUME NEW h \in Handler, RejectEarly(h) \/ RejectAfterConsume(h)
      PROVE  RecordInv'
  <2>1. /\ pc[h] = "received" /\ Reject(h)
        /\ UNCHANGED <<req, cert, writes, log_file, lost, epoch>>
    BY <1>2 DEF RejectEarly, RejectAfterConsume
  <2>2. \A g \in Handler \ {h} :
            pc'[g] = pc[g] /\ verdict'[g] = verdict[g] /\ resp'[g] = resp[g]
    BY <2>1 DEF Reject, TypeInv, TypeOK
  <2>3. pc'[h] = "logging" => verdict'[h] = "rejected" /\ req'[h].op = "unseal"
    BY <2>1 DEF Reject, TypeInv, TypeOK
  <2>4. pc'[h] \notin {"appending", "answering"}
    BY <2>1 DEF Reject, TypeInv, TypeOK
  <2> QED  BY <2>1, <2>2, <2>3, <2>4, RecordFrame
<1>3. ASSUME NEW h \in Handler, Accept(h)
      PROVE  RecordInv'
  BY <1>3, RecordFrame DEF Accept, TypeInv, TypeOK
<1>4. ASSUME NEW h \in Handler, BeginIssue(h) \/ FinishIssue(h) \/ IssueFails(h)
      PROVE  RecordInv'
  <2>1. verdict[h] = "ok"
    BY <1>4 DEF BeginIssue, FinishIssue, IssueFails, TypeInv, Progress
  <2> QED
    BY <1>4, <2>1, RecordFrame DEF BeginIssue, FinishIssue, IssueFails, TypeInv, TypeOK
<1>5. ASSUME NEW h \in Handler, LockLog(h)
      PROVE  RecordInv'
  BY <1>5, RecordFrame DEF LockLog, RecordInv, TypeInv, TypeOK
<1>6. ASSUME NEW h \in Handler, AppendEntry(h) \/ AppendFails(h)
      PROVE  RecordInv'
  <2>1. /\ pc[h] = "appending" /\ pc' = [pc EXCEPT ![h] = "answering"]
        /\ UNCHANGED <<req, verdict, cert, resp, log_file, epoch>>
        /\ \/ writes' = HandOver(h) /\ lost' = lost
           \/ writes' = writes /\ lost' = lost \cup {h}
    BY <1>6 DEF AppendEntry, AppendFails
  <2>2. \A g \in Handler : LogEntry(g)' = LogEntry(g) /\ Answer(g)' = Answer(g)
    BY <2>1, EntriesKept
  <2>3. LogEntry(h).rid = h
    BY DEF LogEntry
  <2>4. h \notin lost /\ \A e \in writes \cup log_file : e.rid # h
    BY <2>1, NoEntryYet
  <2>5. verdict[h] = "ok" => cert[h] # NoCert
    BY <2>1 DEF TypeInv, Progress
  <2>6. pc'[h] = "answering" /\ \A g \in Handler \ {h} : pc'[g] = pc[g]
    BY <2>1 DEF TypeInv, TypeOK
  <2>7. \A e \in writes' \cup log_file' :
            \/ e = LogEntry(h) /\ lost' = lost
            \/ e \in writes \cup log_file
    BY <2>1 DEF HandOver
  <2>8. \A g \in Handler \ {h} : HasEntry(g, writes') => HasEntry(g, writes)
    BY <2>1, <2>3 DEF HasEntry, HandOver
  <2>9. \A g \in Handler \ {h} : EntryStands(g) => EntryStands(g)'
    BY <2>1, <2>2, <2>6, <2>8 DEF EntryStands
  <2>10. EntryStands(h)'
    BY <2>6 DEF EntryStands
  <2> HIDE DEF LogEntry
  <2>11. ASSUME NEW e \in writes' \cup log_file'
         PROVE  /\ e.rid \in Handler /\ e.rid \notin lost'
                /\ e = LogEntry(e.rid)'
                /\ verdict'[e.rid] = "ok" => cert'[e.rid] # NoCert
                /\ EntryStands(e.rid)'
    <3>1. CASE e = LogEntry(h) /\ lost' = lost
      BY <2>1, <2>2, <2>3, <2>4, <2>5, <2>10, <3>1
    <3>2. CASE e \in writes \cup log_file
      BY <2>1, <2>2, <2>4, <2>9, <3>2 DEF RecordInv
    <3> QED  BY <2>7, <3>1, <3>2
  <2>12. writes' \cap log_file' = {}
    BY <2>1, <2>3, <2>4 DEF HandOver, RecordInv
  <2>13. \A g \in lost' : pc'[g] \in {"answering", "done", "dropped"}
    BY <2>1, <2>6 DEF RecordInv, TypeInv, TypeOK
  <2>14. \A g \in Handler : pc'[g] \in {"logging", "appending", "answering"} =>
            verdict'[g] = "ok" \/ (verdict'[g] = "rejected" /\ req'[g].op = "unseal")
    BY <2>1, <2>6 DEF RecordInv
  <2> QED  BY <2>11, <2>12, <2>13, <2>14 DEF RecordInv
<1>7. ASSUME NEW h \in Handler, Respond(h)
      PROVE  RecordInv'
  <2>1. /\ pc[h] = "answering" /\ pc'[h] = "done" /\ resp'[h] = Answer(h)
        /\ \A g \in Handler \ {h} : pc'[g] = pc[g] /\ resp'[g] = resp[g]
        /\ UNCHANGED <<req, verdict, cert, writes, log_file, lost, epoch>>
    BY <1>7 DEF Respond, TypeInv, TypeOK
  <2>2. \A g \in Handler : LogEntry(g)' = LogEntry(g) /\ Answer(g)' = Answer(g)
    BY <2>1, EntriesKept
  <2>3. \A g \in Handler : EntryStands(g) => EntryStands(g)'
    BY <2>1, <2>2 DEF EntryStands
  <2>4. lost \subseteq Handler
    BY DEF TypeInv, TypeOK
  <2> QED  BY <2>1, <2>2, <2>3, <2>4 DEF RecordInv
<1>8. ASSUME NEW h \in Handler, Cancel(h)
      PROVE  RecordInv'
  <2>1. /\ pc[h] \in {"received", "logging", "appending"} /\ pc'[h] = "dropped"
        /\ \A g \in Handler \ {h} : pc'[g] = pc[g]
        /\ lost' = lost \/ lost' = lost \cup {h}
        /\ UNCHANGED <<req, verdict, cert, resp, writes, log_file, epoch>>
    BY <1>8 DEF Cancel, TypeInv, TypeOK
  <2>2. \A g \in Handler : LogEntry(g)' = LogEntry(g) /\ Answer(g)' = Answer(g)
    BY <2>1, EntriesKept
  <2>3. \A e \in writes \cup log_file : e.rid # h
    BY <2>1, NoEntryYet
  <2>4. \A g \in Handler \ {h} : EntryStands(g) => EntryStands(g)'
    BY <2>1, <2>2 DEF EntryStands
  <2>5. lost \subseteq Handler
    BY DEF TypeInv, TypeOK
  <2> QED  BY <2>1, <2>2, <2>3, <2>4, <2>5 DEF RecordInv
<1>9. ASSUME NEW e \in writes, WriteLands(e) \/ WriteLost(e)
      PROVE  RecordInv'
  <2>1. UNCHANGED <<pc, req, verdict, cert, resp, epoch>> /\ writes' = writes \ {e}
    BY <1>9 DEF WriteLands, WriteLost
  <2>2. \A g \in Handler : LogEntry(g)' = LogEntry(g) /\ Answer(g)' = Answer(g)
    BY <2>1, EntriesKept
  <2>3. \A f \in writes \cup log_file : f.rid = e.rid => f = e
    BY DEF RecordInv
  <2>4. e.rid \in Handler /\ pc[e.rid] \in {"answering", "done"}
    BY DEF RecordInv, EntryStands, HasEntry
  <2>5. \A g \in Handler : EntryStands(g) => EntryStands(g)'
    BY <2>1, <2>2 DEF EntryStands, HasEntry
  <2> QED  BY <1>9, <2>1, <2>2, <2>3, <2>4, <2>5 DEF WriteLands, WriteLost, RecordInv
<1>10. CASE Restart
  <2>1. /\ UNCHANGED <<req, verdict, cert, resp, log_file>>
        /\ writes' = {} /\ epoch' = epoch + 1
    BY <1>10 DEF Restart
  <2>2. \A g \in Handler : LogEntry(g)' = LogEntry(g) /\ Answer(g)' = Answer(g)
    BY <2>1, EntriesKept
  <2>3. \A f \in log_file : f.rid \notin lost'
    BY <1>10 DEF Restart, RecordInv, EntryStands
  <2>4. \A g \in Handler : /\ pc[g] = "done" => pc'[g] = "done"
                           /\ pc[g] \in {"answering", "dropped"} => pc'[g] = "dropped"
                           /\ pc'[g] \in {"idle", "done", "dropped"}
    BY <1>10 DEF Restart, TypeInv, TypeOK
  <2>5. epoch' > 0 /\ epoch' > epoch /\ epoch \in Nat
    BY <2>1 DEF TypeInv, TypeOK
  <2>6. \A g \in Handler : cert[g] # NoCert => cert'[g].epoch < epoch'
    BY <2>1, <2>5 DEF SerialInv, TypeInv, TypeOK, Cert
  <2>7. \A g \in Handler : ~HasEntry(g, writes')
    BY <2>1 DEF HasEntry
  <2>8. \A g \in Handler : EntryStands(g) => EntryStands(g)'
    BY <2>1, <2>2, <2>4, <2>5, <2>6, <2>7 DEF EntryStands
  <2>9. \A g \in lost' : pc'[g] \in {"answering", "done", "dropped"}
    <3>1. ASSUME NEW g \in lost'
          PROVE  g \in Handler /\ pc[g] # "idle"
      BY <1>10, <3>1 DEF Restart, RecordInv, EntryStands, TypeInv, TypeOK
    <3> QED  BY <1>10, <3>1 DEF Restart, TypeInv, TypeOK
  <2> QED  BY <2>1, <2>2, <2>3, <2>4, <2>8, <2>9 DEF RecordInv
<1>11. ASSUME UNCHANGED <<handler_vars, writes, log_file, lost, epoch>>
       PROVE  RecordInv'
  <2>1. \A g \in Handler : LogEntry(g)' = LogEntry(g) /\ Answer(g)' = Answer(g)
    BY <1>11, EntriesKept
  <2>2. \A g \in Handler : EntryStands(g) => EntryStands(g)'
    BY <1>11, <2>1 DEF EntryStands, HasEntry
  <2> QED  BY <1>11, <2>1, <2>2 DEF RecordInv
<1>12. ASSUME NEW n \in Nonce, GetNonce(n)
       PROVE  RecordInv'
  BY <1>11, <1>12 DEF GetNonce
<1>13. ASSUME NEW s \in RevokeInputs, Revoke(s)
       PROVE  RecordInv'
  BY <1>11, <1>13 DEF Revoke
<1>14. CASE Tick \/ UNCHANGED vars
  BY <1>11, <1>14 DEF Tick, vars
<1> QED
  BY <1>1, <1>2, <1>3, <1>4, <1>5, <1>6, <1>7, <1>8, <1>9, <1>10, <1>12, <1>13, <1>14
     DEF Next, HandlerStep

\* Everything the log's theorems rest on.
IssuanceInv == TypeInv /\ NonceInv /\ SerialInv /\ LogInv /\ EarnedInv /\ RecordInv

LEMMA IssuanceInvInit == Init => IssuanceInv
  BY EarnedInit, VaultAssumption
     DEF Init, IssuanceInv, SerialInv, SerialNamesOneCert, LogInv, LogLockOwner,
         AnswerAccounted, IsRecorded, RecordInv

LEMMA IssuanceInvStep == IssuanceInv /\ [Next]_vars => IssuanceInv'
  BY TypeStep, NonceStep, SerialStep, LogStep, EarnedStep, RecordStep DEF IssuanceInv

LEMMA RecordImpliesTruth ==
    ASSUME IssuanceInv
    PROVE  LogIsTruthful
<1> SUFFICES ASSUME NEW e \in writes \cup log_file
             PROVE  /\ e.granted <=> cert[e.rid] # NoCert
                    /\ e.granted => e.serial = SerialHex(cert[e.rid].serial)
                    /\ resp[e.rid] \in {"none", IF e.granted THEN "ok" ELSE "forbidden"}
                    /\ resp[e.rid] = "none" =>
                            \/ pc[e.rid] = "answering"
                            \/ /\ pc[e.rid] = "dropped" /\ e \in log_file
                               /\ epoch > 0
                               /\ e.granted => cert[e.rid].epoch < epoch
  BY DEF LogIsTruthful
<1>1. /\ e.rid \in Handler /\ e = LogEntry(e.rid) /\ EntryStands(e.rid)
      /\ verdict[e.rid] = "ok" => cert[e.rid] # NoCert
  BY DEF IssuanceInv, RecordInv
<1>2. /\ e.granted = (verdict[e.rid] = "ok")
      /\ e.serial = IF verdict[e.rid] = "ok" THEN SerialHex(cert[e.rid].serial) ELSE Empty
  BY <1>1 DEF LogEntry
<1>3. e.granted <=> cert[e.rid] # NoCert
  BY <1>1, <1>2 DEF IssuanceInv, EarnedInv
<1>4. resp[e.rid] # "none" => pc[e.rid] = "done"
  BY <1>1 DEF IssuanceInv, TypeInv, Progress
<1>5. resp[e.rid] \in {"none", IF e.granted THEN "ok" ELSE "forbidden"}
  BY <1>1, <1>2, <1>4 DEF EntryStands, Answer
<1>6. pc[e.rid] = "dropped" =>
        e \in log_file /\ epoch > 0 /\ (e.granted => cert[e.rid].epoch < epoch)
  BY <1>1, <1>3 DEF EntryStands, HasEntry
<1>7. pc[e.rid] = "done" => resp[e.rid] # "none"
  BY <1>1 DEF EntryStands, Answer
<1> QED  BY <1>1, <1>2, <1>3, <1>5, <1>6, <1>7 DEF EntryStands

\* An entry of the issuance log, written or under way, is never contradicted by
\* the answer and names the certificate that was signed; only a process that
\* ended before it answered leaves one without an answer (log.rs: record_grant,
\* record_rejection; routes.rs: unseal, renew).
THEOREM TheLogIsTruthful == Spec => []LogIsTruthful
  BY IssuanceInvInit, IssuanceInvStep, RecordImpliesTruth, PTL DEF Spec

-----------------------------------------------------------------------------
(* The vault implements IssuanceLedger *)

RecordBar == [h \in Handler |-> RecordOf(h)]
CallerBar == [h \in Handler |-> CallerOf(h)]
Unseen == RecordBar' = RecordBar /\ CallerBar' = CallerBar /\ epoch' = epoch

\* RecordOf in terms of the four cases, which RecordInv makes disjoint.
LEMMA RecordCases ==
    ASSUME RecordInv, NEW h \in Handler
    PROVE  /\ RecordOf(h) = "lost" <=> h \in lost
           /\ RecordOf(h) = "recorded" <=> HasEntry(h, log_file)
           /\ RecordOf(h) = "queued" <=> HasEntry(h, writes)
           /\ RecordOf(h) = "open" <=>
                h \notin lost /\ ~HasEntry(h, log_file) /\ ~HasEntry(h, writes)
           /\ RecordOf(h) \in {"open", "queued", "recorded", "lost"}
<1>1. HasEntry(h, log_file) => h \notin lost
  BY DEF RecordInv, HasEntry
<1>2. HasEntry(h, writes) => h \notin lost /\ ~HasEntry(h, log_file)
  BY DEF RecordInv, HasEntry
<1> QED  BY <1>1, <1>2 DEF RecordOf

\* A handler that has not been through append() is open, its caller waiting.
LEMMA OpenBefore ==
    ASSUME TypeInv, RecordInv, NEW h \in Handler,
           pc[h] \notin {"answering", "done", "dropped"}
    PROVE  RecordOf(h) = "open" /\ CallerOf(h) = "waiting"
<1>1. RecordOf(h) = "open"
  BY NoEntryYet, RecordCases DEF HasEntry
<1>2. ~IsRecorded(h)
  BY DEF IsRecorded, TypeInv, Progress
<1> QED  BY <1>1, <1>2 DEF CallerOf

LEMMA IssuanceStutters ==
    ASSUME UNCHANGED <<writes, log_file, lost, epoch>>,
           \A h \in Handler : /\ IsRecorded(h)' <=> IsRecorded(h)
                              /\ pc'[h] = "dropped" <=> pc[h] = "dropped"
    PROVE  Unseen
<1>1. \A h \in Handler : RecordOf(h)' = RecordOf(h) /\ CallerOf(h)' = CallerOf(h)
  BY DEF RecordOf, HasEntry, CallerOf
<1> QED  BY <1>1 DEF Unseen, RecordBar, CallerBar

LEMMA IssuanceStep ==
    ASSUME IssuanceInv, IssuanceInv', [Next]_vars
    PROVE  Issuance!IssuanceNext \/ Unseen
<1> USE VaultAssumption DEF vault_vars, handler_vars, history_vars
<1>0. /\ TypeInv /\ RecordInv /\ TypeInv' /\ RecordInv' /\ LogInv
      /\ \A g \in Handler : resp[g] # "none" => pc[g] = "done"
      /\ \A g \in Handler : resp'[g] # "none" => pc'[g] = "done"
  BY DEF IssuanceInv, TypeInv, Progress
<1>1. ASSUME NEW h \in Handler, NEW r \in Inputs, Receive(h, r)
      PROVE  Unseen
  <2>1. resp[h] = "none" /\ \A g \in Handler \ {h} : req'[g] = req[g] /\ pc'[g] = pc[g]
    BY <1>0, <1>1 DEF Receive, TypeInv, TypeOK
  <2>2. pc[h] = "idle" /\ pc'[h] = "received"
    BY <1>0, <1>1 DEF Receive, TypeInv, TypeOK
  <2> QED  BY <1>1, <2>1, <2>2, IssuanceStutters DEF Receive, IsRecorded
<1>2. ASSUME NEW h \in Handler,
             RejectEarly(h) \/ RejectAfterConsume(h) \/ IssueFails(h)
      PROVE  Unseen
  <2>1. /\ pc[h] \in {"received", "signing"} /\ pc'[h] # "dropped"
        /\ UNCHANGED <<req, writes, log_file, lost, epoch>>
        /\ \A g \in Handler \ {h} : resp'[g] = resp[g] /\ pc'[g] = pc[g]
    BY <1>0, <1>2 DEF RejectEarly, RejectAfterConsume, Reject, IssueFails, TypeInv, TypeOK
  <2>2. ~IsRecorded(h) /\ ~IsRecorded(h)'
    BY <1>0, <1>2, <2>1 DEF RejectEarly, RejectAfterConsume, Reject, IssueFails, IsRecorded,
                            TypeInv, TypeOK
  <2> QED  BY <2>1, <2>2, IssuanceStutters DEF IsRecorded
<1>3. ASSUME NEW h \in Handler,
             Accept(h) \/ BeginIssue(h) \/ FinishIssue(h) \/ LockLog(h)
      PROVE  Unseen
  <2>1. /\ UNCHANGED <<req, resp, writes, log_file, lost, epoch>>
        /\ pc[h] # "dropped" /\ pc'[h] # "dropped"
        /\ \A g \in Handler \ {h} : pc'[g] = pc[g]
    BY <1>0, <1>3 DEF Accept, BeginIssue, FinishIssue, LockLog, TypeInv, TypeOK
  <2> QED  BY <2>1, IssuanceStutters DEF IsRecorded
<1>4. ASSUME NEW h \in Handler, NEW fate \in {"queued", "lost"},
             \/ fate = "queued" /\ AppendEntry(h)
             \/ fate = "lost" /\ AppendFails(h)
      PROVE  Issuance!IssuanceNext
  <2>1. /\ pc[h] = "appending" /\ pc'[h] = "answering"
        /\ \A g \in Handler \ {h} : pc'[g] = pc[g]
        /\ UNCHANGED <<log_file, req, resp, epoch>>
        /\ \/ fate = "queued" /\ writes' = HandOver(h) /\ lost' = lost
           \/ fate = "lost" /\ writes' = writes /\ lost' = lost \cup {h}
    BY <1>0, <1>4 DEF AppendEntry, AppendFails, TypeInv, TypeOK
  <2>2. RecordOf(h) = "open" /\ CallerOf(h) = "waiting"
    BY <1>0, <2>1, OpenBefore
  <2>3. \A g \in Handler : HasEntry(g, writes') <=>
            HasEntry(g, writes) \/ (g = h /\ fate = "queued")
    <3>1. LogEntry(h).rid = h
      BY DEF LogEntry
    <3> QED  BY <2>1, <3>1 DEF HandOver, HasEntry
  <2>4. \A g \in Handler : RecordOf(g)' = IF g = h THEN fate ELSE RecordOf(g)
    BY <1>0, <2>1, <2>2, <2>3, RecordCases DEF RecordOf, HasEntry
  <2>5. \A g \in Handler : CallerOf(g)' = CallerOf(g)
    BY <2>1 DEF CallerOf, IsRecorded
  <2>6. /\ RecordBar' = [RecordBar EXCEPT ![h] = fate] /\ CallerBar' = CallerBar
        /\ RecordBar[h] = "open" /\ CallerBar[h] = "waiting"
    BY <2>2, <2>4, <2>5 DEF RecordBar, CallerBar
  <2>7. Issuance!Enter(h, fate)
    BY <2>1, <2>6 DEF Issuance!Enter, RecordBar, CallerBar
  <2> QED  BY <2>7 DEF Issuance!IssuanceNext
<1>5. ASSUME NEW h \in Handler, Respond(h)
      PROVE  Issuance!IssuanceNext
  <2>1. /\ pc[h] = "answering" /\ pc'[h] = "done" /\ resp'[h] = Answer(h)
        /\ \A g \in Handler \ {h} : pc'[g] = pc[g] /\ resp'[g] = resp[g]
        /\ UNCHANGED <<req, verdict, writes, log_file, lost, epoch>>
    BY <1>0, <1>5 DEF Respond, TypeInv, TypeOK
  <2>2. RecordOf(h) # "open"
    BY <1>0, <2>1, RecordCases DEF LogInv, HasEntry, LogEntry
  <2>3. CallerOf(h) = "waiting"
    BY <1>0, <2>1 DEF CallerOf, IsRecorded
  <2>4. IsRecorded(h)'
    BY <1>0, <2>1 DEF RecordInv, IsRecorded, Answer
  <2>5. \A g \in Handler : RecordOf(g)' = RecordOf(g)
    BY <2>1 DEF RecordOf, HasEntry
  <2>6. \A g \in Handler : CallerOf(g)' = IF g = h THEN "told" ELSE CallerOf(g)
    BY <2>1, <2>4 DEF CallerOf, IsRecorded
  <2>7. /\ RecordBar' = RecordBar /\ CallerBar' = [CallerBar EXCEPT ![h] = "told"]
        /\ RecordBar[h] # "open" /\ CallerBar[h] = "waiting"
    BY <2>2, <2>3, <2>5, <2>6 DEF RecordBar, CallerBar
  <2>8. Issuance!Tell(h)
    BY <2>1, <2>7 DEF Issuance!Tell, RecordBar, CallerBar
  <2> QED  BY <2>8 DEF Issuance!IssuanceNext
<1>6. ASSUME NEW h \in Handler, Cancel(h)
      PROVE  Issuance!IssuanceNext
  <2> DEFINE fate == IF pc[h] = "received" THEN "open" ELSE "lost"
  <2>1. /\ pc[h] \in {"received", "logging", "appending"} /\ pc'[h] = "dropped"
        /\ \A g \in Handler \ {h} : pc'[g] = pc[g]
        /\ lost' = IF fate = "open" THEN lost ELSE lost \cup {h}
        /\ UNCHANGED <<req, resp, writes, log_file, epoch>>
    BY <1>0, <1>6 DEF Cancel, TypeInv, TypeOK
  <2>2. fate \in {"open", "lost"}
    OBVIOUS
  <2>3. RecordOf(h) = "open" /\ CallerOf(h) = "waiting"
    BY <1>0, <2>1, OpenBefore
  <2> HIDE DEF fate
  <2>4. \A g \in Handler : RecordOf(g)' = IF g = h THEN fate ELSE RecordOf(g)
    BY <1>0, <2>1, <2>2, <2>3, RecordCases DEF RecordOf, HasEntry
  <2>5. ~IsRecorded(h)'
    BY <1>0, <2>1 DEF IsRecorded
  <2>6. \A g \in Handler : CallerOf(g)' = IF g = h THEN "gone" ELSE CallerOf(g)
    BY <2>1, <2>5 DEF CallerOf, IsRecorded
  <2>7. /\ RecordBar' = [RecordBar EXCEPT ![h] = fate]
        /\ CallerBar' = [CallerBar EXCEPT ![h] = "gone"]
        /\ RecordBar[h] = "open" /\ CallerBar[h] = "waiting"
    BY <2>3, <2>4, <2>6 DEF RecordBar, CallerBar
  <2>8. Issuance!Leave(h, fate)
    BY <2>1, <2>7 DEF Issuance!Leave, RecordBar, CallerBar
  <2> QED  BY <2>2, <2>8 DEF Issuance!IssuanceNext
<1>7. ASSUME NEW e \in writes, NEW fate \in {"recorded", "lost"},
             \/ fate = "recorded" /\ WriteLands(e)
             \/ fate = "lost" /\ WriteLost(e)
      PROVE  Issuance!IssuanceNext
  <2>1. PICK h \in Handler : h = e.rid
    BY <1>0 DEF RecordInv
  <2>2. /\ writes' = writes \ {e} /\ UNCHANGED <<pc, req, resp, epoch>>
        /\ \/ fate = "recorded" /\ log_file' = log_file \cup {e} /\ lost' = lost
           \/ fate = "lost" /\ log_file' = log_file /\ lost' = lost \cup {h}
    BY <1>7, <2>1 DEF WriteLands, WriteLost
  <2>3. HasEntry(h, writes) /\ \A f \in writes : f.rid = h => f = e
    BY <1>0, <2>1 DEF HasEntry, RecordInv
  <2>4. \A g \in Handler \ {h} : /\ HasEntry(g, writes') <=> HasEntry(g, writes)
                                 /\ HasEntry(g, log_file') <=> HasEntry(g, log_file)
                                 /\ g \in lost' <=> g \in lost
    BY <2>1, <2>2 DEF HasEntry
  <2>5. RecordOf(h) = "queued"
    BY <1>0, <2>3, RecordCases
  <2>6. RecordOf(h)' = fate
    BY <1>0, <2>1, <2>2, <2>5, RecordCases DEF RecordOf, HasEntry
  <2>7. \A g \in Handler : RecordOf(g)' = IF g = h THEN fate ELSE RecordOf(g)
    BY <2>4, <2>6 DEF RecordOf
  <2>8. \A g \in Handler : CallerOf(g)' = CallerOf(g)
    BY <2>2 DEF CallerOf, IsRecorded
  <2>9. /\ RecordBar' = [RecordBar EXCEPT ![h] = fate] /\ CallerBar' = CallerBar
        /\ RecordBar[h] = "queued"
    BY <2>5, <2>7, <2>8 DEF RecordBar, CallerBar
  <2>10. Issuance!Settle(h, fate)
    BY <2>2, <2>9 DEF Issuance!Settle, RecordBar, CallerBar
  <2> QED  BY <2>10 DEF Issuance!IssuanceNext
<1>8. CASE Restart
  <2>1. /\ epoch' = epoch + 1 /\ writes' = {} /\ log_file' = log_file
        /\ UNCHANGED <<req, resp>> /\ lost \subseteq lost'
        /\ \A g \in Handler : HasEntry(g, writes) => g \in lost'
    BY <1>8 DEF Restart, HasEntry
  <2>2. \A g \in Handler : pc'[g] = IF pc[g] \in {"idle", "done"} THEN pc[g] ELSE "dropped"
    BY <1>8 DEF Restart
  <2>3. ASSUME NEW g \in Handler
        PROVE  /\ RecordOf(g)' # RecordOf(g) =>
                      RecordOf(g) \in {"open", "queued"} /\ RecordOf(g)' = "lost"
               /\ RecordOf(g)' \in {"open", "recorded", "lost"}
    <3>1. ~HasEntry(g, writes')
      BY <2>1 DEF HasEntry
    <3>2. g \in lost' => ~HasEntry(g, log_file)
      BY <1>0, <2>1 DEF RecordInv, HasEntry
    <3> QED  BY <2>1, <3>1, <3>2 DEF RecordOf
  <2>4. ASSUME NEW g \in Handler
        PROVE  /\ CallerOf(g)' # CallerOf(g) =>
                      CallerOf(g) = "waiting" /\ CallerOf(g)' = "gone"
               /\ CallerOf(g)' \in {"waiting", "told", "gone"}
    <3>1. IsRecorded(g)' <=> IsRecorded(g)
      BY <2>1 DEF IsRecorded
    <3> QED  BY <2>2, <3>1 DEF CallerOf
  <2>5. /\ RecordBar' \in [Handler -> {"open", "queued", "recorded", "lost"}]
        /\ CallerBar' \in [Handler -> {"waiting", "told", "gone"}]
        /\ epoch' \in Nat
    BY <1>0, <2>3, <2>4 DEF RecordBar, CallerBar, TypeInv, TypeOK
  <2>6. \A g \in Handler : /\ RecordBar[g] = RecordOf(g) /\ RecordBar'[g] = RecordOf(g)'
                           /\ CallerBar[g] = CallerOf(g) /\ CallerBar'[g] = CallerOf(g)'
    BY DEF RecordBar, CallerBar
  <2>7. \A g \in Handler :
            /\ RecordBar'[g] # RecordBar[g] =>
                   RecordBar[g] \in {"open", "queued"} /\ RecordBar'[g] = "lost"
            /\ RecordBar'[g] # "queued"
            /\ CallerBar'[g] # CallerBar[g] =>
                   CallerBar[g] = "waiting" /\ CallerBar'[g] = "gone"
    BY <2>3, <2>4, <2>6
  <2>8. Issuance!Crash
    BY <2>1, <2>5, <2>7 DEF Issuance!Crash, Issuance!IssuanceTypeOK, RecordBar, CallerBar
  <2> QED  BY <2>8 DEF Issuance!IssuanceNext
<1>9. ASSUME UNCHANGED <<writes, log_file, lost, epoch, handler_vars>>
      PROVE  Unseen
  BY <1>9, IssuanceStutters DEF IsRecorded
<1>10. ASSUME NEW n \in Nonce, GetNonce(n)
       PROVE  Unseen
  BY <1>9, <1>10 DEF GetNonce
<1>11. ASSUME NEW s \in RevokeInputs, Revoke(s)
       PROVE  Unseen
  BY <1>9, <1>11 DEF Revoke
<1>12. CASE Tick \/ UNCHANGED vars
  BY <1>9, <1>12 DEF Tick, vars
<1> QED
  BY <1>1, <1>2, <1>3, <1>4, <1>5, <1>6, <1>7, <1>8, <1>10, <1>11, <1>12
     DEF Next, HandlerStep

\* Every behaviour of the vault is, seen through RecordOf and CallerOf, a
\* behaviour of the abstract issuance ledger: nobody is told before the entry is
\* under way or lost, only a crash leaves an entry whose caller was not told, and
\* what is recorded or lost stays so (log.rs: append; routes.rs: unseal, renew).
THEOREM VaultImplementsIssuance == Spec => LogLifecycle
<1>1. Init => Issuance!IssuanceInit
  BY DEF Init, Issuance!IssuanceInit, RecordOf, CallerOf, HasEntry, IsRecorded
<1>2. IssuanceInv /\ IssuanceInv' /\ [Next]_vars =>
        [Issuance!IssuanceNext]_(Issuance!issuance_vars)
  BY IssuanceStep DEF Unseen, RecordBar, CallerBar, Issuance!issuance_vars
<1> QED
  BY <1>1, <1>2, IssuanceInvInit, IssuanceInvStep, PTL
     DEF Spec, LogLifecycle, Issuance!IssuanceSpec

=============================================================================
