------------------------------- MODULE Vault -------------------------------
(***************************************************************************)
(* The vault service (vault-service/src): the nonce store and attestation  *)
(* verifier, the certificate issuer, the append-only issuance log, the     *)
(* revocation list, and the HTTP handlers that use them concurrently.      *)
(*                                                                         *)
(* Each element of Handler is one POST /vault/unseal or /vault/renew       *)
(* request and the tokio task that serves it.  A handler advances in the   *)
(* pieces the code leaves between two accesses to shared state:            *)
(*                                                                         *)
(*   received --verify()--> verified --issue()--> signing --> logging      *)
(*       |                                           |           |         *)
(*       +--> (unseal) logging, (renew) done         +--> done   v         *)
(*                                   done <--- answering <--- appending     *)
(*                                                                         *)
(* A task whose client disconnects is dropped at its next await point      *)
(* (Cancel); the whole process may be restarted at any time (Restart),     *)
(* which keeps the log file and nothing else.                              *)
(***************************************************************************)
EXTENDS Integers, FiniteSets

CONSTANTS
    Handler,        \* requests, each with the task that serves it
    Nonce,          \* 32-byte nonces
    Machine,        \* machine ids a caller may present
    Service,        \* service names a caller may present
    Allowlist,      \* machine_ids of allowlist.toml
    DevId,          \* the wildcard machine id "dev"
    Empty,          \* the empty string
    Garbled,        \* any text that is neither empty nor what was expected
    Inputs,         \* the request bodies callers post
    RevokeInputs,   \* the serial texts callers post to /vault/revoke
    NoRequest,      \* handler has not been started
    NoCert,         \* handler has not called issue()
    Free,           \* the log mutex is not held
    NONCE_TTL,      \* 30 s in the code
    CERT_TTL_SECS,  \* 300 s in the code
    MaxClock,       \* bound: seconds of model time
    MaxRestarts     \* bound: restarts of the vault process

\* hex::encode writes lower case; hex::decode reads either case.
HexText == Nonce \X {"lower", "upper"}
HexEncode(n) == <<n, "lower">>
HexDecode(t) == t[1]

\* The stub quote: hex(SHA-256(nonce)).
Sha256(n) == <<"sha256", n>>

\* format!("{serial:016x}")
SerialHex(k) == <<"hex16", k>>
SerialText == {"hex16"} \X Nat

Request == [op      : {"unseal", "renew"},
            service : Service,
            machine : Machine,
            nonce   : HexText \cup {Empty, Garbled},
            quote   : {Sha256(n) : n \in Nonce} \cup {Empty, Garbled}]

Cert  == [serial : Nat, not_after : Nat, expires_at : Nat, epoch : Nat]
Entry == [rid : Handler, granted : BOOLEAN, serial : SerialText \cup {Empty}]
Stamp == [at : Nat, epoch : Nat]

ASSUME VaultAssumption ==
    /\ Inputs \subseteq Request
    /\ RevokeInputs \subseteq SerialText
    /\ NONCE_TTL \in Nat /\ CERT_TTL_SECS \in Nat
    /\ MaxClock \in Nat /\ MaxRestarts \in Nat
    /\ NoRequest \notin Request
    /\ NoCert \notin Cert
    /\ Free \notin Handler
    /\ Empty \notin HexText /\ Garbled \notin HexText
    /\ Empty \notin SerialText

VARIABLES
    clock,          \* monotonic and wall clock, in seconds
    epoch,          \* number of restarts so far
    nonce_store,    \* NonceStore.inner: nonce -> time of registration
    SERIAL_COUNTER, \* next serial
    log_lock,       \* IssuanceLog.lock
    writes,         \* entries handed to tokio's blocking pool, not yet written
    log_file,       \* entries in the file at LOG_PATH
    revoked,        \* AppState.revoked (the reasons are left out)
    issued,         \* AppState.issued
    pc,             \* where each handler is
    req,            \* the body it received
    verdict,        \* what verify() returned to it
    cert,           \* the certificate issue() made for it
    resp,           \* its HTTP answer
    born,           \* history: when each nonce was handed out
    verified,       \* history: when each handler's nonce was consumed
    lost,           \* history: handlers whose log entry will never be written
    burnt           \* history: nonces refused when presented from the store

vault_vars   == <<nonce_store, SERIAL_COUNTER, log_lock, writes, log_file,
                  revoked, issued>>
handler_vars == <<pc, req, verdict, cert, resp>>
history_vars == <<born, verified, lost, burnt>>
vars == <<clock, epoch, vault_vars, handler_vars, history_vars>>

TypeOK ==
    /\ clock \in Nat /\ epoch \in Nat
    /\ DOMAIN nonce_store \subseteq Nonce
    /\ nonce_store \in [DOMAIN nonce_store -> Nat]
    /\ SERIAL_COUNTER \in Nat \ {0}
    /\ log_lock \in Handler \cup {Free}
    /\ writes \subseteq Entry /\ log_file \subseteq Entry
    /\ revoked \subseteq SerialText
    /\ issued \in Nat
    /\ pc \in [Handler -> {"idle", "received", "verified", "signing",
                           "logging", "appending", "answering", "done", "dropped"}]
    /\ req \in [Handler -> Request \cup {NoRequest}]
    /\ verdict \in [Handler -> {"none", "ok", "rejected"}]
    /\ cert \in [Handler -> Cert \cup {NoCert}]
    /\ resp \in [Handler -> {"none", "ok", "forbidden", "internal"}]
    /\ DOMAIN born \subseteq Nonce
    /\ born \in [DOMAIN born -> Stamp]
    /\ verified \in [Handler -> Stamp]
    /\ lost \subseteq Handler
    /\ burnt \subseteq Nonce

\* Mutant: the counter starts at zero, which is no X.509 serial number.
InitialSerialZero == 0

\* static SERIAL_COUNTER: AtomicU64 = AtomicU64::new(1)
InitialSerial == 1

\* main(): empty in-memory state; the log file may not exist yet.
Init ==
    /\ clock = 0 /\ epoch = 0
    /\ nonce_store = [n \in {} |-> 0]
    /\ SERIAL_COUNTER = InitialSerial
    /\ log_lock = Free
    /\ writes = {} /\ log_file = {}
    /\ revoked = {}
    /\ issued = 0
    /\ pc = [h \in Handler |-> "idle"]
    /\ req = [h \in Handler |-> NoRequest]
    /\ verdict = [h \in Handler |-> "none"]
    /\ cert = [h \in Handler |-> NoCert]
    /\ resp = [h \in Handler |-> "none"]
    /\ born = [n \in {} |-> [at |-> 0, epoch |-> 0]]
    /\ verified = [h \in Handler |-> [at |-> 0, epoch |-> 0]]
    /\ lost = {} /\ burnt = {}

-----------------------------------------------------------------------------
(* The nonce store *)

\* issued_at.elapsed() < Duration::from_secs(30)
Fresh(at) == clock - at < NONCE_TTL

\* The map after register(n): expired entries pruned, n inserted.
Registered(n) ==
    [m \in {k \in DOMAIN nonce_store : Fresh(nonce_store[k])} \cup {n} |->
        IF m = n THEN clock ELSE nonce_store[m]]

\* Mutant: consume() looks the nonce up and leaves it in the map.
ConsumedKeepsNonce(n) == nonce_store

\* The map after consume(n): n is removed whether or not it was fresh.
Consumed(n) == [m \in DOMAIN nonce_store \ {n} |-> nonce_store[m]]

\* Mutant: consume() forgets the age of the entry.
ConsumeSucceedsAtAnyAge(n) == n \in DOMAIN nonce_store

\* The value consume(n) returns.
ConsumeSucceeds(n) == n \in DOMAIN nonce_store /\ Fresh(nonce_store[n])

\* GET /vault/nonce.  The 32 random bytes are taken never to repeat.
GetNonce(n) ==
    /\ n \notin DOMAIN born
    /\ nonce_store' = Registered(n)
    /\ born' = [m \in DOMAIN born \cup {n} |->
                  IF m = n THEN [at |-> clock, epoch |-> epoch] ELSE born[m]]
    /\ UNCHANGED <<clock, epoch, SERIAL_COUNTER, log_lock, writes, log_file,
                   revoked, issued, handler_vars, verified, lost, burnt>>

-----------------------------------------------------------------------------
(* POST /vault/unseal and POST /vault/renew *)

Receive(h, r) ==
    /\ pc[h] = "idle"
    /\ pc' = [pc EXCEPT ![h] = "received"]
    /\ req' = [req EXCEPT ![h] = r]
    /\ UNCHANGED <<clock, epoch, vault_vars, verdict, cert, resp, history_vars>>

AllowlistContains(m) == DevId \in Allowlist \/ m \in Allowlist

\* Mutant: any machine may ask.
PreChecksAnyMachine(r) == r.nonce \in HexText

\* The checks verify() makes before it touches the nonce store.
PreChecks(r) == AllowlistContains(r.machine) /\ r.nonce \in HexText

QuoteAccepted(q, n) == q = Empty \/ q = Sha256(n)

NonceOf(h) == HexDecode(req[h].nonce)

\* verify() returned Err: unseal records the rejection before it answers,
\* renew answers at once.
Reject(h) ==
    /\ verdict' = [verdict EXCEPT ![h] = "rejected"]
    /\ pc' = [pc EXCEPT ![h] = IF req[h].op = "unseal" THEN "logging" ELSE "done"]
    /\ resp' = IF req[h].op = "unseal" THEN resp
                                       ELSE [resp EXCEPT ![h] = "forbidden"]

\* verify() fails on the allowlist, or on an empty or undecodable nonce.
RejectEarly(h) ==
    /\ pc[h] = "received"
    /\ ~PreChecks(req[h])
    /\ Reject(h)
    /\ UNCHANGED <<clock, epoch, vault_vars, req, cert, history_vars>>

\* Mutant: the quote is looked at before consume(), so a bad one keeps the nonce.
RejectAfterConsumeQuoteFirst(h) ==
    /\ pc[h] = "received"
    /\ PreChecks(req[h])
    /\ ~(ConsumeSucceeds(NonceOf(h)) /\ QuoteAccepted(req[h].quote, NonceOf(h)))
    /\ nonce_store' = IF QuoteAccepted(req[h].quote, NonceOf(h))
                      THEN Consumed(NonceOf(h)) ELSE nonce_store
    /\ burnt' = burnt \cup ({NonceOf(h)} \cap DOMAIN nonce_store)
    /\ Reject(h)
    /\ UNCHANGED <<clock, epoch, SERIAL_COUNTER, log_lock, writes, log_file,
                   revoked, issued, req, cert, born, verified, lost>>

\* verify() reaches the store, whose mutex makes consume() atomic, and fails
\* on the nonce or on the quote: either way the nonce is gone.
RejectAfterConsume(h) ==
    /\ pc[h] = "received"
    /\ PreChecks(req[h])
    /\ ~(ConsumeSucceeds(NonceOf(h)) /\ QuoteAccepted(req[h].quote, NonceOf(h)))
    /\ nonce_store' = Consumed(NonceOf(h))
    /\ burnt' = burnt \cup ({NonceOf(h)} \cap DOMAIN nonce_store)
    /\ Reject(h)
    /\ UNCHANGED <<clock, epoch, SERIAL_COUNTER, log_lock, writes, log_file,
                   revoked, issued, req, cert, born, verified, lost>>

\* verify() returns Ok.
Accept(h) ==
    /\ pc[h] = "received"
    /\ PreChecks(req[h])
    /\ ConsumeSucceeds(NonceOf(h))
    /\ QuoteAccepted(req[h].quote, NonceOf(h))
    /\ nonce_store' = Consumed(NonceOf(h))
    /\ verdict' = [verdict EXCEPT ![h] = "ok"]
    /\ pc' = [pc EXCEPT ![h] = "verified"]
    /\ verified' = [verified EXCEPT ![h] = [at |-> clock, epoch |-> epoch]]
    /\ UNCHANGED <<clock, epoch, SERIAL_COUNTER, log_lock, writes, log_file,
                   revoked, issued, req, cert, resp, born, lost, burnt>>

\* Mutant: an update of the counter is lost, as load and store in two steps
\* would lose one of two that run at the same time.
NextSerialNotAtomic == SERIAL_COUNTER

\* SERIAL_COUNTER.fetch_add(1): the counter's new value.
NextSerial == SERIAL_COUNTER + 1

\* issue(), first half: take a serial, read the clock for not_after.
BeginIssue(h) ==
    /\ pc[h] = "verified"
    /\ SERIAL_COUNTER' = NextSerial
    /\ cert' = [cert EXCEPT ![h] = [serial     |-> SERIAL_COUNTER,
                                    not_after  |-> clock + CERT_TTL_SECS,
                                    expires_at |-> 0,
                                    epoch      |-> epoch]]
    /\ pc' = [pc EXCEPT ![h] = "signing"]
    /\ UNCHANGED <<clock, epoch, nonce_store, log_lock, writes, log_file,
                   revoked, issued, req, verdict, resp, history_vars>>

\* issue(), second half: the key is generated and the leaf signed; expires_at
\* is computed from a second reading of the clock.
FinishIssue(h) ==
    /\ pc[h] = "signing"
    /\ cert' = [cert EXCEPT ![h].expires_at = clock + CERT_TTL_SECS]
    /\ pc' = [pc EXCEPT ![h] = "logging"]
    /\ UNCHANGED <<clock, epoch, vault_vars, req, verdict, resp, history_vars>>

\* issue() fails (key generation, CA parsing, signing): 500, nothing logged.
IssueFails(h) ==
    /\ pc[h] = "signing"
    /\ cert' = [cert EXCEPT ![h] = NoCert]
    /\ pc' = [pc EXCEPT ![h] = "done"]
    /\ resp' = [resp EXCEPT ![h] = "internal"]
    /\ UNCHANGED <<clock, epoch, vault_vars, req, verdict, history_vars>>

-----------------------------------------------------------------------------
(* The issuance log *)

\* Mutant: the entry is built from the counter instead of the certificate.
LogEntryFromCounter(h) ==
    [rid     |-> h,
     granted |-> verdict[h] = "ok",
     serial  |-> IF verdict[h] = "ok" THEN SerialHex(SERIAL_COUNTER) ELSE Empty]

\* The line record_grant or record_rejection builds.
LogEntry(h) ==
    [rid     |-> h,
     granted |-> verdict[h] = "ok",
     serial  |-> IF verdict[h] = "ok" THEN SerialHex(cert[h].serial) ELSE Empty]

\* The answer of a handler that has been through the log.
Answer(h) == IF verdict[h] = "ok" THEN "ok" ELSE "forbidden"

\* Mutant: the answer goes out before the entry is handed over.
LockLogAnswersFirst(h) ==
    /\ pc[h] = "logging"
    /\ log_lock = Free
    /\ log_lock' = h
    /\ pc' = [pc EXCEPT ![h] = "appending"]
    /\ resp' = [resp EXCEPT ![h] = Answer(h)]
    /\ UNCHANGED <<clock, epoch, nonce_store, SERIAL_COUNTER, writes, log_file,
                   revoked, issued, req, verdict, cert, history_vars>>

LockLog(h) ==
    /\ pc[h] = "logging"
    /\ log_lock = Free
    /\ log_lock' = h
    /\ pc' = [pc EXCEPT ![h] = "appending"]
    /\ UNCHANGED <<clock, epoch, nonce_store, SERIAL_COUNTER, writes, log_file,
                   revoked, issued, req, verdict, cert, resp, history_vars>>

\* Mutant: a write still in the blocking pool is replaced by the next one.
HandOverReplaces(h) == {LogEntry(h)}

\* write_all() leaves the line with the blocking pool and returns.
HandOver(h) == writes \cup {LogEntry(h)}

\* append() opens the file and hands the line over; the guard is dropped.
AppendEntry(h) ==
    /\ pc[h] = "appending"
    /\ writes' = HandOver(h)
    /\ log_lock' = Free
    /\ pc' = [pc EXCEPT ![h] = "answering"]
    /\ UNCHANGED <<clock, epoch, nonce_store, SERIAL_COUNTER, log_file, revoked,
                   issued, req, verdict, cert, resp, history_vars>>

\* Mutant: the early return of the mkdir/open error path keeps the mutex.
AppendFailsKeepsLock(h) ==
    /\ pc[h] = "appending"
    /\ pc' = [pc EXCEPT ![h] = "answering"]
    /\ lost' = lost \cup {h}
    /\ UNCHANGED <<clock, epoch, nonce_store, SERIAL_COUNTER, log_lock, writes,
                   log_file, revoked, issued, req, verdict, cert, resp, born,
                   verified, burnt>>

\* The directory or the file cannot be opened: logged as an error, and the
\* handler goes on as if the entry had been written.
AppendFails(h) ==
    /\ pc[h] = "appending"
    /\ log_lock' = Free
    /\ pc' = [pc EXCEPT ![h] = "answering"]
    /\ lost' = lost \cup {h}
    /\ UNCHANGED <<clock, epoch, nonce_store, SERIAL_COUNTER, writes, log_file,
                   revoked, issued, req, verdict, cert, resp, born, verified, burnt>>

\* The handler returns its answer.  The pool thread does not wait for this, and
\* the process may end before it.
Respond(h) ==
    /\ pc[h] = "answering"
    /\ pc' = [pc EXCEPT ![h] = "done"]
    /\ resp' = [resp EXCEPT ![h] = Answer(h)]
    /\ UNCHANGED <<clock, epoch, vault_vars, req, verdict, cert, history_vars>>

\* The blocking pool performs a write: it succeeds, or the disk refuses it and
\* nobody reads the error.
WriteLands(e) ==
    /\ e \in writes
    /\ writes' = writes \ {e}
    /\ log_file' = log_file \cup {e}
    /\ UNCHANGED <<clock, epoch, nonce_store, SERIAL_COUNTER, log_lock, revoked,
                   issued, handler_vars, history_vars>>

WriteLost(e) ==
    /\ e \in writes
    /\ writes' = writes \ {e}
    /\ lost' = lost \cup {e.rid}
    /\ UNCHANGED <<clock, epoch, nonce_store, SERIAL_COUNTER, log_lock, log_file,
                   revoked, issued, handler_vars, born, verified, burnt>>

-----------------------------------------------------------------------------
(* Cancellation, revocation, restart, time *)

\* Mutant: a dropped task leaves the log mutex locked.
ReleasedByKeepsLock(h) == log_lock

\* Dropping the task's future drops the guard it holds.
ReleasedBy(h) == IF log_lock = h THEN Free ELSE log_lock

\* The client goes away: hyper drops the handler at an await point.  Nothing is
\* awaited between the hand-over of the line and the answer.
Cancel(h) ==
    /\ pc[h] \in {"received", "logging", "appending"}
    /\ log_lock' = ReleasedBy(h)
    /\ pc' = [pc EXCEPT ![h] = "dropped"]
    /\ lost' = IF pc[h] = "received" THEN lost ELSE lost \cup {h}
    /\ UNCHANGED <<clock, epoch, nonce_store, SERIAL_COUNTER, writes, log_file,
                   revoked, issued, req, verdict, cert, resp, born, verified,
                   burnt>>

\* POST /vault/revoke with a serial field; a body without one changes nothing.
Revoke(s) ==
    /\ revoked' = revoked \cup {s}
    /\ UNCHANGED <<clock, epoch, nonce_store, SERIAL_COUNTER, log_lock, writes,
                   log_file, issued, handler_vars, history_vars>>

\* Mutant: nonces outlive the process that registered them.
NoncesAfterRestartKept == nonce_store

\* Mutant: a restarted vault takes every nonce ever handed out for live.
NoncesAfterRestartReloaded == [n \in DOMAIN born |-> born[n].at]

\* NonceStore::new()
NoncesAfterRestart == [n \in {} |-> 0]

\* The process dies and main() runs again.
Restart ==
    /\ epoch < MaxRestarts
    /\ epoch' = epoch + 1
    /\ nonce_store' = NoncesAfterRestart
    /\ SERIAL_COUNTER' = InitialSerial
    /\ log_lock' = Free
    /\ writes' = {}
    /\ lost' = lost \cup {e.rid : e \in writes}
                    \cup {h \in Handler :
                            pc[h] \in {"verified", "signing", "logging", "appending"}}
    /\ revoked' = {}
    /\ issued' = 0
    /\ pc' = [h \in Handler |-> IF pc[h] \in {"idle", "done"} THEN pc[h]
                                                              ELSE "dropped"]
    /\ UNCHANGED <<clock, log_file, req, verdict, cert, resp, born, verified, burnt>>

Tick ==
    /\ clock < MaxClock
    /\ clock' = clock + 1
    /\ UNCHANGED <<epoch, vault_vars, handler_vars, history_vars>>

HandlerStep(h) ==
    \/ RejectEarly(h) \/ RejectAfterConsume(h) \/ Accept(h)
    \/ BeginIssue(h) \/ FinishIssue(h) \/ IssueFails(h)
    \/ LockLog(h) \/ AppendEntry(h) \/ AppendFails(h) \/ Respond(h)

Next ==
    \/ \E n \in Nonce : GetNonce(n)
    \/ \E h \in Handler : \E r \in Inputs : Receive(h, r)
    \/ \E h \in Handler : HandlerStep(h)
    \/ \E h \in Handler : Cancel(h)
    \/ \E e \in writes : WriteLands(e) \/ WriteLost(e)
    \/ \E s \in RevokeInputs : Revoke(s)
    \/ Restart
    \/ Tick

Spec == Init /\ [][Next]_vars

\* tokio polls every ready task, and its Mutex is FIFO: a handler waiting for
\* the log gets its turn.
Fairness ==
    \A h \in Handler :
        /\ WF_vars(HandlerStep(h))
        /\ SF_vars(LockLog(h))

FairSpec == Spec /\ Fairness

-----------------------------------------------------------------------------
(* Safety *)

\* A nonce authorises at most one request, whatever the interleaving of
\* concurrent verify() calls, retries, respellings of the hex text and
\* restarts: "nonces are single-use" (attestation_verifier.rs:53).
NonceSingleUse ==
    \A g, h \in Handler :
        verdict[g] = "ok" /\ verdict[h] = "ok" /\ g # h => NonceOf(g) # NonceOf(h)

\* A request is accepted only while its nonce is younger than the 30 s window,
\* counted from when the nonce was handed out to when consume() ran.
NonceFresh ==
    \A h \in Handler :
        verdict[h] = "ok" =>
            /\ NonceOf(h) \in DOMAIN born
            /\ verified[h].at - born[NonceOf(h)].at < NONCE_TTL

\* "must have been issued by this vault instance" (attestation_verifier.rs:91):
\* no request is accepted with a nonce an earlier process handed out.
NonceFromThisInstance ==
    \A h \in Handler :
        verdict[h] = "ok" =>
            /\ NonceOf(h) \in DOMAIN born
            /\ verified[h].epoch = born[NonceOf(h)].epoch

\* A certificate is signed only for a listed machine that quoted a nonce, and by
\* the very process that handed the nonce out: no restart separates the nonce,
\* its verification and the signature.
CertsAreEarned ==
    \A h \in Handler :
        cert[h] # NoCert =>
            /\ AllowlistContains(req[h].machine)
            /\ QuoteAccepted(req[h].quote, NonceOf(h))
            /\ NonceOf(h) \in DOMAIN born
            /\ cert[h].epoch = born[NonceOf(h)].epoch

\* Certificates that concurrent handlers of one vault process have been issued
\* carry different serials, so that revoking a serial names one certificate.
SerialNamesOneCert ==
    \A g, h \in Handler :
        /\ g # h /\ cert[g] # NoCert /\ cert[h] # NoCert
        /\ cert[g].epoch = cert[h].epoch
        => cert[g].serial # cert[h].serial

\* The log mutex is held by the handler inside append() and by no other, also
\* after error returns, dropped tasks and restarts.
LogLockOwner == \A h \in Handler : log_lock = h <=> pc[h] = "appending"

\* Answers that go out after a visit to the log: every grant, and the rejection
\* of an unseal (renew answers a rejection without recording it).
IsRecorded(h) == resp[h] = "ok" \/ (resp[h] = "forbidden" /\ req[h].op = "unseal")

\* A caller that was given a certificate, or refused one at boot, appears in the
\* issuance log, or is about to, or its entry is lost to a failing disk or a
\* crash.
AnswerAccounted ==
    \A h \in Handler :
        IsRecorded(h) => h \in lost \/ LogEntry(h) \in writes \cup log_file

\* The converse: the log never says what did not happen.  A grant in it, on its
\* way or in the file, names the certificate that was signed; an entry is never
\* contradicted by the answer; and one that no answer goes with was left by a
\* process that ended between the hand-over and the answer, never by a client
\* that went away or an error inside append().
LogIsTruthful ==
    \A e \in writes \cup log_file :
        /\ e.granted <=> cert[e.rid] # NoCert
        /\ e.granted => e.serial = SerialHex(cert[e.rid].serial)
        /\ resp[e.rid] \in {"none", IF e.granted THEN "ok" ELSE "forbidden"}
        /\ resp[e.rid] = "none" =>
                \/ pc[e.rid] = "answering"
                \/ /\ pc[e.rid] = "dropped" /\ e \in log_file
                   /\ epoch > 0
                   /\ e.granted => cert[e.rid].epoch < epoch

(* Liveness *)

\* Every request is answered or dropped: no handler waits for ever on the log
\* mutex, whatever happens to the handlers before it.
RequestsEnd ==
    \A h \in Handler : pc[h] = "received" ~> pc[h] \in {"done", "dropped"}

\* "a logging failure must never prevent cert issuance" (log.rs:10): once a
\* certificate is signed the caller gets it, unless the task is dropped.
SignedIsReturned ==
    \A h \in Handler :
        pc[h] = "logging" /\ verdict[h] = "ok" ~> resp[h] = "ok" \/ pc[h] = "dropped"

(* Refinement *)

LedgerOf(n) ==
    IF n \notin DOMAIN born THEN "unborn"
    ELSE IF \E h \in Handler : verdict[h] = "ok" /\ NonceOf(h) = n THEN "spent"
    ELSE IF n \in burnt THEN "burnt"
    ELSE IF n \in DOMAIN nonce_store THEN "live"
    ELSE "void"

Ledger == INSTANCE NonceLedger WITH ledger <- [n \in Nonce |-> LedgerOf(n)]

\* The concurrent, crashing vault treats its nonces as NonceLedger says: handed
\* out once, spent at most once, burnt by the first refusal they are presented for,
\* never revived.
NonceLifecycle == Ledger!LedgerSpec

HasEntry(h, entries) == \E e \in entries : e.rid = h

RecordOf(h) ==
    IF h \in lost THEN "lost"
    ELSE IF HasEntry(h, log_file) THEN "recorded"
    ELSE IF HasEntry(h, writes) THEN "queued"
    ELSE "open"

CallerOf(h) == IF IsRecorded(h) THEN "told"
               ELSE IF pc[h] = "dropped" THEN "gone" ELSE "waiting"

Issuance == INSTANCE IssuanceLedger
    WITH Caller <- Handler,
         record <- [h \in Handler |-> RecordOf(h)],
         caller <- [h \in Handler |-> CallerOf(h)],
         crashes <- epoch

\* "no record is ever modified or deleted" (log.rs:4), nobody is told before the
\* entry is under way or lost, and only the end of the process leaves an entry
\* without an answer: through handlers that take turns at the mutex, a disk that
\* fails, dropped tasks and restarts, the log behaves as IssuanceLedger says.
LogLifecycle == Issuance!IssuanceSpec

(* What the repository says and the code does not do *)

\* issuer.rs:30 calls SERIAL_COUNTER a "Monotonically increasing serial counter
\* for issued certs": certificates still valid have different serials.
SerialNeverReused ==
    \A g, h \in Handler :
        /\ g # h /\ cert[g] # NoCert /\ cert[h] # NoCert
        /\ cert[g].not_after > clock /\ cert[h].not_after > clock
        => cert[g].serial # cert[h].serial

=============================================================================
