# SecureNet: specifications, model checking and proofs

SecureNet is a small mesh of Rust services. A *vault* attests hosts and issues
five-minute TLS certificates; three *application services* (user-service,
order-service, api-gateway) unseal with the vault at start, serve mTLS (the
gateway: TLS and JWT) and rotate their certificate before it expires. This
directory holds TLA+ modules for that machinery, the TLC configurations that
check them, and TLAPS proofs of their main properties.

## Inventory

| component (source) | state it keeps | operations | hard behaviour |
|---|---|---|---|
| nonce store, verifier (`vault-service/src/attestation_verifier.rs`) | map nonce -> time of registration, under a mutex | `register`, `consume`, `verify` | concurrent use of one nonce, edge of the 30 s window, restart |
| issuer (`issuer.rs`) | static `SERIAL_COUNTER`, CA key | `issue` | parallel issuing, counter lost on restart, two clock readings |
| issuance log (`log.rs`) | file, mutex | `record_grant`, `record_rejection`, `append` | early returns under the lock, dropped tasks, writes that land later |
| vault handlers (`routes.rs`, `state.rs`, `main.rs`) | revoked serials, issued count | `nonce`, `unseal`, `renew`, `revoke`, `crl`, `health` | interleaving of handlers, clients that disconnect, restart |
| rotation task (`shared/src/rotation.rs`, `models.rs`) | ttl, attempt, delay | `rotation_loop`, `retry_renew` | retries against expiry, outages longer than a TTL |
| rotating TLS config (`rotation.rs`) | `inner`, `serial`, each in a lock | `current`, `current_serial`, the swap | swap against accept, two-step swap |
| identity and boot (`identity.rs`, `boot.rs`) | Locked / Unsealing / Serving, bundle | `unseal`, `run`, `run_gateway`, `mtls_client` | failures at each step, calls that never return |
| vault client (`vault_client.rs`) | last bundle | `fetch_nonce`, `renew` | lost answers, retries |
| accept loops (`*/src/main.rs`) | listener, connection tasks, copy of the serial, outbound client | `serve_mtls`, `health` | stalled handshakes, stale copies, failing `accept` |
| gateway tokens and proxy (`api-gateway/src`) | JWT keys, users, pools of the outbound client | `auth_token`, `jwt_middleware`, `proxy_get` | keys lost on restart, leeway, error mapping, pooled connections to a restarted server |
| order / user handlers | constant tables, pools of the outbound client | `get_order`, `get_user`, `list_orders`, `list_users` | fan-out to user-service, crash of either service on the way |
| chaos layer (`chaos.rs`) | config | tower `Layer` / `Service` | readiness, delay and drop; installed nowhere |
| TLS builders, attestation stubs, errors, telemetry | none | pure functions, I/O | - |

Services talk to the vault over plain HTTP (`GET /vault/nonce`, then
`POST /vault/unseal` or `/renew` with a quote over the nonce) and to each other
over mTLS. Inside a service, `main()`, the rotation task and one task per
connection share `RotatingTlsConfig`. Inside the vault every request is a task;
they share the nonce map, the serial counter, the log mutex and the log file.

What makes the parts correct: a nonce authorises one request, while fresh, in
the process that handed it out; a serial names one certificate; a grant is on
record; no handler waits for ever; the served certificate is valid and, after
an outage, valid again soon; a connection gets the certificate that is current
when it arrives; nothing listens before the service is unsealed; a protected route
runs only for a token the gateway signed; an answer is complete, and an error is
the request's own.

## Modules

| module | models |
|---|---|
| `NonceLedger` | abstract: a nonce is unborn, live, spent, burnt or void, and never goes back |
| `IssuanceLedger` | abstract: an entry of the log is open, queued, recorded or lost, its caller waits, is told or is gone; nobody is told while the entry is open |
| `CertRegister` | abstract: a listener is one register of ever newer certificates, read in one step by each connection |
| `TokenAuthority` | abstract: a token is good until it is void; a request passes exactly when its token is good |
| `TowerContract` | abstract: an instance of a tower service is reserved, called once and released |
| `Vault` | nonce store, verifier, issuer, log, revocation list, handlers, restart |
| `Rotation` | the rotation loop in seconds, with the code's constants |
| `ServiceProcess` | boot, identity, rotation task, listener and connections of one service, untimed |
| `Gateway` | the gateway's keys and tokens, login, the JWT middleware, restart |
| `Mesh` | gateway, order-service and user-service together: proxying, fan-out, connection pools, crashes, expiry, revocation |
| `Chaos` | the tower layer of `chaos.rs` |
| `MCVault`, `MCRotation`, `MCServiceProcess`, `MCGateway`, `MCMesh`, `MCChaos` | instances for TLC |
| `VaultProofs`, `IssuanceProofs`, `RotationProofs`, `ServiceProofs`, `GatewayProofs`, `MeshProofs`, `ChaosProofs` | theorems |

The modules hand over to each other at interfaces: `Vault` is what a renewal
call in `Rotation` and `ServiceProcess` may return; `Rotation` says when a
certificate is valid, which `ServiceProcess` (untimed) and `Mesh` take as given
for inbound connections; `ServiceProcess` says that a service that accepts
connections has been unsealed, which is `up` in `Mesh`; `Gateway` ends where a
request goes upstream, and `Mesh` starts there.

Definitions preceded by a comment *Mutant* are wrong variants of the definition
after them; each is a plausible slip in the code that a property must notice.
They occur in no specification.

Five abstract modules are refined by a detailed one, with the mapping beside the property
that states it:

| abstract | implemented by | mapping | property |
|---|---|---|---|
| `NonceLedger` | `Vault` | `LedgerOf`: not handed out, accepted, refused when presented, in the store, or none of these | `NonceLifecycle` |
| `IssuanceLedger` | `Vault` | `RecordOf`: in `lost`, in the file, in `writes`, or neither; `CallerOf`: by the answer and `pc`; `epoch` counts the crashes | `LogLifecycle` |
| `CertRegister` | `ServiceProcess` | `inner` while the process accepts, 0 otherwise; `StageOf` joins queued with accepted and handshake with open | `ListenerIsRegister` |
| `TokenAuthority` | `Gateway` | `StandingOf`: by the token's age, the key files or the boot; `OutcomeOf`: by `pc` and status | `TokenLifecycle` |
| `TowerContract` | `Chaos` | `InstanceOf`: by stage, if the place held agrees with it | `ContractKept` |

### Vault

A `Handler` is one request with its task. Its `pc` moves through the pieces of
the handler between two accesses to shared state: `received` (before
`verify()`), `verified`, `signing` (inside `issue()`), `logging` (waiting for
the log mutex), `appending` (holding it), `answering` (the line is with the
blocking pool, or could not be), `done`, or `dropped`.

* `GetNonce` is `fresh_nonce`. The 32 random bytes are assumed never to repeat.
* `RejectEarly`, `RejectAfterConsume`, `Accept` are the three ways through
  `verify()`. `consume` removes the nonce whether or not it was fresh, and
  before the quote is looked at. Hex text has two spellings that decode alike.
* `BeginIssue` / `FinishIssue` split `issue()` between its two clock readings;
  `IssueFails` is its error path (500, nothing logged).
* `Reject` sends unseal to the log and lets renew answer at once, as the code
  does.
* `AppendEntry`: `tokio::fs::File::write_all` copies the line to a task of the
  blocking pool and returns; the file is dropped without a flush. The line is
  therefore in `writes` until `WriteLands`, or `WriteLost` when the disk
  refuses it (no one reads that error), or the process dies. `AppendFails` is
  the mkdir/open error: logged, and the caller is answered as usual.
* `Respond` is the handler's return, a step of its own: the pool thread may have
  the line in the file before it, and the process may die in between, which
  leaves a recorded grant that nobody was given. No client that goes away can,
  as nothing is awaited after the hand-over.
* `Cancel`: hyper drops a handler's future when its connection closes, at an
  await point; the guard it holds is dropped with it.
* `Restart`: everything in memory is gone; the file stays.

`born`, `verified`, `lost` and `burnt` are history variables for the properties;
`burnt` holds the nonces that were in the store when they were presented and
refused, which `NonceLedger` never lets be spent afterwards. `CertsAreEarned` goes
back from a certificate to the request it was signed for, `AnswerAccounted` from
an answer to the log and `LogIsTruthful` from the log to the answer: an entry is
never contradicted, and only the end of the process leaves one unanswered.
`IssuanceLedger` joins the last two over time: nobody is told while the entry is
open, only a crash takes away a caller whose entry is under way, and what is
recorded or lost stays so.

### Rotation

`timer` is what is left of the current wait, `life` what is left of the served
certificate, `fresh` of a bundle the vault has signed for the call in progress.
As only distances are kept, nothing grows and the constants are the code's:
TTL 300 s, sleep 90 %, three attempts, pauses 2 s and 4 s, back-off 30 s (27 s
of sleep). `(ttl as f64 * 0.9) as u64` equals `(9 * ttl) \div 10` because the
double nearest 0.9 is above 9/10. `Drift` is the difference between
`expires_at` as read here and the certificate's real expiry: at most a second
either way for the two readings of the vault's clock and the dropped fraction,
or less than the whole TTL on a host whose clock is that far ahead, where
`ttl_secs()` is 0 and so is the sleep. A call takes at
most `MaxLatency` seconds: an assumption, since the client sets no timeout. A
due step happens before the next second passes. `last_round` records how the
last round of calls ended; attempts, rounds and bundles may fail without bound.

### ServiceProcess

`main` follows `main()` through `unseal`, `run`, the application state and
`serve_mtls`; `rotation` follows the rotation task; `conn` each connection.
Bundles are numbered as the vault signs them. An error that `?` carries out of
`main()` is `Exit`: memory and connections are gone, and the supervisor may
`Restart` the process. The swap is two steps (`SwapConfig`, `SwapSerial`), as
the code takes two locks. `ListenerIsRegister` says that this split, and the one
between `accept()` and the read of the configuration, cannot be seen from outside:
a connection gets the certificate current when its handshake starts, and a
process put up after another serves none that is older than what its predecessor
served.

### Gateway

A deployment sets the two path variables once (`priv_path`, `pub_path`: not set,
a key file, or something unreadable); `Boot` and `Crash` alternate. A key is
named by its origin, a file or the boot that generated it, and a token is valid
for the public half of the key it was signed with. Both keys come from files or
both are generated: `FromFiles` is the match in `load_or_generate`. There is no
clock but the age of each token, capped one second past the last age that
validation accepts (`exp` plus the leeway of `Validation::new`). `Login` is
`auth_token` with good credentials; `Receive`, `Refuse`, `Forward` and
`UpstreamEnds` follow a request through `jwt_middleware`, the proxy handler and
back; `Cancel` drops it at its one await. `user_id` is the request's `x-user-id`
header, which the client may have set. `checked` and the token's `boot` are
history variables. `RefusalIsFinal` relates two requests with one token: the clock
runs forward, and a key a process generated is not there in the next. `TokenLifecycle` adds what a
deployment owes its clients: `StandingOf` says without keys what a token is worth, and
the middleware's test agrees with it in both directions.

### Mesh

A request is one call (`hop` 1) or two (`hop` 2 is `get_order`'s call). Its `pc`
is `calling` (the client of the hop looks for a connection), `serving` (its
handler runs), `reading` (the status is known, the body is on its way), then
`done` or `dropped`. `Receive` is the proxy handler up to its call. It formats the
decoded path parameter into a URL as it is, and parsing the URL may make another
route of the same service of it: `RoutesOf` says which routes each kind of
parameter may lead to, and `route` keeps the one the URL names. Text without characters that mean
something to a URL keeps its route; `rewritten` stands for the rest (`..`, `?`,
`#`, `%`) and may lead to any. `open` is a route that needs no entry, the list or
`/health`, and `unknown` includes a path without a route. Everything after
`Receive` depends on `route`. A parameter that does not decode is answered by the
gateway's extractor (`RefusePath`). reqwest keeps a pool per destination: `Reuse` takes an idle
connection, `ReuseStale` one the server has closed unnoticed, and only with
neither is a new one made. A new connection presents the certificate of the
outbound client, which is that of the boot bundle for good (`mtls_client`);
`Expire` ends its life. rustls resumes sessions by default, without looking at
the client's certificate again; a session is lost when the server's
`ServerConfig` is replaced or either process dies. When an expired client has a
session, the connection may be resumed or, if its tickets are used up, refused.

A crash breaks the calls to the service: the gateway answers 502, `get_order`
answers 502 without a body. `HasJson` says which answers `proxy_get` can parse:
the handlers' errors are bare status codes or axum's text, so only successes. An
error status is thus always answered as 502 `PARSE_ERROR`, and lines 257-262 of
the gateway's `main.rs`, which pass a status on, have no effect with these
services.

`handled` and `broken` are history variables. `StepsLeft` bounds what a request
still has to do; `RequestsMoveForward` says that it falls whenever anything of
the request changes, be it by its own step, a crash or a client that leaves.

### Chaos

A request has an instance of the wrapped service of its own (axum clones the
stack per request). `place` is the set of requests whose instance holds a place
in the inner service, as a concurrency-limited one hands out in `poll_ready`.
Call, drop, delay and cancellation say what becomes of the instance; numbers are
abstracted to what `clamp` and a comparison with a draw from [0, 1) tell apart.

## Runs

| run | instance | shows |
|---|---|---|
| `vault_safety` | 2 handlers, 2 nonces, all request bodies, window 2 s, 3 clock values, 1 restart (1.3 M states) | `NonceSingleUse`, `NonceFresh`, `NonceFromThisInstance`, `SerialNamesOneCert`, `LogLockOwner`, `AnswerAccounted`, `CertsAreEarned`, `LogIsTruthful`, refinements `NonceLifecycle` and `LogLifecycle`, types |
| `vault_liveness` | 2 handlers, 2 nonces, revocation, 1 restart | `RequestsEnd`, `SignedIsReturned` |
| `rotation` | real constants, calls up to 7 s, everything may fail, host clock right or far ahead | `ActiveCertValid` (with 8 s it fails), `RecoversInTime`, types |
| `service` | 2 connections, 4 bundles, any number of restarts | `AcceptsOnlyWhenServing`, `NewConnectionsSeeSwap`, `SerialFollowsConfig`, `CertNeverGoesBack`, `QueuedIsTakenUp`, refinement `ListenerIsRegister`, types |
| `gateway` | 2 users, 2 tokens, 2 requests, 2 key files, 2 boots, lifetime and leeway of 1 s (1.9 M states) | `OnlyOwnTokensPass`, `OwnTokensPass`, `RefusalIsFinal`, refinement `TokenLifecycle`, types |
| `mesh` | 2 requests, any number of crashes, restarts and rotations, one revocable client (0.3 M states) | `AnswersAreHonest`, `FailuresAreOwn`, `RequestsMoveForward`, `RequestsEnd`, types |
| `chaos` | 3 requests, 2 places, every pair of variable texts | `InnerLimitKept`, `FaultsAsConfigured`, `RequestsEnd`, refinement `ContractKept`, types |

Runs that are expected to fail show where the code departs from what its
comments say (quotes are in `PROJECT.json`, `findings`):

| run | comment | what happens |
|---|---|---|
| `vault_serial_reuse` | serial counter is monotonic | restarts at 1 with the process; two valid certificates share a serial |
| `service_health` | serial of the active certificate | stays that of the boot certificate |
| `gateway_identity` | identity headers reach downstream services | `proxy_get` sends a request of its own without them |
| `mesh_outbound` | rotation without downtime | the outbound client keeps the boot certificate; once that has expired, new connections between services are refused until a restart |
| `mesh_revoked` | services poll the list and reject listed peers | no service reads it, a revoked client connects |

Departures met while modelling that have no run:

* a rejected renewal is not logged, though log.rs:3 says every rejection is
  (`AnswerAccounted` is stated for what the code does record);
* with a host clock ahead by more than a TTL the loop sleeps 0 s, where
  rotation.rs:94 says 90 % of the TTL, and renews without a pause (the certificate
  stays valid: `ActiveCertValid` is checked and proved with such a clock);
* the gateway's `/users/:id` and `/orders/:id` answer for another route of the
  service when parsing the URL rewrites the parameter, where the table at
  main.rs:9 names one route each (`AnswersAreHonest` speaks of the route reached);
* after three failed attempts less than 27 s of the certificate may be left and
  the loop sleeps 27 s, against models.rs:67 (`ActiveCertValid` has the exception);
* unsealing has no timeout, against the state diagram at identity.rs:14;
* `issued` (state.rs:26) is never incremented, so `/vault/health` reports 0;
* `expires_at` (models.rs:51) is computed from a later clock reading than
  `not_after`, which `Rotation` takes as `Drift`;
* the nonce window is 30 s, not the "± 5 seconds" of attestation_verifier.rs:10;
* `Serving` ("mTLS listeners are bound", identity.rs:42) is set before the
  listener exists;
* tokens are accepted for a leeway of 60 s beyond `expires_in`;
* with only one of the two key variables set the gateway silently generates
  keys, and two files that do not belong together are noticed only when every
  token is refused;
* errors.rs:19 groups `Vault*` errors under 503, `VaultRejected` answers 403;
* no binary installs the chaos layer or `trace_middleware`.

**Bounds.** Two handlers suffice for a race on one nonce, one counter or the log
mutex. A window of 2 s with clock values 0..2 contains an age below, at and
beyond the edge. One restart separates an old process from a new one; likewise
two boots of the gateway. Four bundles give three swaps after boot, so a
connection can be two certificates behind. With a lifetime and a leeway of 1 s
a token's age is inside the lifetime, at its edge, inside the leeway and past
it. Two requests let one use, or find closed, the connection of the other; as
pools hold no more connections than there were requests, and crashes change only
sets, `Mesh` needs no bound on crashes. Only order-service is revocable in `mesh`,
where no property depends on it; both clients are in `mesh_revoked`. Requests
for entries, lists and rewritten parameters meet in every combination. The
request bodies leave out the empty nonce, which takes the path of the garbled
one. Three
requests for two places make one wait. Where the finite set of requests is used
up the system stops, and deadlock is not checked (`vault`, `gateway`, `chaos`); it
is checked in `rotation`, `service` and `mesh`. The symmetry sets (handlers,
nonces, users, tokens, requests, key files) permute values no definition tells
apart, and symmetry is off where liveness is checked.

**Fairness.** Vault: weak fairness of each handler's own steps (tokio polls
every ready task) and strong fairness of taking the log mutex (tokio's mutex is
FIFO, so a waiter gets its turn although the lock is taken and freed in
between). Service: weak fairness of the steps of `main()` and of the rotation
task that wait for nobody outside the process; nothing is assumed of the vault,
of peers or of the supervisor. Mesh: weak fairness of the next step of each
request. This assumes that a peer answers or its connection breaks, as it does
when a process dies; a host that vanishes without closing its connections would
leave the call waiting, for the clients set no timeout. Chaos: weak fairness of
the futures and timers, strong fairness of getting a place (the queue of a
semaphore is fair).

## Proofs

All theorems hold for arbitrary constants that satisfy the named assumptions
of the modules; TLC evaluates those on every run.

* `VaultTypeCorrect`: types. `TypeOK` is not inductive: that a `signing` handler
  has a certificate record, and a handler that logs a grant too, has to be
  known. `Progress` says what a handler holds at each `pc`.
* `NoncesAreSafe`: `NonceSingleUse`, `NonceFresh`, `NonceFromThisInstance`. The
  invariant `NonceInv` adds that the store holds only nonces of the current
  process with their hand-out times, and that an accepted nonce is no longer in
  the store. As `GetNonce` never hands out a nonce twice it cannot come back.
* `SerialsAreUnique`: serials of this process are below the counter.
* `LogIsSound`: `LogLockOwner` and `AnswerAccounted`, using that an answered
  handler changes no more.
* `VaultImplementsLedger`: step simulation of `NonceLedger` under `LedgerOf`.
* `CertificatesAreEarned`: `EarnedInv` keeps with an accepted handler what it was
  checked for and, while it waits to issue, that no restart has come between.
  `CertificatesAreCounted` follows: the map from certificates to nonces is
  injective by `NonceInv`, so there are never more certificates than nonces
  handed out (a finite set of nonces is assumed; they are 32 bytes).
* `TheLogIsTruthful`: `LogIsTruthful` is not inductive, as it does not exclude
  that the handler of an entry moves again. `EntryStands` says of an entry where
  its handler is (about to answer, done, or dropped by a restart) and `RecordInv`
  that the entry is not lost and is in one place only, and what a handler on its
  way to the log holds.
* `VaultImplementsIssuance`: step simulation of `IssuanceLedger` under `RecordOf`
  and `CallerOf`, from the same invariants. A restart is one `Crash`, which loses
  the entries under way or not yet handed over and takes the waiting callers.
* `RotationTypeCorrect`: types, for any drift.
* `ActiveCertNeverExpires`: under `Margin` (ten times the cost of a whole round
  below `TTL - latency - 9 * drift`), the certificate outlives the current wait
  and the rest of the round unless the last round failed. With the code's
  constants `Margin` means latency of at most 7 s, the limit TLC found.
* `OutageIsBounded`: with any number of failures, either the certificate lasts
  beyond the next call or the last failure is recent (`CallMargin`).
* `TimingOfTheCode`: a TTL of 300 s, a clock at most a second behind (ahead by any
  amount) and calls of at most 7 s imply both margins, so both theorems apply to
  the code.
* `ServiceIsSafe`, `CertOnlyMovesForward`: `ServiceInv` says what each stage of
  `main()` has behind it and that a bundle on its way in is newer than the one
  served.
* `ServiceImplementsRegister`: step simulation of `CertRegister`. What is served to
  one connection has to be compared with what is put up for the others later,
  in another process perhaps: `RegisterInv` bounds every connection's certificate
  by the one each stage of `main()` is about to put up.
* `TokensMeanWhatTheySay`: the invariant adds that the keys of a running gateway
  are those of its deployment or its boot, that every token carries the signing
  key of the boot it names, and what the middleware has seen of a request that
  is past it.
* `RefusalsAreFinal`: two validations of a token are ordered because its age and
  the number of boots only grow (`TimeInv`); one that failed did so for its age,
  for a key that died with its process, or for files that do not match, and none
  of these is ever undone.
* `GatewayImplementsAuthority`: step simulation of `TokenAuthority` from the same two
  invariants. `ValidIsGood` turns the comparison of keys into one of boots or
  files; `StandingOnlyFalls` needs that no token names a boot still to come.
* `AnswersAreSound`: `AnswersAreHonest` and `FailuresAreOwn`. Both are about
  finished requests; `Sound` says of a request under way where its second call
  can be and what the status just read stands for. `FailKeepsSound` is used by
  every step that breaks calls.
* `EveryStepIsForward`: `RequestsMoveForward` from the same invariant, which ties
  `hop` to `pc`. Together with weak fairness of a request's next step this is why
  `RequestsEnd` holds; that last conclusion is TLC's.
* `ChaosIsSafe`: a request holds a place exactly from `ready` to `inner`
  (`PlaceInv`), so the limit on places is one on requests.
* `ChaosImplementsTower`: step simulation of `TowerContract` under `InstanceOf`. It
  needs both directions of `PlaceInv`: one for the call, which must have its
  place, the other for the end, which must give it back.

The refinement theorems say nothing of fairness: the abstract modules promise no
liveness.

Only model-checked: the liveness properties (they rest on fairness, which is out
of the prover's reach: `RequestsEnd`, `SignedIsReturned`, `QueuedIsTakenUp`) and
deadlock freedom. The findings are counterexamples of TLC and need no proof.

## Not modelled

* Contents of X.509 certificates, PEM and TLS below the handshake's outcome:
  libraries.
* Telemetry and `trace_middleware`: they set up and read tracing context, with no
  effect on the modelled state.
* The Secure Boot check and machine-id (`attestation.rs`): file reads at boot,
  whose result is logged or is the `machine` of a request.
* Build and bootstrap scripts; `generate_ca`, `renew_at`, `is_revoked` and
  `ServiceIdentity::bundle`, which no binary calls.
* The contents of the user and order tables, and of tokens beyond subject, key
  and age (`roles` travels with the subject, `iss` is constant).
* Clock steps and skew between hosts enter only as `Drift`; the gateway's clock
  is assumed to run forward.
* That a vault restart forgets revocations is modelled, but no property is about
  it: nothing says the list outlives the process, and no service reads it.
* Cancellation in `Mesh` reaches the services behind the gateway at once.

## Left for later

A timed composition of `Rotation` with `Mesh`, in which the expiry of the
outbound certificate is counted in seconds; a vault that answers the `Mesh`'s
services through the handlers of `Vault`; a gateway clock that is set back. To be
proved: that the abstract modules keep their own invariants (a spent nonce, a
recorded entry, a void token stay so), and an abstract specification of one
proxied request that `Mesh` implements.
