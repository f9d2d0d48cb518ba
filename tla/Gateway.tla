------------------------------ MODULE Gateway ------------------------------
(***************************************************************************)
(* The API gateway's tokens (api-gateway/src/jwt.rs, middleware.rs, the    *)
(* /auth/token handler of main.rs): which keys a process signs and         *)
(* validates with, what becomes of issued tokens as time passes and the    *)
(* process restarts, and the path of a request through jwt_middleware to   *)
(* the call the proxy handler makes.                                       *)
(*                                                                         *)
(* There is no absolute clock: a token has an age, counted in seconds and  *)
(* capped where validation no longer tells ages apart.  Roles travel with  *)
(* the subject and are left out.  What upstream services answer, and what  *)
(* proxy_get makes of it, is in module Mesh.                               *)
(***************************************************************************)
EXTENDS Integers

CONSTANTS
    User,               \* accounts of UserStore::seeded
    Token,              \* slots for tokens handed to clients
    Request,            \* requests to protected routes
    FileKey,            \* key pairs that may be on disk
    NoPath,             \* the environment variable is not set
    Unreadable,         \* it names a file that is missing or no PEM
    NoUser,             \* no x-user-id header
    NoToken,            \* slot not used yet
    NoKey,              \* the process is down
    Absent,             \* no Authorization header, or not text
    Malformed,          \* an Authorization header without "Bearer "
    Forged,             \* a bearer token no gateway process has signed
    TOKEN_EXPIRY_SECS,  \* 3600 in the code
    Leeway,             \* jsonwebtoken's Validation::new(): 60 s
    MaxBoots            \* bound: boots of the process

\* Key pairs: from files, or generated at a boot.
Key == ({"file"} \X FileKey) \cup ({"ephemeral"} \X Nat)

Path == FileKey \cup {NoPath, Unreadable}

Credential == Token \cup {Absent, Malformed, Forged}

Claims == [sub : User, key : Key, age : Nat, boot : Nat]

ASSUME GatewayAssumption ==
    /\ TOKEN_EXPIRY_SECS \in Nat /\ Leeway \in Nat /\ MaxBoots \in Nat
    /\ NoToken \notin Claims /\ NoKey \notin Key /\ NoUser \notin User
    /\ {Absent, Malformed, Forged} \cap Token = {}
    /\ {NoPath, Unreadable} \cap FileKey = {} /\ NoPath # Unreadable

VARIABLES
    priv_path,  \* RSA_PRIVATE_KEY_PATH of this deployment
    pub_path,   \* RSA_PUBLIC_KEY_PATH
    boot,       \* boots so far
    encoding,   \* JwtKeys.encoding, NoKey while the process is down
    decoding,   \* JwtKeys.decoding
    token,      \* tokens issued; .boot is history
    pc,         \* where each request is
    auth,       \* its Authorization header
    user_id,    \* its x-user-id header, first the client's
    upstream,   \* the x-user-id header of the call to the upstream service
    status,     \* its HTTP answer; 0 until then
    checked     \* history: the token's age and the boot, when validated

env_vars     == <<priv_path, pub_path>>
process_vars == <<boot, encoding, decoding>>
request_vars == <<pc, auth, user_id, upstream, status, checked>>
vars == <<env_vars, process_vars, token, request_vars>>

\* The first age at which no token is accepted any more.
AgeCap == TOKEN_EXPIRY_SECS + Leeway + 1

TypeOK ==
    /\ priv_path \in Path /\ pub_path \in Path
    /\ boot \in Nat
    /\ encoding \in Key \cup {NoKey} /\ decoding \in Key \cup {NoKey}
    /\ token \in [Token -> Claims \cup {NoToken}]
    /\ pc \in [Request -> {"idle", "received", "sent", "done", "dropped"}]
    /\ auth \in [Request -> Credential]
    /\ user_id \in [Request -> User \cup {NoUser}]
    /\ upstream \in [Request -> User \cup {NoUser}]
    /\ status \in [Request -> Nat]
    /\ checked \in [Request -> [age : Nat, boot : Nat]]

Init ==
    /\ priv_path \in Path /\ pub_path \in Path
    /\ boot = 0
    /\ encoding = NoKey /\ decoding = NoKey
    /\ token = [t \in Token |-> NoToken]
    /\ pc = [r \in Request |-> "idle"]
    /\ auth = [r \in Request |-> Absent]
    /\ user_id = [r \in Request |-> NoUser]
    /\ upstream = [r \in Request |-> NoUser]
    /\ status = [r \in Request |-> 0]
    /\ checked = [r \in Request |-> [age |-> 0, boot |-> 0]]

-----------------------------------------------------------------------------
(* Keys *)

\* The keys come from files only when both variables are set.
FromFiles == priv_path # NoPath /\ pub_path # NoPath

\* Mutant: only the private key is parsed at boot.
KeysLoadPrivateOnly == FromFiles => priv_path # Unreadable

\* JwtKeys::load_or_generate succeeds.
KeysLoad == FromFiles => Unreadable \notin {priv_path, pub_path}

\* Mutant: the generator of ephemeral keys has a fixed seed.
KeyAtBootSeeded(path, b) == IF FromFiles THEN <<"file", path>> ELSE <<"ephemeral", 0>>

KeyAtBoot(path, b) == IF FromFiles THEN <<"file", path>> ELSE <<"ephemeral", b>>

EncodingAtBoot(b) == KeyAtBoot(priv_path, b)

\* Mutant: one variable is enough to read that key from its file.
DecodingAtBootReadsEither(b) ==
    IF pub_path # NoPath THEN <<"file", pub_path>> ELSE <<"ephemeral", b>>

DecodingAtBoot(b) == KeyAtBoot(pub_path, b)

Up == encoding # NoKey

\* main() reaches its listener.  (With unreadable key files it exits instead.)
Boot ==
    /\ ~Up /\ boot < MaxBoots
    /\ KeysLoad
    /\ boot' = boot + 1
    /\ encoding' = EncodingAtBoot(boot + 1)
    /\ decoding' = DecodingAtBoot(boot + 1)
    /\ UNCHANGED <<env_vars, token, request_vars>>

\* The process dies; requests under way go with it, and so do generated keys.
Crash ==
    /\ Up
    /\ encoding' = NoKey /\ decoding' = NoKey
    /\ pc' = [r \in Request |-> IF pc[r] \in {"received", "sent"} THEN "dropped"
                                                                  ELSE pc[r]]
    /\ UNCHANGED <<env_vars, boot, token, auth, user_id, upstream, status, checked>>

-----------------------------------------------------------------------------
(* Tokens *)

\* POST /auth/token with the right password: sign().  With a wrong one the
\* answer is AuthBadCredentials and nothing changes.
Login(t, u) ==
    /\ Up /\ token[t] = NoToken
    /\ token' = [token EXCEPT ![t] = [sub |-> u, key |-> encoding, age |-> 0,
                                      boot |-> boot]]
    /\ UNCHANGED <<env_vars, process_vars, request_vars>>

\* A second passes.
Tick ==
    /\ \E t \in Token : token[t] # NoToken /\ token[t].age < AgeCap
    /\ token' = [t \in Token |->
                    IF token[t] # NoToken /\ token[t].age < AgeCap
                    THEN [token[t] EXCEPT !.age = @ + 1] ELSE token[t]]
    /\ UNCHANGED <<env_vars, process_vars, request_vars>>

\* Mutant: expiry is not validated.
ValidWithoutExpiry(a) == a \in Token /\ token[a] # NoToken /\ token[a].key = decoding

\* Mutant: a token is not valid yet in the second it was issued in.
ValidNotAtOnce(a) ==
    /\ a \in Token /\ token[a] # NoToken
    /\ token[a].key = decoding
    /\ token[a].age > 0 /\ token[a].age <= TOKEN_EXPIRY_SECS + Leeway

\* validate(): signed with the private half of decoding, and not past exp by
\* more than the leeway.
Valid(a) ==
    /\ a \in Token /\ token[a] # NoToken
    /\ token[a].key = decoding
    /\ token[a].age <= TOKEN_EXPIRY_SECS + Leeway

-----------------------------------------------------------------------------
(* Protected routes *)

\* AppError::status_code
StatusOf(error) ==
    CASE error \in {"AuthMissingToken", "AuthInvalidToken", "AuthBadCredentials"} -> 401
      [] error = "VaultRejected" -> 403
      [] error = "NotFound" -> 404
      [] error \in {"ServiceSealed", "VaultUnreachable"} -> 503
      [] OTHER -> 500

\* A client sends a request, perhaps with an x-user-id header of its own.
Receive(r, a, u) ==
    /\ Up /\ pc[r] = "idle"
    /\ a \in Token => token[a] # NoToken
    /\ pc' = [pc EXCEPT ![r] = "received"]
    /\ auth' = [auth EXCEPT ![r] = a]
    /\ user_id' = [user_id EXCEPT ![r] = u]
    /\ UNCHANGED <<env_vars, process_vars, token, upstream, status, checked>>

AgeOf(a) == IF a \in Token THEN token[a].age ELSE 0

Answer(r, s) ==
    /\ pc' = [pc EXCEPT ![r] = "done"]
    /\ status' = [status EXCEPT ![r] = s]

\* jwt_middleware finds no bearer token, or one validate() refuses.
Refuse(r) ==
    /\ pc[r] = "received"
    /\ ~Valid(auth[r])
    /\ Answer(r, StatusOf(IF auth[r] \in {Absent, Malformed} THEN "AuthMissingToken"
                                                            ELSE "AuthInvalidToken"))
    /\ checked' = [checked EXCEPT ![r] = [age |-> AgeOf(auth[r]), boot |-> boot]]
    /\ UNCHANGED <<env_vars, process_vars, token, auth, user_id, upstream>>

\* The headers of the request proxy_get builds: none of the inbound ones.
ForwardedUserId == NoUser

\* jwt_middleware accepts the token and overwrites the identity headers; the
\* proxy handler sends its own request upstream.  Nothing is awaited between.
Forward(r) ==
    /\ pc[r] = "received"
    /\ Valid(auth[r])
    /\ user_id' = [user_id EXCEPT ![r] = token[auth[r]].sub]
    /\ upstream' = [upstream EXCEPT ![r] = ForwardedUserId]
    /\ checked' = [checked EXCEPT ![r] = [age |-> AgeOf(auth[r]), boot |-> boot]]
    /\ pc' = [pc EXCEPT ![r] = "sent"]
    /\ UNCHANGED <<env_vars, process_vars, token, auth, status>>

\* What proxy_get makes of an upstream answer or of none.  The services answer
\* errors without a JSON body, and these become a 502 (module Mesh).
UpstreamStatus == {200, 502}

\* proxy_get returns.
UpstreamEnds(r, s) ==
    /\ pc[r] = "sent"
    /\ Answer(r, s)
    /\ UNCHANGED <<env_vars, process_vars, token, auth, user_id, upstream, checked>>

\* The client goes away while the handler waits for the upstream service.
Cancel(r) ==
    /\ pc[r] = "sent"
    /\ pc' = [pc EXCEPT ![r] = "dropped"]
    /\ UNCHANGED <<env_vars, process_vars, token, auth, user_id, upstream, status,
                   checked>>

Next ==
    \/ Boot \/ Crash \/ Tick
    \/ \E t \in Token, u \in User : Login(t, u)
    \/ \E r \in Request :
        \/ \E a \in Credential, u \in User \cup {NoUser} : Receive(r, a, u)
        \/ Refuse(r) \/ Forward(r) \/ Cancel(r)
        \/ \E s \in UpstreamStatus : UpstreamEnds(r, s)

Spec == Init /\ [][Next]_vars

-----------------------------------------------------------------------------
\* A request has been through the middleware.
Forwarded(r) ==
    \/ pc[r] = "sent"
    \/ pc[r] = "done" /\ status[r] # 401

\* Whatever headers a client sends and however often the gateway restarts, a
\* protected handler runs only for a token the gateway signed, as the user who
\* logged in for it, at most an hour and the leeway after the login - and when
\* keys are generated at boot, only in the process that signed it.
OnlyOwnTokensPass ==
    \A r \in Request : Forwarded(r) =>
        /\ auth[r] \in Token /\ token[auth[r]] # NoToken
        /\ user_id[r] = token[auth[r]].sub
        /\ checked[r].age <= TOKEN_EXPIRY_SECS + Leeway
        /\ ~FromFiles => checked[r].boot = token[auth[r]].boot

\* A token is honoured for the hour its expires_in promises.  It is refused
\* earlier only after a restart that lost generated keys, or when the two key
\* files do not belong together.
OwnTokensPass ==
    \A r \in Request :
        pc[r] = "done" /\ status[r] = 401 /\ auth[r] \in Token =>
            \/ checked[r].age > TOKEN_EXPIRY_SECS
            \/ ~FromFiles /\ checked[r].boot # token[auth[r]].boot
            \/ FromFiles /\ priv_path # pub_path

\* A refusal is final: once a token has been refused, no request with it gets
\* past the middleware, at any later age of the token or boot of the gateway.
\* Whatever was let through with it was validated strictly before.
RefusalIsFinal ==
    \A q, r \in Request :
        /\ auth[q] = auth[r] /\ auth[q] \in Token
        /\ pc[q] = "done" /\ status[q] = 401 /\ Forwarded(r)
        => /\ checked[r].boot <= checked[q].boot
           /\ checked[r].age <= checked[q].age
           /\ checked[r] # checked[q]

(* Refinement *)

\* A token is worth something for its hour and the leeway: with keys from files
\* in every process, with generated ones until the process that signed it ends.
StandingOf(t) ==
    IF token[t] = NoToken THEN "unissued"
    ELSE IF /\ token[t].age <= TOKEN_EXPIRY_SECS + Leeway
            /\ IF FromFiles THEN priv_path = pub_path ELSE Up /\ token[t].boot = boot
         THEN "good"
    ELSE "void"

OutcomeOf(r) ==
    IF pc[r] = "idle" THEN "new"
    ELSE IF pc[r] = "received" THEN "open"
    ELSE IF pc[r] = "dropped" THEN "gone"
    ELSE IF pc[r] = "done" /\ status[r] = 401 THEN "denied"
    ELSE "admitted"

Authority == INSTANCE TokenAuthority
    WITH Bearer <- Request, Credit <- Token, NoCredit <- Absent,
         sound    <- FromFiles => priv_path = pub_path,
         standing <- [t \in Token |-> StandingOf(t)],
         shown    <- [r \in Request |-> IF auth[r] \in Token THEN auth[r] ELSE Absent],
         outcome  <- [r \in Request |-> OutcomeOf(r)]

\* "use persistent keys in production" (jwt.rs:8), an "ephemeral RSA key pair"
\* without (jwt.rs:6): the loss of generated keys ends a token before its time,
\* and nothing else does.  Through logins, restarts, seconds that pass and requests
\* under way, the middleware admits a request exactly when its token is good in
\* the sense of StandingOf, and a token that is void stays void.
TokenLifecycle == Authority!AuthoritySpec

(* What the repository says and the code does not do *)

\* middleware.rs:20: "On success, injects X-User-Id and X-User-Roles headers so
\* downstream services can read the authenticated identity".
IdentityReachesUpstream == \A r \in Request : Forwarded(r) => upstream[r] = user_id[r]

=============================================================================
