--------------------------- MODULE GatewayProofs ---------------------------
(***************************************************************************)
(* What a gateway token is worth, for any number of users, tokens,         *)
(* requests, key files and restarts, and any lifetime and leeway.          *)
(***************************************************************************)
EXTENDS Gateway, TLAPS

\* A running process holds the keys of its boot.
KeyInv ==
    /\ Up => KeysLoad
    /\ Up => encoding = EncodingAtBoot(boot) /\ decoding = DecodingAtBoot(boot)
    /\ ~Up => \A r \in Request : pc[r] \notin {"received", "sent"}

\* A token carries the private key of the boot that signed it.
TokenInv ==
    \A t \in Token : token[t] # NoToken =>
        /\ token[t].key = EncodingAtBoot(token[t].boot)
        /\ KeysLoad

\* A request names an issued token; what validation found is remembered.
RequestInv ==
    \A r \in Request :
        /\ pc[r] # "idle" /\ auth[r] \in Token => token[auth[r]] # NoToken
        /\ pc[r] # "done" => status[r] = 0
        /\ pc[r] = "done" => \/ Forwarded(r)
                             \/ status[r] = 401
        /\ Forwarded(r) =>
            /\ auth[r] \in Token
            /\ user_id[r] = token[auth[r]].sub
            /\ checked[r].age <= TOKEN_EXPIRY_SECS + Leeway
            /\ ~FromFiles => checked[r].boot = token[auth[r]].boot
        /\ pc[r] = "done" /\ status[r] = 401 /\ auth[r] \in Token =>
            \/ checked[r].age > TOKEN_EXPIRY_SECS
            \/ ~FromFiles /\ checked[r].boot # token[auth[r]].boot
            \/ FromFiles /\ priv_path # pub_path

GatewayInv == TypeOK /\ KeyInv /\ TokenInv /\ RequestInv

\* Keys that load are keys, and never the absence of one.
LEMMA KeysAreKeys ==
    ASSUME TypeOK, KeysLoad, NEW b \in Nat
    PROVE  /\ EncodingAtBoot(b) \in Key /\ DecodingAtBoot(b) \in Key
           /\ EncodingAtBoot(b) # NoKey /\ DecodingAtBoot(b) # NoKey
<1>1. FromFiles => priv_path \in FileKey /\ pub_path \in FileKey
  BY DEF FromFiles, KeysLoad, TypeOK, Path
<1>2. EncodingAtBoot(b) \in Key /\ DecodingAtBoot(b) \in Key
  BY <1>1 DEF EncodingAtBoot, DecodingAtBoot, KeyAtBoot, Key
<1> QED  BY <1>2, GatewayAssumption

LEMMA GatewayInit == Init => GatewayInv
  BY GatewayAssumption
     DEF Init, GatewayInv, TypeOK, KeyInv, TokenInv, RequestInv, Forwarded, Up, Credential

\* RequestInv only depends on these.
LEMMA RequestFrame ==
    ASSUME RequestInv, UNCHANGED <<env_vars, request_vars>>,
           \A t \in Token : token[t] # NoToken =>
               /\ token'[t] # NoToken
               /\ token'[t].sub = token[t].sub /\ token'[t].boot = token[t].boot
    PROVE  RequestInv'
  BY DEF RequestInv, Forwarded, FromFiles, env_vars, request_vars

LEMMA BootStep ==
    ASSUME GatewayInv, Boot
    PROVE  GatewayInv'
<1>1. boot + 1 \in Nat /\ KeysLoad
  BY DEF Boot, GatewayInv, TypeOK
<1>2. /\ EncodingAtBoot(boot + 1) \in Key /\ DecodingAtBoot(boot + 1) \in Key
      /\ EncodingAtBoot(boot + 1) # NoKey
  BY <1>1, KeysAreKeys DEF GatewayInv
<1>3. TypeOK'
  BY <1>1, <1>2 DEF Boot, GatewayInv, TypeOK, env_vars, request_vars
<1>4. KeyInv'
  BY <1>1, <1>2 DEF Boot, KeyInv, KeysLoad, FromFiles, Up, EncodingAtBoot,
                    DecodingAtBoot, KeyAtBoot, env_vars, request_vars
<1>5. TokenInv'
  BY DEF Boot, GatewayInv, TokenInv, EncodingAtBoot, KeyAtBoot, FromFiles, KeysLoad,
         env_vars
<1>6. RequestInv'
  BY RequestFrame DEF Boot, GatewayInv
<1> QED  BY <1>3, <1>4, <1>5, <1>6 DEF GatewayInv

LEMMA TokensStep ==
    ASSUME GatewayInv, Tick \/ \E t \in Token, u \in User : Login(t, u)
    PROVE  GatewayInv'
<1> USE DEF env_vars, process_vars, request_vars
<1>0. boot \in Nat /\ boot' = boot /\ UNCHANGED <<env_vars, process_vars, request_vars>>
  BY DEF GatewayInv, TypeOK, Tick, Login
<1>1. ASSUME NEW t \in Token, NEW u \in User, Login(t, u)
      PROVE  GatewayInv'
  <2> DEFINE made == [sub |-> u, key |-> encoding, age |-> 0, boot |-> boot]
  <2>1. encoding \in Key /\ encoding = EncodingAtBoot(boot) /\ KeysLoad
    BY <1>1 DEF Login, GatewayInv, KeyInv, Up, TypeOK
  <2>2. made \in Claims /\ made # NoToken
    BY <1>0, <2>1, GatewayAssumption DEF Claims
  <2>3. /\ token' = [token EXCEPT ![t] = made] /\ token[t] = NoToken
    BY <1>1 DEF Login
  <2>4. /\ token'[t] = made /\ made.boot = boot /\ made.key = encoding
        /\ \A s \in Token \ {t} : token'[s] = token[s]
        /\ token' \in [Token -> Claims \cup {NoToken}]
    BY <2>2, <2>3 DEF GatewayInv, TypeOK
  <2> HIDE DEF made
  <2>5. TokenInv'
    BY <1>0, <2>1, <2>4 DEF GatewayInv, TokenInv, EncodingAtBoot, KeyAtBoot, FromFiles,
                            KeysLoad
  <2>6. RequestInv'
    BY <1>0, <2>3, <2>4, RequestFrame DEF GatewayInv
  <2>7. TypeOK' /\ KeyInv'
    BY <1>0, <2>4 DEF GatewayInv, TypeOK, KeyInv, Up, KeysLoad, FromFiles,
                      EncodingAtBoot, DecodingAtBoot, KeyAtBoot
  <2> QED  BY <2>5, <2>6, <2>7 DEF GatewayInv
<1>2. CASE Tick
  <2>1. ASSUME NEW t \in Token, token[t] # NoToken
        PROVE  /\ token'[t] \in Claims /\ token'[t] # NoToken
               /\ token'[t].sub = token[t].sub /\ token'[t].key = token[t].key
               /\ token'[t].boot = token[t].boot
    <3>1. token[t] \in Claims /\ AgeCap \in Nat
      BY <2>1, GatewayAssumption DEF GatewayInv, TypeOK, AgeCap
    <3> DEFINE older == [token[t] EXCEPT !.age = token[t].age + 1]
    <3>2. older \in Claims /\ older.sub = token[t].sub /\ older.key = token[t].key
                           /\ older.boot = token[t].boot
      BY <3>1 DEF Claims
    <3>3. token'[t] = older \/ token'[t] = token[t]
      BY <1>2 DEF Tick
    <3> HIDE DEF older
    <3> QED  BY <2>1, <3>1, <3>2, <3>3, GatewayAssumption
  <2>2. \A t \in Token : token[t] = NoToken => token'[t] = NoToken
    BY <1>2 DEF Tick
  <2>3. token' \in [Token -> Claims \cup {NoToken}]
    <3>1. \A t \in Token : token'[t] \in Claims \cup {NoToken}
      BY <2>1, <2>2
    <3>2. token' = [t \in Token |-> token'[t]]
      BY <1>2 DEF Tick
    <3> QED  BY <3>1, <3>2
  <2>4. TokenInv'
    BY <1>0, <2>1, <2>2 DEF GatewayInv, TokenInv, EncodingAtBoot, KeyAtBoot, FromFiles,
                            KeysLoad
  <2>5. RequestInv'
    BY <1>0, <2>1, RequestFrame DEF GatewayInv
  <2>6. TypeOK' /\ KeyInv'
    BY <1>0, <2>3 DEF GatewayInv, TypeOK, KeyInv, Up, KeysLoad, FromFiles,
                      EncodingAtBoot, DecodingAtBoot, KeyAtBoot
  <2> QED  BY <2>4, <2>5, <2>6 DEF GatewayInv
<1> QED  BY <1>1, <1>2

\* A valid token of this deployment is signed by the boot that validates it,
\* unless the keys come from files; a token that is not valid is old, or of
\* another boot, or its keys do not belong together.
LEMMA ValidityExplained ==
    ASSUME GatewayInv, Up, NEW t \in Token, token[t] # NoToken
    PROVE  /\ Valid(t) => /\ token[t].age <= TOKEN_EXPIRY_SECS + Leeway
                          /\ ~FromFiles => boot = token[t].boot
           /\ ~Valid(t) => \/ token[t].age > TOKEN_EXPIRY_SECS
                           \/ ~FromFiles /\ boot # token[t].boot
                           \/ FromFiles /\ priv_path # pub_path
<1>1. /\ token[t].key = EncodingAtBoot(token[t].boot)
      /\ decoding = DecodingAtBoot(boot)
      /\ token[t] \in Claims
  BY DEF GatewayInv, TypeOK, KeyInv, TokenInv
<1>2. token[t].age \in Nat
  BY <1>1 DEF Claims
<1>3. token[t].key = decoding <=> IF FromFiles THEN priv_path = pub_path
                                              ELSE boot = token[t].boot
  BY <1>1 DEF EncodingAtBoot, DecodingAtBoot, KeyAtBoot
<1> QED  BY <1>2, <1>3, GatewayAssumption DEF Valid

\* While the process is up, only its boots and crashes touch its keys.
LEMMA KeyFrame ==
    ASSUME KeyInv, Up, UNCHANGED <<env_vars, process_vars>>
    PROVE  KeyInv'
BY DEF KeyInv, Up, KeysLoad, FromFiles, EncodingAtBoot, DecodingAtBoot, KeyAtBoot,
       env_vars, process_vars

LEMMA RequestStep ==
    ASSUME GatewayInv, NEW r \in Request,
           \/ \E a \in Credential, u \in User \cup {NoUser} : Receive(r, a, u)
           \/ Refuse(r) \/ Forward(r) \/ Cancel(r)
           \/ \E s \in UpstreamStatus : UpstreamEnds(r, s)
    PROVE  GatewayInv'
<1> USE DEF env_vars, process_vars, Answer, UpstreamStatus
<1>0. UNCHANGED <<env_vars, process_vars, token>>
  BY DEF Receive, Refuse, Forward, Cancel, UpstreamEnds
<1>1. TokenInv'
  BY <1>0 DEF GatewayInv, TokenInv, EncodingAtBoot, KeyAtBoot, FromFiles, KeysLoad
<1>2. pc[r] \in {"received", "sent"} => Up
  BY DEF GatewayInv, KeyInv
<1>7. Up => KeyInv'
  BY <1>0, KeyFrame DEF GatewayInv
<1>3. ASSUME NEW a \in Credential, NEW u \in User \cup {NoUser}, Receive(r, a, u)
      PROVE  GatewayInv'
  <2>0. KeyInv'
    BY <1>3, <1>7 DEF Receive
  <2>1. TypeOK'
    BY <1>0, <1>3 DEF Receive, GatewayInv, TypeOK
  <2>2. RequestInv'
    BY <1>0, <1>3 DEF Receive, GatewayInv, TypeOK, RequestInv, Forwarded, FromFiles
  <2> QED  BY <1>1, <2>0, <2>1, <2>2 DEF GatewayInv
<1>4. CASE Refuse(r)
  <2>0. AgeOf(auth[r]) \in Nat
    BY <1>4 DEF Refuse, AgeOf, GatewayInv, TypeOK, RequestInv, Claims
  <2>1. status' = [status EXCEPT ![r] = 401]
    BY <1>4 DEF Refuse, StatusOf
  <2>2. TypeOK'
    BY <1>0, <1>4, <2>0, <2>1 DEF Refuse, GatewayInv, TypeOK
  <2>5. KeyInv'
    BY <1>2, <1>4, <1>7 DEF Refuse
  <2>3. auth[r] \in Token => \/ AgeOf(auth[r]) > TOKEN_EXPIRY_SECS
                             \/ ~FromFiles /\ boot # token[auth[r]].boot
                             \/ FromFiles /\ priv_path # pub_path
    BY <1>2, <1>4, ValidityExplained DEF Refuse, AgeOf, GatewayInv, RequestInv
  <2>4. RequestInv'
    BY <1>0, <1>4, <2>1, <2>3 DEF Refuse, GatewayInv, TypeOK, RequestInv, Forwarded,
                                  FromFiles
  <2> QED  BY <1>1, <2>2, <2>4, <2>5 DEF GatewayInv
<1>5. CASE Forward(r)
  <2>0. /\ auth[r] \in Token /\ token[auth[r]] \in Claims /\ AgeOf(auth[r]) \in Nat
        /\ token[auth[r]] # NoToken /\ AgeOf(auth[r]) = token[auth[r]].age
    BY <1>5 DEF Forward, Valid, AgeOf, GatewayInv, TypeOK, Claims
  <2>1. token[auth[r]].sub \in User
    BY <2>0 DEF Claims
  <2>2. TypeOK'
    BY <1>0, <1>5, <2>0, <2>1 DEF Forward, ForwardedUserId, GatewayInv, TypeOK
  <2>5. KeyInv'
    BY <1>2, <1>5, <1>7 DEF Forward
  <2>3. /\ AgeOf(auth[r]) <= TOKEN_EXPIRY_SECS + Leeway
        /\ ~FromFiles => boot = token[auth[r]].boot
    BY <1>2, <1>5, <2>0, ValidityExplained DEF Forward
  <2>4. RequestInv'
    BY <1>0, <1>5, <2>0, <2>3 DEF Forward, GatewayInv, TypeOK, RequestInv, Forwarded,
                                  FromFiles
  <2> QED  BY <1>1, <2>2, <2>4, <2>5 DEF GatewayInv
<1>6. ASSUME Cancel(r) \/ \E s \in UpstreamStatus : UpstreamEnds(r, s)
      PROVE  GatewayInv'
  <2>0. KeyInv'
    BY <1>2, <1>6, <1>7 DEF Cancel, UpstreamEnds
  <2>1. TypeOK'
    <3>1. CASE Cancel(r)
      BY <1>0, <3>1 DEF Cancel, GatewayInv, TypeOK
    <3>2. CASE \E s \in UpstreamStatus : UpstreamEnds(r, s)
      BY <1>0, <3>2 DEF UpstreamEnds, GatewayInv, TypeOK
    <3> QED  BY <1>6, <3>1, <3>2
  <2>2. RequestInv'
    BY <1>0, <1>6 DEF Cancel, UpstreamEnds, GatewayInv, TypeOK, RequestInv, Forwarded,
                      FromFiles
  <2> QED  BY <1>1, <2>0, <2>1, <2>2 DEF GatewayInv
<1> QED  BY <1>3, <1>4, <1>5, <1>6

LEMMA GatewayStep ==
    ASSUME GatewayInv, [Next]_vars
    PROVE  GatewayInv'
<1>1. CASE Crash
  <2>1. UNCHANGED <<env_vars, boot, token, auth, user_id, status, checked, upstream>>
    BY <1>1 DEF Crash
  <2>2. /\ encoding' = NoKey /\ decoding' = NoKey
        /\ \A r \in Request : /\ pc'[r] \notin {"received", "sent"}
                              /\ pc'[r] = pc[r] \/ (pc'[r] = "dropped" /\ pc[r] # "done"
                                                    /\ pc[r] # "idle")
    BY <1>1 DEF Crash, GatewayInv, TypeOK
  <2>3. pc' \in [Request -> {"idle", "received", "sent", "done", "dropped"}]
    BY <1>1 DEF Crash, GatewayInv, TypeOK
  <2>4. TypeOK' /\ KeyInv'
    BY <2>1, <2>2, <2>3 DEF GatewayInv, TypeOK, KeyInv, Up, env_vars
  <2>5. TokenInv'
    BY <2>1 DEF GatewayInv, TokenInv, EncodingAtBoot, KeyAtBoot, FromFiles, KeysLoad, env_vars
  <2>6. RequestInv'
    BY <2>1, <2>2 DEF GatewayInv, RequestInv, Forwarded, FromFiles, env_vars
  <2> QED  BY <2>4, <2>5, <2>6 DEF GatewayInv
<1>2. CASE UNCHANGED vars
  BY <1>2 DEF vars, env_vars, process_vars, request_vars, GatewayInv, TypeOK, KeyInv,
              TokenInv, RequestInv, Forwarded, Up, KeysLoad, FromFiles, EncodingAtBoot,
              DecodingAtBoot, KeyAtBoot
<1> QED  BY <1>1, <1>2, BootStep, TokensStep, RequestStep DEF Next

\* A protected handler runs only for a live token of this gateway, as its user,
\* and a token is honoured for its hour unless its key was lost or mismatched
\* (jwt.rs: load_or_generate, sign, validate; middleware.rs: jwt_middleware).
THEOREM TokensMeanWhatTheySay ==
    Spec => [](TypeOK /\ OnlyOwnTokensPass /\ OwnTokensPass)
<1>1. Init => GatewayInv
  BY GatewayInit
<1>2. GatewayInv /\ [Next]_vars => GatewayInv'
  BY GatewayStep
<1>3. GatewayInv => TypeOK /\ OnlyOwnTokensPass /\ OwnTokensPass
  BY DEF GatewayInv, RequestInv, OnlyOwnTokensPass, OwnTokensPass, Forwarded
<1> QED  BY <1>1, <1>2, <1>3, PTL DEF Spec

-----------------------------------------------------------------------------
(* Refusals are final *)

\* The request's token has been looked at by the middleware.
Validated(r) == pc[r] \in {"sent", "done"} /\ auth[r] \in Token

\* Boots and ages only grow, so two validations of one token are ordered.
TimeInv ==
    /\ \A t \in Token : token[t] # NoToken => token[t].boot <= boot
    /\ \A r \in Request : Validated(r) =>
        /\ checked[r].age <= token[auth[r]].age
        /\ token[auth[r]].boot <= checked[r].boot /\ checked[r].boot <= boot
        /\ status[r] = 401 /\ pc[r] = "done" =>
            \/ checked[r].age > TOKEN_EXPIRY_SECS + Leeway
            \/ ~FromFiles /\ checked[r].boot # token[auth[r]].boot
            \/ FromFiles /\ priv_path # pub_path
        /\ Forwarded(r) => (FromFiles => priv_path = pub_path)
    /\ \A q, r \in Request :
        /\ Validated(q) /\ Validated(r) /\ auth[q] = auth[r]
        /\ checked[q].boot < checked[r].boot
        => checked[q].age <= checked[r].age

LEMMA TimeImpliesFinal ==
    ASSUME GatewayInv, TimeInv
    PROVE  RefusalIsFinal
<1> SUFFICES ASSUME NEW q \in Request, NEW r \in Request,
                    auth[q] = auth[r], auth[q] \in Token,
                    pc[q] = "done", status[q] = 401, Forwarded(r)
             PROVE  /\ checked[r].boot <= checked[q].boot
                    /\ checked[r].age <= checked[q].age
                    /\ checked[r] # checked[q]
  BY DEF RefusalIsFinal
<1>1. /\ checked[q].age \in Nat /\ checked[q].boot \in Nat
      /\ checked[r].age \in Nat /\ checked[r].boot \in Nat
  BY DEF GatewayInv, TypeOK
<1>2. Validated(q) /\ Validated(r)
  BY DEF Validated, Forwarded
<1>3. /\ checked[r].age <= TOKEN_EXPIRY_SECS + Leeway
      /\ ~FromFiles => checked[r].boot = token[auth[r]].boot
      /\ FromFiles => priv_path = pub_path
  BY <1>2 DEF GatewayInv, RequestInv, TimeInv
<1>4. \/ checked[q].age > TOKEN_EXPIRY_SECS + Leeway
      \/ ~FromFiles /\ checked[q].boot # token[auth[q]].boot
  BY <1>2, <1>3 DEF TimeInv
<1>5. /\ checked[q].boot < checked[r].boot => checked[q].age <= checked[r].age
      /\ checked[r].boot < checked[q].boot => checked[r].age <= checked[q].age
  BY <1>2 DEF TimeInv
<1>6. token[auth[q]].boot \in Nat /\ token[auth[q]].boot <= checked[q].boot
  BY <1>2 DEF GatewayInv, TypeOK, RequestInv, Claims, TimeInv, Validated
<1>7. CASE checked[q].age > TOKEN_EXPIRY_SECS + Leeway
  BY <1>1, <1>3, <1>5, <1>7, GatewayAssumption
<1>8. CASE ~FromFiles /\ checked[q].boot # token[auth[q]].boot
  BY <1>1, <1>3, <1>5, <1>6, <1>8
<1> QED  BY <1>4, <1>7, <1>8

\* Tokens age, boots are counted, requests wait.
LEMMA TimeFrame ==
    ASSUME GatewayInv, GatewayInv', TimeInv, boot' \in Nat, boot <= boot',
           UNCHANGED <<env_vars, request_vars>>,
           \A t \in Token : token[t] # NoToken =>
               /\ token'[t] # NoToken
               /\ token'[t].boot = token[t].boot /\ token[t].age <= token'[t].age,
           \A t \in Token : token[t] = NoToken /\ token'[t] # NoToken => token'[t].boot <= boot'
    PROVE  TimeInv'
<1>1. \A t \in Token : token[t] # NoToken => token[t].boot \in Nat /\ token[t].age \in Nat
                                             /\ token'[t].age \in Nat
  BY DEF GatewayInv, TypeOK, Claims
<1>2. boot \in Nat /\ \A r \in Request : checked[r].age \in Nat /\ checked[r].boot \in Nat
  BY DEF GatewayInv, TypeOK
<1>3. \A r \in Request : Validated(r) => token[auth[r]] # NoToken
  BY DEF Validated, GatewayInv, RequestInv
<1>4. \A r \in Request : Validated(r)' <=> Validated(r)
  BY DEF Validated, request_vars
<1>5. /\ FromFiles' = FromFiles /\ UNCHANGED <<priv_path, pub_path, checked, auth, status, pc>>
      /\ \A r \in Request : Forwarded(r)' <=> Forwarded(r)
  BY DEF FromFiles, env_vars, request_vars, Forwarded
<1>6. \A t \in Token : token'[t] # NoToken => token'[t].boot <= boot'
  BY <1>1, <1>2 DEF TimeInv
<1>7. ASSUME NEW r \in Request, Validated(r)
      PROVE  /\ checked[r].age <= token'[auth[r]].age
             /\ token'[auth[r]].boot <= checked[r].boot /\ checked[r].boot <= boot'
             /\ token'[auth[r]].boot = token[auth[r]].boot
  <2>1. auth[r] \in Token /\ token[auth[r]] # NoToken
    BY <1>3, <1>7 DEF Validated
  <2> QED  BY <1>1, <1>2, <1>7, <2>1 DEF TimeInv
<1> QED  BY <1>4, <1>5, <1>6, <1>7 DEF TimeInv

LEMMA TimeOfRequests ==
    ASSUME GatewayInv, TimeInv, NEW r \in Request,
           \/ \E a \in Credential, u \in User \cup {NoUser} : Receive(r, a, u)
           \/ Refuse(r) \/ Forward(r) \/ Cancel(r)
           \/ \E s \in UpstreamStatus : UpstreamEnds(r, s)
    PROVE  TimeInv'
<1> USE DEF env_vars, process_vars, Answer, UpstreamStatus
<1>0. /\ UNCHANGED <<priv_path, pub_path, boot, encoding, decoding, token>>
      /\ FromFiles' = FromFiles
  BY DEF Receive, Refuse, Forward, Cancel, UpstreamEnds, FromFiles
<1>1. boot \in Nat /\ \A t \in Token : token[t] # NoToken => token[t] \in Claims
  BY DEF GatewayInv, TypeOK
<1>2. \A q \in Request \ {r} : /\ pc'[q] = pc[q] /\ auth'[q] = auth[q]
                               /\ status'[q] = status[q] /\ checked'[q] = checked[q]
  BY DEF Receive, Refuse, Forward, Cancel, UpstreamEnds, GatewayInv, TypeOK
<1>3. \A q \in Request \ {r} : /\ Validated(q)' <=> Validated(q)
                               /\ Forwarded(q)' <=> Forwarded(q)
  BY <1>2 DEF Validated, Forwarded
<1>4. CASE Refuse(r) \/ Forward(r)
  <2>1. Up /\ pc[r] = "received" /\ auth' = auth
    BY <1>4 DEF Refuse, Forward, GatewayInv, KeyInv
  <2>2. checked'[r] = [age |-> AgeOf(auth[r]), boot |-> boot]
    BY <1>4 DEF Refuse, Forward, GatewayInv, TypeOK
  <2>3. auth[r] \in Token => /\ token[auth[r]] # NoToken
                             /\ checked'[r].age = token[auth[r]].age
                             /\ token[auth[r]].age \in Nat
    BY <1>1, <2>1, <2>2 DEF AgeOf, GatewayInv, RequestInv, Claims
  <2>4. auth[r] \in Token => (token[auth[r]].key = decoding <=>
            IF FromFiles THEN priv_path = pub_path ELSE boot = token[auth[r]].boot)
    <3>1. auth[r] \in Token => /\ token[auth[r]].key = EncodingAtBoot(token[auth[r]].boot)
                               /\ decoding = DecodingAtBoot(boot)
      BY <2>1, <2>3 DEF GatewayInv, KeyInv, TokenInv
    <3> QED  BY <3>1 DEF EncodingAtBoot, DecodingAtBoot, KeyAtBoot
  <2>5. /\ pc'[r] = "done" => ~Valid(auth[r])
        /\ pc'[r] = "sent" => Valid(auth[r])
        /\ pc'[r] = "done" => status'[r] = 401
        /\ pc'[r] = "sent" => status'[r] = 0
    BY <1>4, <2>1 DEF Refuse, Forward, StatusOf, GatewayInv, TypeOK, RequestInv
  <2>6. auth[r] \in Token /\ status'[r] = 401 /\ pc'[r] = "done" =>
            \/ checked'[r].age > TOKEN_EXPIRY_SECS + Leeway
            \/ ~FromFiles /\ boot # token[auth[r]].boot
            \/ FromFiles /\ priv_path # pub_path
    BY <2>3, <2>4, <2>5, GatewayAssumption DEF Valid
  <2>7. auth[r] \in Token /\ Forwarded(r)' => (FromFiles => priv_path = pub_path)
    BY <2>4, <2>5 DEF Valid, Forwarded
  <2>8. ASSUME NEW q \in Request \ {r}, Validated(q), auth[q] = auth[r]
        PROVE  /\ checked[q].age <= checked'[r].age /\ checked[q].boot <= boot
               /\ checked[q].age \in Nat /\ checked[q].boot \in Nat
    BY <2>3, <2>8 DEF TimeInv, Validated, GatewayInv, TypeOK
  <2>9. /\ checked'[r].boot = boot
        /\ auth[r] \in Token => token[auth[r]].boot <= boot
    BY <2>2, <2>3 DEF TimeInv
  <2>10. \A p, q \in Request :
            /\ Validated(p)' /\ Validated(q)' /\ auth'[p] = auth'[q]
            /\ checked'[p].boot < checked'[q].boot
            => checked'[p].age <= checked'[q].age
    <3> SUFFICES ASSUME NEW p \in Request, NEW q \in Request,
                        Validated(p)', Validated(q)', auth[p] = auth[q],
                        checked'[p].boot < checked'[q].boot
                 PROVE  checked'[p].age <= checked'[q].age
      BY <2>1
    <3>1. CASE p # r /\ q # r
      BY <1>2, <1>3, <3>1 DEF TimeInv
    <3>2. CASE p # r /\ q = r
      BY <1>2, <1>3, <2>8, <3>2
    <3>3. CASE p = r /\ q # r
      <4>1. checked[q].boot <= boot /\ checked[q].boot \in Nat
        BY <1>3, <2>8, <3>3
      <4> QED  BY <1>1, <1>2, <2>9, <3>3, <4>1
    <3>4. CASE p = r /\ q = r
      BY <1>1, <2>9, <3>4
    <3> QED  BY <3>1, <3>2, <3>3, <3>4
  <2>11. ASSUME NEW q \in Request, Validated(q)'
         PROVE  /\ checked'[q].age <= token[auth[q]].age
                /\ token[auth[q]].boot <= checked'[q].boot /\ checked'[q].boot <= boot
                /\ status'[q] = 401 /\ pc'[q] = "done" =>
                    \/ checked'[q].age > TOKEN_EXPIRY_SECS + Leeway
                    \/ ~FromFiles /\ checked'[q].boot # token[auth[q]].boot
                    \/ FromFiles /\ priv_path # pub_path
                /\ Forwarded(q)' => (FromFiles => priv_path = pub_path)
    <3>1. CASE q = r
      <4>1. auth[r] \in Token
        BY <2>1, <2>11, <3>1 DEF Validated
      <4> QED  BY <1>1, <2>3, <2>6, <2>7, <2>9, <3>1, <4>1
    <3>2. CASE q # r
      BY <1>2, <1>3, <2>11, <3>2 DEF TimeInv
    <3> QED  BY <3>1, <3>2
  <2>12. \A t \in Token : token[t] # NoToken => token[t].boot <= boot
    BY DEF TimeInv
  <2> QED  BY <1>0, <2>1, <2>10, <2>11, <2>12 DEF TimeInv
<1>5. CASE ~(Refuse(r) \/ Forward(r))
  <2>1. /\ checked' = checked
        /\ Validated(r)' => Validated(r) /\ auth'[r] = auth[r]
        /\ Forwarded(r)' => Forwarded(r)
        /\ pc'[r] = "done" => status'[r] # 401
    BY <1>5 DEF Receive, Cancel, UpstreamEnds, Validated, Forwarded, GatewayInv, TypeOK,
                RequestInv
  <2>2. \A q \in Request : /\ Validated(q)' => Validated(q) /\ auth'[q] = auth[q]
                           /\ Forwarded(q)' => Forwarded(q)
                           /\ pc'[q] = "done" /\ status'[q] = 401 =>
                                  pc[q] = "done" /\ status[q] = 401
    BY <1>2, <1>3, <2>1
  <2> QED  BY <1>0, <2>1, <2>2 DEF TimeInv
<1> QED  BY <1>4, <1>5

LEMMA TimeStep ==
    ASSUME GatewayInv, GatewayInv', TimeInv, [Next]_vars
    PROVE  TimeInv'
<1> USE DEF env_vars, process_vars
<1>0. boot \in Nat /\ \A t \in Token : token[t] # NoToken =>
                                token[t].age \in Nat /\ token[t].boot \in Nat
  BY DEF GatewayInv, TypeOK, Claims
<1>1. CASE Boot
  BY <1>0, <1>1, TimeFrame DEF Boot
<1>2. CASE Tick
  <2>1. ASSUME NEW t \in Token, token[t] # NoToken
        PROVE  /\ token'[t] # NoToken
               /\ token'[t].boot = token[t].boot /\ token[t].age <= token'[t].age
    <3> DEFINE older == [token[t] EXCEPT !.age = token[t].age + 1]
    <3>1. token[t] \in Claims
      BY <2>1 DEF GatewayInv, TypeOK
    <3>2. /\ older \in Claims /\ older.boot = token[t].boot
          /\ older.age = token[t].age + 1
      BY <1>0, <2>1, <3>1 DEF Claims
    <3>3. token'[t] = older \/ token'[t] = token[t]
      BY <1>2 DEF Tick
    <3> HIDE DEF older
    <3> QED  BY <1>0, <2>1, <3>2, <3>3, GatewayAssumption
  <2>2. \A t \in Token : token[t] = NoToken => token'[t] = NoToken
    BY <1>2 DEF Tick
  <2> QED  BY <1>0, <1>2, <2>1, <2>2, TimeFrame DEF Tick
<1>3. ASSUME NEW t \in Token, NEW u \in User, Login(t, u)
      PROVE  TimeInv'
  <2>1. /\ token[t] = NoToken /\ token'[t].boot = boot
        /\ \A s \in Token \ {t} : token'[s] = token[s]
    BY <1>3 DEF Login, GatewayInv, TypeOK
  <2> QED  BY <1>0, <1>3, <2>1, TimeFrame DEF Login
<1>4. CASE Crash
  <2>1. /\ UNCHANGED <<env_vars, boot, token, auth, status, checked>>
        /\ \A r \in Request : pc'[r] \in {"sent", "done"} => pc'[r] = pc[r]
    BY <1>4 DEF Crash, GatewayInv, TypeOK
  <2>2. \A r \in Request : /\ Validated(r)' => Validated(r)
                           /\ Forwarded(r)' => Forwarded(r)
                           /\ pc'[r] = "done" => pc[r] = "done"
    BY <2>1 DEF Validated, Forwarded
  <2> QED  BY <2>1, <2>2 DEF TimeInv, FromFiles
<1>5. CASE UNCHANGED vars
  BY <1>0, <1>5, TimeFrame DEF vars
<1> QED  BY <1>1, <1>2, <1>3, <1>4, <1>5, TimeOfRequests DEF Next

\* A token that was refused once is never let through again, over any number of
\* requests and restarts (jwt.rs: validate; middleware.rs: jwt_middleware).
THEOREM RefusalsAreFinal == Spec => []RefusalIsFinal
<1>1. Init => GatewayInv /\ TimeInv
  BY GatewayInit DEF Init, TimeInv, Validated, Forwarded
<1>2. GatewayInv /\ TimeInv /\ [Next]_vars => GatewayInv' /\ TimeInv'
  BY GatewayStep, TimeStep
<1>3. GatewayInv /\ TimeInv => RefusalIsFinal
  BY TimeImpliesFinal
<1> QED  BY <1>1, <1>2, <1>3, PTL DEF Spec

-----------------------------------------------------------------------------
(* The gateway implements TokenAuthority *)

SoundBar    == FromFiles => priv_path = pub_path
StandingBar == [t \in Token |-> StandingOf(t)]
ShownBar    == [r \in Request |-> IF auth[r] \in Token THEN auth[r] ELSE Absent]
OutcomeBar  == [r \in Request |-> OutcomeOf(r)]

\* The middleware's test is the standing of the token, in both directions.
LEMMA ValidIsGood ==
    ASSUME GatewayInv, Up, NEW t \in Token, token[t] # NoToken
    PROVE  Valid(t) <=> StandingOf(t) = "good"
<1>1. /\ token[t].key = EncodingAtBoot(token[t].boot)
      /\ decoding = DecodingAtBoot(boot)
  BY DEF GatewayInv, KeyInv, TokenInv
<1>2. token[t].key = decoding <=> IF FromFiles THEN priv_path = pub_path
                                              ELSE boot = token[t].boot
  BY <1>1 DEF EncodingAtBoot, DecodingAtBoot, KeyAtBoot
<1> QED  BY <1>2 DEF Valid, StandingOf

LEMMA StandingCases ==
    ASSUME GatewayInv
    PROVE  /\ \A t \in Token : StandingOf(t) \in {"unissued", "good", "void"}
           /\ \A r \in Request : OutcomeOf(r) \in {"new", "open", "admitted", "denied", "gone"}
  BY DEF StandingOf, OutcomeOf

\* A boot, a crash, a second: tokens only ever become void.
LEMMA StandingOnlyFalls ==
    ASSUME GatewayInv, GatewayInv', TimeInv, Boot \/ Crash \/ Tick
    PROVE  /\ \A t \in Token : \/ StandingOf(t)' = StandingOf(t)
                               \/ StandingOf(t) = "good" /\ StandingOf(t)' = "void"
           /\ UNCHANGED <<priv_path, pub_path>> /\ FromFiles' = FromFiles
<1>0. UNCHANGED <<priv_path, pub_path>> /\ FromFiles' = FromFiles
  BY DEF Boot, Crash, Tick, env_vars, FromFiles
<1>1. boot \in Nat /\ \A t \in Token : token[t] # NoToken =>
          /\ token[t] \in Claims /\ token[t].age \in Nat /\ token[t].boot \in Nat
          /\ token[t].boot <= boot
  BY DEF GatewayInv, TypeOK, Claims, TimeInv
<1>2. CASE Boot
  <2>1. ~Up /\ boot' = boot + 1 /\ token' = token
    BY <1>2 DEF Boot
  <2> QED  BY <1>0, <1>1, <2>1 DEF StandingOf
<1>3. CASE Crash
  <2>1. Up /\ ~Up' /\ boot' = boot /\ token' = token
    BY <1>3 DEF Crash, Up
  <2> QED  BY <1>0, <2>1 DEF StandingOf
<1>4. CASE Tick
  <2>1. boot' = boot /\ Up' = Up
    BY <1>4 DEF Tick, process_vars, Up
  <2>2. ASSUME NEW t \in Token, token[t] # NoToken
        PROVE  /\ token'[t] # NoToken /\ token'[t].boot = token[t].boot
               /\ token'[t].age \in Nat /\ token[t].age <= token'[t].age
    <3> DEFINE older == [token[t] EXCEPT !.age = token[t].age + 1]
    <3>1. /\ older \in Claims /\ older.boot = token[t].boot
          /\ older.age = token[t].age + 1
      BY <1>1, <2>2 DEF Claims
    <3>2. token'[t] = older \/ token'[t] = token[t]
      BY <1>4 DEF Tick
    <3> HIDE DEF older
    <3> QED  BY <1>1, <2>2, <3>1, <3>2, GatewayAssumption
  <2>3. \A t \in Token : token[t] = NoToken => token'[t] = NoToken
    BY <1>4 DEF Tick
  <2> QED  BY <1>0, <1>1, <2>1, <2>2, <2>3, GatewayAssumption DEF StandingOf
<1> QED  BY <1>0, <1>2, <1>3, <1>4

LEMMA AuthorityStep ==
    ASSUME GatewayInv, GatewayInv', TimeInv, [Next]_vars
    PROVE  \/ Authority!AuthorityNext
           \/ UNCHANGED <<SoundBar, StandingBar, ShownBar, OutcomeBar>>
<1> USE DEF SoundBar
<1>0. /\ \A t \in Token : /\ StandingBar[t] = StandingOf(t)
                          /\ StandingBar'[t] = StandingOf(t)'
      /\ \A r \in Request : /\ OutcomeBar[r] = OutcomeOf(r)
                            /\ OutcomeBar'[r] = OutcomeOf(r)'
      /\ StandingBar' \in [Token -> {"unissued", "good", "void"}]
      /\ OutcomeBar' \in [Request -> {"new", "open", "admitted", "denied", "gone"}]
  BY StandingCases DEF StandingBar, OutcomeBar, StandingOf, OutcomeOf
<1>1. ASSUME Boot \/ Crash \/ Tick
      PROVE  Authority!Lapse
  <2>1. auth' = auth
    BY <1>1 DEF Boot, Crash, Tick, request_vars
  <2>2. ASSUME NEW r \in Request
        PROVE  \/ OutcomeOf(r)' = OutcomeOf(r)
               \/ OutcomeOf(r) \in {"open", "admitted"} /\ OutcomeOf(r)' = "gone"
    <3>1. CASE Boot \/ Tick
      BY <3>1 DEF Boot, Tick, request_vars, OutcomeOf
    <3>2. CASE Crash
      <4>1. /\ pc'[r] = IF pc[r] \in {"received", "sent"} THEN "dropped" ELSE pc[r]
            /\ status'[r] = status[r]
        BY <3>2 DEF Crash
      <4> QED  BY <4>1 DEF OutcomeOf
    <3> QED  BY <1>1, <3>1, <3>2
  <2> QED
    BY <1>0, <1>1, <2>1, <2>2, StandingOnlyFalls
    DEF Authority!Lapse, Authority!Standing, Authority!Outcome, StandingBar, OutcomeBar
<1>2. ASSUME NEW t \in Token, NEW u \in User, Login(t, u)
      PROVE  Authority!Issue(t)
  <2>1. /\ Up /\ token[t] = NoToken /\ token'[t] # NoToken
        /\ token'[t].age = 0 /\ token'[t].boot = boot
        /\ \A s \in Token \ {t} : token'[s] = token[s]
    <3>1. token'[t] = [sub |-> u, key |-> encoding, age |-> 0, boot |-> boot]
      BY <1>2 DEF Login, GatewayInv, TypeOK
    <3>2. encoding \in Key /\ boot \in Nat
      BY <1>2 DEF Login, Up, GatewayInv, TypeOK
    <3>3. token'[t] \in Claims
      BY <3>1, <3>2 DEF Claims
    <3> QED  BY <1>2, <3>1, <3>3, GatewayAssumption DEF Login, GatewayInv, TypeOK
  <2>2. /\ UNCHANGED <<priv_path, pub_path, boot, encoding, auth, pc, status>>
        /\ FromFiles' = FromFiles /\ Up' = Up
    BY <1>2 DEF Login, env_vars, process_vars, request_vars, FromFiles, Up
  <2>3. StandingOf(t) = "unissued"
    BY <2>1 DEF StandingOf
  <2>4. StandingOf(t)' = IF SoundBar THEN "good" ELSE "void"
    BY <2>1, <2>2, GatewayAssumption DEF StandingOf
  <2>5. \A s \in Token \ {t} : StandingOf(s)' = StandingOf(s)
    BY <2>1, <2>2 DEF StandingOf
  <2>6. StandingBar' = [StandingBar EXCEPT ![t] = IF SoundBar THEN "good" ELSE "void"]
    BY <2>4, <2>5 DEF StandingBar
  <2>7. UNCHANGED <<SoundBar, ShownBar, OutcomeBar>>
    BY <2>2 DEF ShownBar, OutcomeBar, OutcomeOf
  <2> QED  BY <1>0, <2>3, <2>6, <2>7
           DEF Authority!Issue, StandingBar, ShownBar, OutcomeBar
<1>3. ASSUME NEW r \in Request,
             \/ \E a \in Credential, u \in User \cup {NoUser} : Receive(r, a, u)
             \/ Refuse(r) \/ Forward(r) \/ Cancel(r)
             \/ \E s \in UpstreamStatus : UpstreamEnds(r, s)
      PROVE  \/ Authority!AuthorityNext
             \/ UNCHANGED <<SoundBar, StandingBar, ShownBar, OutcomeBar>>
  <2>1. /\ UNCHANGED <<SoundBar, StandingBar>>
        /\ \A q \in Request \ {r} : OutcomeOf(q)' = OutcomeOf(q) /\ auth'[q] = auth[q]
    <3>1. UNCHANGED <<priv_path, pub_path, boot, encoding, token>>
      BY <1>3 DEF Receive, Refuse, Forward, Cancel, UpstreamEnds, env_vars, process_vars
    <3>2. \A q \in Request \ {r} : /\ pc'[q] = pc[q] /\ status'[q] = status[q]
                                   /\ auth'[q] = auth[q]
      BY <1>3 DEF Receive, Refuse, Forward, Cancel, UpstreamEnds, Answer, GatewayInv, TypeOK
    <3> QED  BY <3>1, <3>2 DEF StandingBar, StandingOf, FromFiles, Up, OutcomeOf
  <2>2. ASSUME NEW to, OutcomeOf(r)' = to
        PROVE  OutcomeBar' = [OutcomeBar EXCEPT ![r] = to]
    BY <2>1, <2>2 DEF OutcomeBar
  <2>3. ASSUME auth'[r] = auth[r]
        PROVE  ShownBar' = ShownBar
    BY <2>1, <2>3 DEF ShownBar
  <2>4. ASSUME NEW a \in Credential, NEW u \in User \cup {NoUser}, Receive(r, a, u)
        PROVE  Authority!AuthorityNext
    <3> DEFINE c == IF a \in Token THEN a ELSE Absent
    <3>1. /\ pc[r] = "idle" /\ pc'[r] = "received" /\ auth'[r] = a
          /\ a \in Token => token[a] # NoToken
      BY <2>4 DEF Receive, GatewayInv, TypeOK
    <3>2. OutcomeOf(r) = "new" /\ OutcomeOf(r)' = "open"
      BY <3>1 DEF OutcomeOf
    <3>3. ShownBar' = [ShownBar EXCEPT ![r] = c]
      BY <2>1, <3>1 DEF ShownBar
    <3>4. c \in Token \cup {Absent} /\ (c \in Token => StandingOf(c) # "unissued")
      BY <3>1, GatewayAssumption DEF StandingOf
    <3>5. OutcomeBar' = [OutcomeBar EXCEPT ![r] = "open"]
      BY <2>2, <3>2
    <3> HIDE DEF c
    <3>6. Authority!Present(r, c)
      BY <1>0, <2>1, <3>2, <3>3, <3>4, <3>5
         DEF Authority!Present, StandingBar, ShownBar, OutcomeBar
    <3> QED  BY <3>4, <3>6 DEF Authority!AuthorityNext
  <2>5. ASSUME Refuse(r) \/ Forward(r)
        PROVE  Authority!AuthorityNext
    <3>1. pc[r] = "received" /\ auth' = auth /\ Up
      BY <2>5 DEF Refuse, Forward, GatewayInv, KeyInv
    <3>2. auth[r] \in Token => token[auth[r]] # NoToken
      BY <3>1 DEF GatewayInv, RequestInv
    <3>3. Valid(auth[r]) <=> auth[r] \in Token /\ StandingOf(auth[r]) = "good"
      <4>1. CASE auth[r] \in Token
        BY <3>1, <3>2, <4>1, ValidIsGood
      <4>2. CASE auth[r] \notin Token
        BY <4>2 DEF Valid
      <4> QED  BY <4>1, <4>2
    <3>4. OutcomeOf(r) = "open"
      BY <3>1 DEF OutcomeOf
    <3>5. OutcomeOf(r)' = IF Valid(auth[r]) THEN "admitted" ELSE "denied"
      <4>1. CASE Refuse(r)
        <5>1. ~Valid(auth[r]) /\ status' = [status EXCEPT ![r] = 401]
                              /\ pc' = [pc EXCEPT ![r] = "done"]
          BY <4>1 DEF Refuse, Answer, StatusOf
        <5> QED  BY <5>1 DEF OutcomeOf, GatewayInv, TypeOK
      <4>2. CASE Forward(r)
        BY <4>2 DEF Forward, OutcomeOf, GatewayInv, TypeOK
      <4> QED  BY <2>5, <4>1, <4>2
    <3>6. ShownBar[r] = (IF auth[r] \in Token THEN auth[r] ELSE Absent)
      BY DEF ShownBar
    <3>7. (ShownBar[r] \in Token /\ StandingBar[ShownBar[r]] = "good") <=> Valid(auth[r])
      BY <1>0, <3>3, <3>6, GatewayAssumption
    <3>8. OutcomeBar' = [OutcomeBar EXCEPT ![r] =
                IF ShownBar[r] \in Token /\ StandingBar[ShownBar[r]] = "good"
                THEN "admitted" ELSE "denied"]
      BY <2>2, <3>5, <3>7
    <3>9. Authority!Judge(r)
      BY <1>0, <2>1, <2>3, <3>1, <3>4, <3>8
         DEF Authority!Judge, StandingBar, ShownBar, OutcomeBar
    <3> QED  BY <3>9 DEF Authority!AuthorityNext
  <2>6. ASSUME Cancel(r)
        PROVE  Authority!Lapse
    <3>1. auth' = auth /\ pc[r] = "sent" /\ pc'[r] = "dropped"
      BY <2>6 DEF Cancel, GatewayInv, TypeOK
    <3>2. OutcomeOf(r) = "admitted" /\ OutcomeOf(r)' = "gone"
      BY <3>1 DEF OutcomeOf
    <3> QED
      BY <1>0, <2>1, <2>3, <3>1, <3>2
      DEF Authority!Lapse, Authority!Standing, Authority!Outcome, StandingBar, ShownBar,
          OutcomeBar
  <2>7. ASSUME NEW s \in UpstreamStatus, UpstreamEnds(r, s)
        PROVE  UNCHANGED <<SoundBar, StandingBar, ShownBar, OutcomeBar>>
    <3>1. /\ auth' = auth /\ pc[r] = "sent" /\ pc'[r] = "done"
          /\ status'[r] = s /\ s # 401
      BY <2>7 DEF UpstreamEnds, Answer, UpstreamStatus, GatewayInv, TypeOK
    <3>2. OutcomeOf(r)' = OutcomeOf(r)
      BY <3>1 DEF OutcomeOf
    <3> QED  BY <2>1, <2>3, <3>1, <3>2 DEF OutcomeBar
  <2> QED  BY <1>3, <2>4, <2>5, <2>6, <2>7 DEF Authority!AuthorityNext
<1>4. CASE UNCHANGED vars
  BY <1>4 DEF vars, env_vars, process_vars, request_vars, StandingBar, StandingOf, FromFiles,
              Up, ShownBar, OutcomeBar, OutcomeOf
<1> QED
  BY <1>1, <1>2, <1>3, <1>4 DEF Next, Authority!AuthorityNext

\* For any users, tokens, requests, key files and restarts: the middleware
\* admits a request exactly when its token is good, a sound deployment issues
\* good tokens only, and what makes a token void is its age or the end of the
\* process that generated its key (jwt.rs: load_or_generate, sign, validate;
\* middleware.rs: jwt_middleware).
THEOREM GatewayImplementsAuthority == Spec => TokenLifecycle
<1>1. Init => Authority!AuthorityInit
  BY GatewayAssumption DEF Init, Authority!AuthorityInit, StandingOf, OutcomeOf
<1>2. Init => GatewayInv /\ TimeInv
  BY GatewayInit DEF Init, TimeInv, Validated, Forwarded
<1>3. GatewayInv /\ TimeInv /\ [Next]_vars => GatewayInv' /\ TimeInv'
  BY GatewayStep, TimeStep
<1>4. GatewayInv /\ GatewayInv' /\ TimeInv /\ [Next]_vars =>
        [Authority!AuthorityNext]_(Authority!authority_vars)
  BY AuthorityStep
     DEF Authority!authority_vars, SoundBar, StandingBar, ShownBar, OutcomeBar
<1> QED  BY <1>1, <1>2, <1>3, <1>4, PTL DEF Spec, TokenLifecycle, Authority!AuthoritySpec

=============================================================================
