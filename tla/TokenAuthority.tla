--------------------------- MODULE TokenAuthority ---------------------------
(***************************************************************************)
(* What the gateway's tokens promise, without keys, clocks or the          *)
(* middleware (api-gateway/src/jwt.rs, middleware.rs): if the deployment's *)
(* keys belong together a token is good from its issue until it is void,   *)
(* and it is void for good; a request is admitted exactly when its token   *)
(* is good at that moment.                                                 *)
(***************************************************************************)
CONSTANTS
    Bearer,     \* requests
    Credit,     \* tokens
    NoCredit    \* what a request without a token of the gateway's shows

VARIABLES
    sound,      \* whether this deployment's keys belong together
    standing,   \* of each token
    shown,      \* the token each request carries
    outcome     \* of each request

Standing == {"unissued", "good", "void"}
Outcome  == {"new", "open", "admitted", "denied", "gone"}

authority_vars == <<sound, standing, shown, outcome>>

AuthorityTypeOK ==
    /\ sound \in BOOLEAN
    /\ standing \in [Credit -> Standing]
    /\ shown \in [Bearer -> Credit \cup {NoCredit}]
    /\ outcome \in [Bearer -> Outcome]

AuthorityInit ==
    /\ sound \in BOOLEAN
    /\ standing = [t \in Credit |-> "unissued"]
    /\ shown = [b \in Bearer |-> NoCredit]
    /\ outcome = [b \in Bearer |-> "new"]

Issue(t) ==
    /\ standing[t] = "unissued"
    /\ standing' = [standing EXCEPT ![t] = IF sound THEN "good" ELSE "void"]
    /\ UNCHANGED <<sound, shown, outcome>>

Present(b, t) ==
    /\ outcome[b] = "new"
    /\ t \in Credit => standing[t] # "unissued"
    /\ shown' = [shown EXCEPT ![b] = t]
    /\ outcome' = [outcome EXCEPT ![b] = "open"]
    /\ UNCHANGED <<sound, standing>>

\* The middleware's verdict.
Judge(b) ==
    /\ outcome[b] = "open"
    /\ outcome' = [outcome EXCEPT ![b] =
                      IF shown[b] \in Credit /\ standing[shown[b]] = "good"
                      THEN "admitted" ELSE "denied"]
    /\ UNCHANGED <<sound, standing, shown>>

\* Tokens lose their worth with time or with the process, and requests under
\* way go with their client or with the process.
Lapse ==
    /\ standing' \in [Credit -> Standing]
    /\ \A t \in Credit : \/ standing'[t] = standing[t]
                         \/ standing[t] = "good" /\ standing'[t] = "void"
    /\ outcome' \in [Bearer -> Outcome]
    /\ \A b \in Bearer : \/ outcome'[b] = outcome[b]
                         \/ outcome[b] \in {"open", "admitted"} /\ outcome'[b] = "gone"
    /\ UNCHANGED <<sound, shown>>

AuthorityNext ==
    \/ \E t \in Credit : Issue(t)
    \/ \E b \in Bearer, t \in Credit \cup {NoCredit} : Present(b, t)
    \/ \E b \in Bearer : Judge(b)
    \/ Lapse

AuthoritySpec == AuthorityInit /\ [][AuthorityNext]_authority_vars

=============================================================================
