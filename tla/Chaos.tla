------------------------------- MODULE Chaos -------------------------------
(***************************************************************************)
(* The fault-injecting Tower layer of shared/src/chaos.rs around an inner  *)
(* service that admits Limit requests at a time.  (No binary installs the  *)
(* layer at this commit: the module is about the layer by itself.)         *)
(*                                                                         *)
(* Tower's contract: poll_ready() on an instance of the inner service may  *)
(* reserve a place in it, call() on that same instance uses the place, and *)
(* a clone of the instance has none.  Axum gives each request an instance  *)
(* of its own and drops it once called.  A request goes                    *)
(*                                                                         *)
(*   new -> waiting -> ready -> called -> sleeping -> inner -> done        *)
(*                                                                         *)
(* with sleeping left out unless a delay is drawn, inner left out when a   *)
(* drop is drawn, and called left out when no probability is set.          *)
(***************************************************************************)
EXTENDS Integers, FiniteSets

CONSTANTS
    Request,    \* requests through the layer
    Limit       \* places in the inner service

ASSUME ChaosAssumption ==
    /\ IsFiniteSet(Request)
    /\ Limit \in Nat \ {0}

\* What CHAOS_DELAY_P or CHAOS_DROP_P may hold.
EnvText == {"unset", "no number", "negative", "zero", "fraction", "one", "large", "NaN"}

Probability == {"zero", "fraction", "one", "NaN"}

VARIABLES
    delay_p,    \* ChaosConfig.delay_p
    drop_p,     \* ChaosConfig.drop_p
    stage,      \* where each request is
    place,      \* requests whose instance holds a place in the inner service
    slept,      \* history: requests that were delayed
    status      \* "none", "inner" for the inner service's answer, "dropped"

vars == <<delay_p, drop_p, stage, place, slept, status>>

TypeOK ==
    /\ delay_p \in Probability /\ drop_p \in Probability
    /\ stage \in [Request -> {"new", "waiting", "ready", "called", "sleeping",
                              "inner", "done", "cancelled"}]
    /\ place \subseteq Request /\ slept \subseteq Request
    /\ status \in [Request -> {"none", "inner", "dropped"}]

\* Mutant: a value outside the interval is taken as it is.
FromEnvUnclamped(text) ==
    IF text \in {"unset", "no number"} THEN "zero" ELSE text

\* from_env(): parse, default to zero, clamp (which keeps a NaN).
FromEnv(text) ==
    CASE text \in {"unset", "no number", "negative", "zero"} -> "zero"
      [] text \in {"one", "large"} -> "one"
      [] OTHER -> text

Init ==
    /\ \E t \in EnvText : delay_p = FromEnv(t)
    /\ \E t \in EnvText : drop_p = FromEnv(t)
    /\ stage = [r \in Request |-> "new"]
    /\ place = {} /\ slept = {}
    /\ status = [r \in Request |-> "none"]

IsNoop == delay_p = "zero" /\ drop_p = "zero"

\* Mutant: the draw is compared with <=, and 0.0 may be drawn.
DrawInclusive(p) ==
    CASE p = "NaN" -> {FALSE}
      [] p = "one" -> {TRUE}
      [] OTHER -> BOOLEAN

\* What rng.gen::<f64>() < p can be, for a draw from [0, 1).
Draw(p) ==
    CASE p \in {"zero", "NaN"} -> {FALSE}
      [] p = "one" -> {TRUE}
      [] OTHER -> BOOLEAN

Move(r, from, to) ==
    /\ stage[r] = from
    /\ stage' = [stage EXCEPT ![r] = to]
    /\ UNCHANGED <<delay_p, drop_p>>

\* A request arrives and asks its instance whether it is ready.
Arrive(r) ==
    /\ Move(r, "new", "waiting")
    /\ UNCHANGED <<place, slept, status>>

\* poll_ready() passes the question on, and the inner service has a place.
PollReady(r) ==
    /\ Cardinality(place) < Limit
    /\ Move(r, "waiting", "ready")
    /\ place' = place \cup {r}
    /\ UNCHANGED <<slept, status>>

\* Mutant: without the swap it is the clone that goes into the future, and the
\* instance that was ready is dropped with its place.
PlacesAfterCallNoSwap(r) == place \ {r}

\* The clone stays in the middleware; the instance that was ready goes into the
\* future with the place it holds.
PlacesAfterCall(r) == place

\* call(): the inner service at once when no fault is configured.
Call(r) ==
    /\ Move(r, "ready", IF IsNoop THEN "inner" ELSE "called")
    /\ place' = PlacesAfterCall(r)
    /\ UNCHANGED <<slept, status>>

\* Mutant: the answer of the drop fault keeps the unused instance alive.
PlacesAfterDropKept(r) == place

PlacesAfterDrop(r) == place \ {r}

\* The future draws a drop: it answers 503, and its instance goes unused.
DropFault(r) ==
    /\ TRUE \in Draw(drop_p)
    /\ Move(r, "called", "done")
    /\ place' = PlacesAfterDrop(r)
    /\ status' = [status EXCEPT ![r] = "dropped"]
    /\ UNCHANGED slept

\* It draws a delay and no drop.
DelayFault(r) ==
    /\ FALSE \in Draw(drop_p) /\ TRUE \in Draw(delay_p)
    /\ Move(r, "called", "sleeping")
    /\ slept' = slept \cup {r}
    /\ UNCHANGED <<place, status>>

\* It draws neither and calls the inner service.
NoFault(r) ==
    /\ FALSE \in Draw(drop_p) /\ FALSE \in Draw(delay_p)
    /\ Move(r, "called", "inner")
    /\ UNCHANGED <<place, slept, status>>

\* The sleep is over.
Wake(r) ==
    /\ Move(r, "sleeping", "inner")
    /\ UNCHANGED <<place, slept, status>>

InnerAnswers(r) ==
    /\ Move(r, "inner", "done")
    /\ place' = place \ {r}
    /\ status' = [status EXCEPT ![r] = "inner"]
    /\ UNCHANGED slept

\* The client goes away; whatever holds the place is dropped.
Cancel(r) ==
    /\ stage[r] \in {"waiting", "ready", "called", "sleeping", "inner"}
    /\ stage' = [stage EXCEPT ![r] = "cancelled"]
    /\ place' = place \ {r}
    /\ UNCHANGED <<delay_p, drop_p, slept, status>>

\* What the layer and the service inside it do by themselves.
Progress(r) ==
    \/ Call(r) \/ DropFault(r) \/ DelayFault(r) \/ NoFault(r) \/ Wake(r)
    \/ InnerAnswers(r)

Next == \E r \in Request : Arrive(r) \/ PollReady(r) \/ Progress(r) \/ Cancel(r)

Spec == Init /\ [][Next]_vars

\* tokio polls the futures and fires timers, the inner service answers, and its
\* queue for places is fair.
FairSpec == Spec /\ \A r \in Request : WF_vars(Progress(r)) /\ SF_vars(PollReady(r))

-----------------------------------------------------------------------------
\* Swapping clone and original keeps the readiness that poll_ready() reserved
\* with the instance that is called: the inner service is never called on an
\* instance without a place, so faults and delays never let more requests into
\* it than it admits.
InnerLimitKept == Cardinality({r \in Request : stage[r] = "inner"}) <= Limit

\* "a no-op unless the CHAOS_DELAY_P or CHAOS_DROP_P environment variables are
\* set to non-zero values" (chaos.rs:5), at both ends of the interval and for
\* values outside it: without a probability nothing is dropped or delayed, with
\* a drop probability of one nothing reaches the inner service.
FaultsAsConfigured ==
    \A r \in Request :
        /\ status[r] = "dropped" => drop_p \in {"fraction", "one"}
        /\ r \in slept => delay_p \in {"fraction", "one"}
        /\ stage[r] = "inner" => drop_p # "one"
        /\ stage[r] = "inner" /\ delay_p = "one" => r \in slept

\* Dropped, delayed and cancelled requests give their places back: every
\* request that asks for one is served or cancelled.
RequestsEnd == \A r \in Request : stage[r] = "waiting" ~> stage[r] \in {"done", "cancelled"}

(* Refinement *)

InstanceOf(r) ==
    IF r \in place
    THEN IF stage[r] = "inner" THEN "running"
         ELSE IF stage[r] \in {"ready", "called", "sleeping"} THEN "reserved"
         ELSE "leaked"
    ELSE IF stage[r] \in {"new", "waiting"} THEN "fresh"
         ELSE IF stage[r] \in {"done", "cancelled"} THEN "gone"
         ELSE "unready"

Tower == INSTANCE TowerContract
    WITH Instance <- Request, Capacity <- Limit,
         instance <- [r \in Request |-> InstanceOf(r)]

\* "We need to call the *original* inner, not the clone, for poll_ready
\* correctness" (chaos.rs:148): with faults, delays and clients that go away the
\* layer keeps Tower's contract with the service inside it, no instance is
\* called without the place poll_ready() gave it, and no place outlives its
\* request.
ContractKept == Tower!TowerSpec

=============================================================================
