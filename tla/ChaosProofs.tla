---------------------------- MODULE ChaosProofs ----------------------------
(***************************************************************************)
(* The chaos layer keeps the inner service's limit and injects the faults  *)
(* it was configured for, for any number of requests and places.           *)
(***************************************************************************)
EXTENDS Chaos, FiniteSetTheorems, TLAPS

\* From the moment it was ready until it ends, and no longer, a request holds a
\* place.
PlaceInv ==
    /\ \A r \in Request :
        stage[r] \in {"ready", "called", "sleeping", "inner"} <=> r \in place
    /\ Cardinality(place) <= Limit

\* FaultsAsConfigured, with what a request that has not ended may still do.
FaultInv ==
    /\ \A r \in Request :
        /\ stage[r] = "called" => ~IsNoop
        /\ stage[r] = "sleeping" => drop_p # "one" /\ r \in slept
        /\ stage[r] # "done" => status[r] = "none"
    /\ FaultsAsConfigured

ChaosInv == TypeOK /\ PlaceInv /\ FaultInv

\* Taking one element in or out keeps the places finite, and their number
\* within one of what it was.
LEMMA PlacesAreFinite ==
    ASSUME place \subseteq Request, NEW r
    PROVE  /\ Cardinality(place) \in Nat
           /\ Cardinality(place \cup {r}) \in Nat
           /\ Cardinality(place \cup {r}) <= Cardinality(place) + 1
           /\ Cardinality(place \ {r}) \in Nat
           /\ Cardinality(place \ {r}) <= Cardinality(place)
<1>1. IsFiniteSet(place)
  BY ChaosAssumption, FS_Subset
<1>2. Cardinality(place) \in Nat
  BY <1>1, FS_CardinalityType
<1>3. /\ IsFiniteSet(place \cup {r})
      /\ Cardinality(place \cup {r}) =
           IF r \in place THEN Cardinality(place) ELSE Cardinality(place) + 1
  BY <1>1, FS_AddElement
<1>4. Cardinality(place \cup {r}) \in Nat
  BY <1>3, FS_CardinalityType
<1>5. /\ IsFiniteSet(place \ {r})
      /\ Cardinality(place \ {r}) =
           IF r \in place THEN Cardinality(place) - 1 ELSE Cardinality(place)
  BY <1>1, FS_RemoveElement
<1>6. Cardinality(place \ {r}) \in Nat
  BY <1>5, FS_CardinalityType
<1> QED  BY <1>2, <1>3, <1>4, <1>5, <1>6

LEMMA ChaosInit == Init => ChaosInv
<1> SUFFICES ASSUME Init PROVE ChaosInv
  OBVIOUS
<1>1. \A t \in EnvText : FromEnv(t) \in Probability
  BY DEF EnvText, FromEnv, Probability
<1>2. TypeOK
  BY <1>1 DEF Init, TypeOK
<1>3. PlaceInv
  BY FS_EmptySet, ChaosAssumption DEF Init, PlaceInv
<1>4. FaultInv
  BY DEF Init, FaultInv, FaultsAsConfigured
<1> QED  BY <1>2, <1>3, <1>4 DEF ChaosInv

\* A request moves on, and keeps or gives back its own place.
LEMMA MoveStep ==
    ASSUME ChaosInv, NEW r \in Request,
           UNCHANGED <<delay_p, drop_p>>,
           \A s \in Request \ {r} : stage'[s] = stage[s],
           \/ /\ place' = place
              /\ stage[r] \in {"ready", "called", "sleeping", "inner"} =>
                     stage'[r] \in {"ready", "called", "sleeping", "inner"}
           \/ /\ place' = place \ {r}
              /\ stage'[r] \notin {"ready", "called", "sleeping", "inner"},
           stage'[r] \in {"called", "sleeping", "inner"} =>
               stage[r] \in {"ready", "called", "sleeping", "inner"},
           stage'[r] # "ready"
    PROVE  PlaceInv'
<1>1. Cardinality(place') <= Cardinality(place) /\ Cardinality(place') \in Nat
  <2>1. place \subseteq Request
    BY DEF ChaosInv, TypeOK
  <2>2. /\ Cardinality(place) \in Nat /\ Cardinality(place \ {r}) \in Nat
        /\ Cardinality(place \ {r}) <= Cardinality(place)
    BY <2>1, PlacesAreFinite
  <2>3. CASE place' = place
    BY <2>2, <2>3
  <2>4. CASE place' = place \ {r}
    BY <2>2, <2>4
  <2> QED  BY <2>3, <2>4
<1>2. Cardinality(place') <= Limit
  <2>1. Cardinality(place) \in Nat /\ Cardinality(place) <= Limit
    BY PlacesAreFinite DEF ChaosInv, PlaceInv, TypeOK
  <2> QED  BY <1>1, <2>1, ChaosAssumption
<1>3. \A s \in Request : stage'[s] \in {"ready", "called", "sleeping", "inner"} <=> s \in place'
  BY DEF ChaosInv, PlaceInv
<1> QED  BY <1>2, <1>3 DEF PlaceInv

LEMMA ChaosStep ==
    ASSUME ChaosInv, [Next]_vars
    PROVE  ChaosInv'
<1> USE DEF Move
<1>0. \A p \in Probability : /\ TRUE \in Draw(p) => p \in {"fraction", "one"}
                             /\ FALSE \in Draw(p) => p # "one"
  BY DEF Probability, Draw
<1>1. ASSUME NEW r \in Request, Arrive(r)
      PROVE  ChaosInv'
  <2>1. PlaceInv'
    BY <1>1, MoveStep DEF Arrive, ChaosInv, TypeOK
  <2> QED  BY <1>1, <2>1 DEF Arrive, ChaosInv, TypeOK, FaultInv, FaultsAsConfigured, IsNoop
<1>2. ASSUME NEW r \in Request, PollReady(r)
      PROVE  ChaosInv'
  <2>0. Cardinality(place) < Limit /\ place' = place \cup {r}
    BY <1>2 DEF PollReady
  <2>1. Cardinality(place') <= Limit
    <3>1. place \subseteq Request
      BY DEF ChaosInv, TypeOK
    <3>2. /\ Cardinality(place) \in Nat /\ Cardinality(place \cup {r}) \in Nat
          /\ Cardinality(place \cup {r}) <= Cardinality(place) + 1
      BY <3>1, PlacesAreFinite
    <3> QED  BY <2>0, <3>2, ChaosAssumption
  <2>2. PlaceInv'
    BY <1>2, <2>1 DEF PollReady, ChaosInv, TypeOK, PlaceInv
  <2> QED  BY <1>2, <2>2 DEF PollReady, ChaosInv, TypeOK, FaultInv, FaultsAsConfigured, IsNoop
<1>3. ASSUME NEW r \in Request, Call(r)
      PROVE  ChaosInv'
  <2>1. PlaceInv'
    BY <1>3, MoveStep DEF Call, PlacesAfterCall, ChaosInv, TypeOK
  <2>2. IsNoop' <=> IsNoop
    BY <1>3 DEF Call, IsNoop
  <2>3. CASE IsNoop
    BY <1>3, <2>1, <2>2, <2>3 DEF Call, PlacesAfterCall, IsNoop, ChaosInv, TypeOK, FaultInv,
                                  FaultsAsConfigured
  <2>4. CASE ~IsNoop
    BY <1>3, <2>1, <2>2, <2>4 DEF Call, PlacesAfterCall, ChaosInv, TypeOK, FaultInv,
                                  FaultsAsConfigured
  <2> QED  BY <2>3, <2>4
<1>4. ASSUME NEW r \in Request, DropFault(r)
      PROVE  ChaosInv'
  <2>1. PlaceInv'
    BY <1>4, MoveStep DEF DropFault, PlacesAfterDrop, ChaosInv, TypeOK
  <2>2. drop_p \in {"fraction", "one"}
    BY <1>0, <1>4 DEF DropFault, ChaosInv, TypeOK
  <2> QED  BY <1>4, <2>1, <2>2 DEF DropFault, PlacesAfterDrop, ChaosInv, TypeOK, FaultInv,
                                  FaultsAsConfigured, IsNoop
<1>5. ASSUME NEW r \in Request, DelayFault(r)
      PROVE  ChaosInv'
  <2>1. PlaceInv'
    BY <1>5, MoveStep DEF DelayFault, ChaosInv, TypeOK
  <2>2. delay_p \in {"fraction", "one"} /\ drop_p # "one"
    BY <1>0, <1>5 DEF DelayFault, ChaosInv, TypeOK
  <2> QED  BY <1>5, <2>1, <2>2 DEF DelayFault, ChaosInv, TypeOK, FaultInv,
                                  FaultsAsConfigured, IsNoop
<1>6. ASSUME NEW r \in Request, NoFault(r)
      PROVE  ChaosInv'
  <2>1. PlaceInv'
    BY <1>6, MoveStep DEF NoFault, ChaosInv, TypeOK
  <2>2. delay_p # "one" /\ drop_p # "one"
    BY <1>0, <1>6 DEF NoFault, ChaosInv, TypeOK
  <2> QED  BY <1>6, <2>1, <2>2 DEF NoFault, ChaosInv, TypeOK, FaultInv,
                                  FaultsAsConfigured, IsNoop
<1>7. ASSUME NEW r \in Request, Wake(r)
      PROVE  ChaosInv'
  <2>1. PlaceInv'
    BY <1>7, MoveStep DEF Wake, ChaosInv, TypeOK
  <2> QED  BY <1>7, <2>1 DEF Wake, ChaosInv, TypeOK, FaultInv, FaultsAsConfigured, IsNoop
<1>8. ASSUME NEW r \in Request, InnerAnswers(r)
      PROVE  ChaosInv'
  <2>1. PlaceInv'
    BY <1>8, MoveStep DEF InnerAnswers, ChaosInv, TypeOK
  <2> QED  BY <1>8, <2>1 DEF InnerAnswers, ChaosInv, TypeOK, FaultInv, FaultsAsConfigured,
                             IsNoop
<1>9. ASSUME NEW r \in Request, Cancel(r)
      PROVE  ChaosInv'
  <2>1. PlaceInv'
    BY <1>9, MoveStep DEF Cancel, ChaosInv, TypeOK
  <2> QED  BY <1>9, <2>1 DEF Cancel, ChaosInv, TypeOK, FaultInv, FaultsAsConfigured, IsNoop
<1>10. CASE UNCHANGED vars
  BY <1>10 DEF vars, ChaosInv, TypeOK, PlaceInv, FaultInv, FaultsAsConfigured, IsNoop
<1> QED
  BY <1>1, <1>2, <1>3, <1>4, <1>5, <1>6, <1>7, <1>8, <1>9, <1>10 DEF Next, Progress

\* Whatever faults are drawn and whoever goes away, the inner service holds at
\* most Limit requests, and only configured faults are injected (chaos.rs:
\* ChaosMiddleware::call, ChaosConfig::from_env).
THEOREM ChaosIsSafe == Spec => [](TypeOK /\ InnerLimitKept /\ FaultsAsConfigured)
<1>1. Init => ChaosInv
  BY ChaosInit
<1>2. ChaosInv /\ [Next]_vars => ChaosInv'
  BY ChaosStep
<1>3. ASSUME ChaosInv
      PROVE  TypeOK /\ InnerLimitKept /\ FaultsAsConfigured
  <2> DEFINE inside == {r \in Request : stage[r] = "inner"}
  <2>1. inside \subseteq place /\ IsFiniteSet(place) /\ Cardinality(place) \in Nat
    BY <1>3, ChaosAssumption, FS_Subset, FS_CardinalityType DEF ChaosInv, PlaceInv, TypeOK
  <2>2. Cardinality(inside) <= Cardinality(place) /\ Cardinality(inside) \in Nat
    BY <2>1, FS_Subset, FS_CardinalityType
  <2>3. Cardinality(inside) <= Limit
    BY <1>3, <2>1, <2>2, ChaosAssumption DEF ChaosInv, PlaceInv
  <2> QED  BY <1>3, <2>3 DEF ChaosInv, FaultInv, InnerLimitKept
<1> QED  BY <1>1, <1>2, <1>3, PTL DEF Spec

-----------------------------------------------------------------------------
(* The layer implements TowerContract *)

InstanceBar == [r \in Request |-> InstanceOf(r)]

\* With PlaceInv an instance is in one of the contract's four states, and those
\* that hold a place in it are those in place.
LEMMA InstanceCases ==
    ASSUME ChaosInv, NEW r \in Request
    PROVE  /\ InstanceOf(r) = "fresh" <=> stage[r] \in {"new", "waiting"}
           /\ InstanceOf(r) = "reserved" <=> stage[r] \in {"ready", "called", "sleeping"}
           /\ InstanceOf(r) = "running" <=> stage[r] = "inner"
           /\ InstanceOf(r) = "gone" <=> stage[r] \in {"done", "cancelled"}
           /\ InstanceOf(r) \in {"reserved", "running"} <=> r \in place
           /\ InstanceOf(r) \in {"fresh", "reserved", "running", "gone"}
<1>1. /\ stage[r] \in {"new", "waiting", "ready", "called", "sleeping", "inner", "done",
                       "cancelled"}
      /\ stage[r] \in {"ready", "called", "sleeping", "inner"} <=> r \in place
  BY DEF ChaosInv, TypeOK, PlaceInv
<1> QED  BY <1>1 DEF InstanceOf

\* The instance of a module brings its own name for the same operator.
LEMMA TowerCounts ==
    ASSUME NEW S
    PROVE  Tower!Cardinality(S) = Cardinality(S)
  BY DEF Tower!Cardinality, Cardinality

LEMMA TowerStep ==
    ASSUME ChaosInv, ChaosInv', [Next]_vars
    PROVE  Tower!TowerNext \/ InstanceBar' = InstanceBar
<1>0. \A r \in Request : /\ InstanceBar[r] = InstanceOf(r)
                         /\ InstanceBar'[r] = InstanceOf(r)'
  BY DEF InstanceBar
<1>1. ASSUME NEW r \in Request, \A s \in Request \ {r} : stage'[s] = stage[s]
      PROVE  \A s \in Request \ {r} : InstanceOf(s)' = InstanceOf(s)
  BY <1>1, InstanceCases DEF ChaosInv, PlaceInv, InstanceOf
<1>2. ASSUME NEW r \in Request, NEW from, NEW to, Move(r, from, to)
      PROVE  /\ stage[r] = from /\ stage'[r] = to
             /\ \A s \in Request \ {r} : stage'[s] = stage[s]
  BY <1>2 DEF Move, ChaosInv, TypeOK
<1>3. ASSUME NEW r \in Request, NEW to,
             \A s \in Request \ {r} : stage'[s] = stage[s],
             InstanceOf(r)' = to
      PROVE  InstanceBar' = [InstanceBar EXCEPT ![r] = to]
  BY <1>1, <1>3 DEF InstanceBar
<1>4. ASSUME NEW r \in Request,
             \A s \in Request \ {r} : stage'[s] = stage[s],
             InstanceOf(r)' = InstanceOf(r)
      PROVE  InstanceBar' = InstanceBar
  BY <1>1, <1>4 DEF InstanceBar
<1>5. ASSUME NEW r \in Request, Arrive(r) \/ DelayFault(r)
      PROVE  InstanceBar' = InstanceBar
  <2>1. /\ \A s \in Request \ {r} : stage'[s] = stage[s]
        /\ \/ stage[r] = "new" /\ stage'[r] = "waiting"
           \/ stage[r] = "called" /\ stage'[r] = "sleeping"
    BY <1>2, <1>5 DEF Arrive, DelayFault
  <2>2. InstanceOf(r)' = InstanceOf(r)
    <3>1. CASE stage[r] = "new"
      BY <2>1, <3>1, InstanceCases DEF ChaosInv, PlaceInv, InstanceOf
    <3>2. CASE stage[r] = "called"
      BY <2>1, <3>2, InstanceCases DEF ChaosInv, PlaceInv, InstanceOf
    <3> QED  BY <2>1, <3>1, <3>2
  <2> QED  BY <1>4, <2>1, <2>2
<1>6. ASSUME NEW r \in Request, PollReady(r)
      PROVE  Tower!Reserve(r)
  <2>1. /\ stage[r] = "waiting" /\ stage'[r] = "ready" /\ Cardinality(place) < Limit
        /\ \A s \in Request \ {r} : stage'[s] = stage[s]
    BY <1>2, <1>6 DEF PollReady
  <2>2. InstanceOf(r)' = "reserved" /\ InstanceOf(r) = "fresh"
    BY <2>1 DEF ChaosInv, PlaceInv, InstanceOf
  <2>3. {s \in Request : InstanceBar[s] \in {"reserved", "running"}} = place
    BY <1>0, InstanceCases DEF ChaosInv, TypeOK
  <2>4. InstanceBar' = [InstanceBar EXCEPT ![r] = "reserved"]
    BY <1>3, <2>1, <2>2
  <2> QED  BY <1>0, <2>1, <2>2, <2>3, <2>4, TowerCounts DEF Tower!Reserve, Tower!Held, InstanceBar
<1>7. ASSUME NEW r \in Request, Call(r)
      PROVE  Tower!Start(r) \/ InstanceBar' = InstanceBar
  <2>1. /\ stage[r] = "ready" /\ stage'[r] \in {"inner", "called"}
        /\ \A s \in Request \ {r} : stage'[s] = stage[s]
    BY <1>2, <1>7 DEF Call
  <2>2. InstanceOf(r) = "reserved"
    BY <2>1 DEF ChaosInv, PlaceInv, InstanceOf
  <2>3. CASE stage'[r] = "called"
    <3>1. InstanceOf(r)' = "reserved"
      BY <2>3 DEF ChaosInv, PlaceInv, InstanceOf
    <3> QED  BY <1>4, <2>1, <2>2, <3>1
  <2>4. CASE stage'[r] = "inner"
    <3>1. InstanceOf(r)' = "running"
      BY <2>4 DEF ChaosInv, PlaceInv, InstanceOf
    <3>2. InstanceBar' = [InstanceBar EXCEPT ![r] = "running"]
      BY <1>3, <2>1, <3>1
    <3> QED  BY <1>0, <2>2, <3>2 DEF Tower!Start, InstanceBar
  <2> QED  BY <2>1, <2>3, <2>4
<1>8. ASSUME NEW r \in Request, NoFault(r) \/ Wake(r)
      PROVE  Tower!Start(r)
  <2>1. /\ stage[r] \in {"called", "sleeping"} /\ stage'[r] = "inner"
        /\ \A s \in Request \ {r} : stage'[s] = stage[s]
    BY <1>2, <1>8 DEF NoFault, Wake
  <2>2. InstanceOf(r) = "reserved" /\ InstanceOf(r)' = "running"
    BY <2>1 DEF ChaosInv, PlaceInv, InstanceOf
  <2>3. InstanceBar' = [InstanceBar EXCEPT ![r] = "running"]
    BY <1>3, <2>1, <2>2
  <2> QED  BY <1>0, <2>2, <2>3 DEF Tower!Start, InstanceBar
<1>9. ASSUME NEW r \in Request, DropFault(r) \/ InnerAnswers(r) \/ Cancel(r)
      PROVE  Tower!Release(r)
  <2>1. /\ stage[r] \notin {"done", "cancelled"} /\ stage'[r] \in {"done", "cancelled"}
        /\ \A s \in Request \ {r} : stage'[s] = stage[s]
    <3>1. CASE DropFault(r)
      <4>1. Move(r, "called", "done")
        BY <3>1 DEF DropFault
      <4> QED  BY <1>2, <4>1
    <3>2. CASE InnerAnswers(r)
      <4>1. Move(r, "inner", "done")
        BY <3>2 DEF InnerAnswers
      <4> QED  BY <1>2, <4>1
    <3>3. CASE Cancel(r)
      BY <3>3 DEF Cancel, ChaosInv, TypeOK
    <3> QED  BY <1>9, <3>1, <3>2, <3>3
  <2>2. InstanceOf(r) # "gone" /\ InstanceOf(r)' = "gone"
    <3>1. InstanceOf(r) # "gone"
      BY <2>1, InstanceCases
    <3>2. InstanceOf(r)' = "gone"
      BY <2>1 DEF ChaosInv, PlaceInv, InstanceOf
    <3> QED  BY <3>1, <3>2
  <2>3. InstanceBar' = [InstanceBar EXCEPT ![r] = "gone"]
    BY <1>3, <2>1, <2>2
  <2> QED  BY <1>0, <2>2, <2>3 DEF Tower!Release, InstanceBar
<1>10. CASE UNCHANGED vars
  BY <1>10 DEF vars, InstanceBar, InstanceOf
<1> QED
  BY <1>5, <1>6, <1>7, <1>8, <1>9, <1>10 DEF Next, Progress, Tower!TowerNext

\* The layer keeps Tower's contract for any number of requests and places: an
\* instance is called once, with the place it was found ready with, and gives
\* the place back however its request ends (chaos.rs: poll_ready, call).
THEOREM ChaosImplementsTower == Spec => ContractKept
<1>1. Init => Tower!TowerInit
  BY DEF Init, Tower!TowerInit, InstanceOf
<1>2. Init => ChaosInv
  BY ChaosInit
<1>3. ChaosInv /\ [Next]_vars => ChaosInv'
  BY ChaosStep
<1>4. ChaosInv /\ ChaosInv' /\ [Next]_vars =>
        [Tower!TowerNext]_([r \in Request |-> InstanceOf(r)])
  BY TowerStep DEF InstanceBar
<1> QED  BY <1>1, <1>2, <1>3, <1>4, PTL DEF Spec, ContractKept, Tower!TowerSpec

=============================================================================
