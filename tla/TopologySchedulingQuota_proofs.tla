------------------- MODULE TopologySchedulingQuota_proofs ---------------------
(***************************************************************************)
(* The scheduler with its plugin implements PlacementQuota, for every set  *)
(* of pods, nodes and policies: initial states map to initial states and   *)
(* every step to a step or a stutter; and so with preemption.              *)
(***************************************************************************)
EXTENDS TopologySchedulingQuota, Preemption_proofs

-------------------------------------------------------------------------------
(* What resting nodes and a resting policy add to the invariant. *)

(* A snapshot that anyone still reads shows the nodes as they are. *)
SnapshotRests == InCycle \/ (\E p \in Pods : InBinding(p)) => snapNodes = nodes

(* A cycle under the watched policy has its constraint. *)
WatchedState ==
  HasState /\ PolicyOf[pod] = Watched =>
    state.Constraint = [TopologyKey |-> WatchedKey, SchedulePolicy |-> WatchedQuota,
                        Selector |-> WatchedPods]

FeasibleAccepted == phase # "idle" => feasible \subseteq OtherFilters[pod]

RestInv == IInv /\ FeasibleJustified /\ SnapshotRests /\ WatchedState /\ FeasibleAccepted

(* With one version each, node objects never change, nor does the policy. *)
LEMMA NodesNeverChange ==
  ASSUME IInv, IInv'
  PROVE  nodes' = nodes /\ policies[Watched] = WatchedSpec
<1>1. \A n \in Nodes : nodes[n] \in NodeVersions[n] /\ nodes'[n] \in NodeVersions[n]
  BY DEF IInv, VersionsOK
<1>2. \A n \in Nodes : nodes'[n] = nodes[n]
  BY <1>1, NodesRest
<1>3. nodes' = nodes
  BY <1>2 DEF IInv, TypeOK
<1> QED  BY <1>3, WatchedAssumption DEF IInv, VersionsOK

(* A node that rests is there, with its labels. *)
LEMMA NodesExist ==
  ASSUME IInv, NEW n \in Nodes
  PROVE  nodes[n] # Nil /\ nodes[n] \in Labels
<1>1. PICK labels \in Labels : NodeVersions[n] = {labels}
  BY NodesRest
<1>2. nodes[n] = labels
  BY <1>1 DEF IInv, VersionsOK
<1> QED  BY <1>2, NilAssumption

(* What the assumptions say of the watched policy. *)
LEMMA WatchedTyped ==
  /\ WatchedKey \in Keys /\ WatchedPods \in SUBSET Pods
  /\ DOMAIN WatchedQuota \subseteq Values
  /\ \A v \in DOMAIN WatchedQuota : WatchedQuota[v] \in Int
<1>1. /\ WatchedKey \in Keys /\ WatchedPods \in SUBSET Pods
      /\ WatchedSpec.deployPlacement \in Seq([name : Values, replicas : Int])
  BY WatchedAssumption DEF WatchedKey, WatchedPods, PolicySpecs, Entries
<1> QED  BY <1>1, CovertPolicyType DEF WatchedQuota

(* Steps that leave the mapped variables alone. *)
LEMMA MappedRests ==
  ASSUME UNCHANGED <<nodes, podNode, terminating, snapVars>>, InCycle' = InCycle
  PROVE  UNCHANGED <<WatchedPlace, WatchedLeaving, SurplusOpen>>
BY DEF WatchedPlace, WatchedLeaving, SurplusOpen, PlaceOf, Holds, InCycle, snapVars

(* The abstract specification's own copy of the library operator. *)
LEMMA SameCardinality == \A S : Abstract!Cardinality(S) = Cardinality(S)
BY DEF Abstract!Cardinality, Cardinality, Abstract!IsFiniteSet, IsFiniteSet

(* The cache holds in a value what the abstract tally counts there. *)
LEMMA TallyCounts ==
  ASSUME IInv, NEW v \in Values
  PROVE  /\ Abstract!Tally(v) =
              Cardinality({p \in WatchedPods : podNode[p] # Nil /\ p \notin terminating
                                               /\ nodes[podNode[p]][WatchedKey] = v})
         /\ Abstract!Tally(v) \in Nat
<1> DEFINE here == {p \in WatchedPods : podNode[p] # Nil /\ p \notin terminating
                                        /\ nodes[podNode[p]][WatchedKey] = v}
           tallied == {p \in WatchedPods \ WatchedLeaving : WatchedPlace[p] = v}
<1>1. tallied = here
  BY NilAssumption DEF WatchedPlace, WatchedLeaving, PlaceOf
<1>2. IsFiniteSet(here)
  <2>1. here \in SUBSET Pods
    BY WatchedTyped
  <2> QED  BY <2>1, FiniteAssumption, FS_Subset
<1>3. Abstract!Tally(v) = Cardinality(tallied)
  BY SameCardinality DEF Abstract!Tally
<1>4. Cardinality(here) \in Nat
  <2> HIDE DEF here
  <2> QED  BY <1>2, FS_CardinalityType
<1> HIDE DEF tallied
<1> QED  BY <1>1, <1>3, <1>4

(* A fresh snapshot shows exactly what the cache holds. *)
LEMMA StartCycleLooks ==
  ASSUME IInv, NEW p \in Pods, StartCycle(p)
  PROVE  Abstract!Look
<1>1. UNCHANGED <<WatchedPlace, WatchedLeaving>>
  BY DEF StartCycle, WatchedPlace, WatchedLeaving, PlaceOf, podVars, worldVars
<1>2. ASSUME NEW v \in Values
      PROVE  Holds(WatchedPods, WatchedKey, v)' =
               {q \in WatchedPods : podNode[q] # Nil /\ q \notin terminating
                                    /\ nodes[podNode[q]][WatchedKey] = v}
  <2>1. \A q \in WatchedPods : podNode[q] # Nil => nodes[podNode[q]] # Nil
    BY NodesExist, WatchedTyped DEF IInv, TypeOK
  <2> QED  BY <2>1 DEF StartCycle, Holds
<1>3. \A v \in DOMAIN WatchedQuota :
        Cardinality(Holds(WatchedPods, WatchedKey, v)') = Abstract!Tally(v)
  BY <1>2, TallyCounts, WatchedTyped
<1>4. SurplusOpen' = Abstract!AllMet
  BY <1>3 DEF StartCycle, SurplusOpen, Abstract!AllMet
<1> QED  BY <1>1, <1>4 DEF Abstract!Look

(* A cycle that fails takes the surplus with it. *)
LEMMA FailCycleGivesUp ==
  ASSUME FailCycle
  PROVE  Abstract!GiveUp
BY DEF FailCycle, EndCycle, Abstract!GiveUp, SurplusOpen, WatchedPlace, WatchedLeaving, PlaceOf,
       podVars, worldVars

(* A governed pod goes where the snapshot was short, and the cache holds   *)
(* no more than the snapshot did; or the snapshot had every quota met.     *)
LEMMA ReservePlaces ==
  ASSUME RestInv, RestInv', Reserve
  PROVE  \/ Abstract!GiveUp
         \/ \E p \in GovernedPods, v \in Values : Abstract!PlaceGoverned(p, v)
         \/ \E p \in WatchedPods \ GovernedPods, v \in Values : Abstract!PlaceFree(p, v)
<1> DEFINE value == nodes[host][WatchedKey]
<1>1. /\ pod \in Pods /\ status[pod] = "pending" /\ podNode[pod] = Nil
      /\ host \in Nodes /\ host \in feasible
      /\ IInv /\ IInv' /\ phase = "reserve"
  BY DEF RestInv, IInv, ControlOK, TypeOK, InCycle, HoldsPlace, Reserve
<1>2. /\ podNode' = [podNode EXCEPT ![pod] = host] /\ nodes' = nodes
      /\ terminating' = terminating /\ pod \notin terminating /\ SurplusOpen' = FALSE
  BY <1>1 DEF Reserve, EndCycle, worldVars, SurplusOpen, IInv, ControlOK
<1>3. WatchedLeaving' = WatchedLeaving
  BY <1>1, <1>2, WatchedTyped DEF WatchedLeaving, PlaceOf, IInv, TypeOK
<1>4. \A p \in WatchedPods : PlaceOf(p)' = IF p = pod THEN value ELSE PlaceOf(p)
  BY <1>1, <1>2, NilAssumption, WatchedTyped DEF PlaceOf, IInv, TypeOK
<1>5. value \in Values \cup {Nil}
  BY <1>1, NodesExist, WatchedTyped DEF Labels
<1>6. CASE pod \notin WatchedPods \/ value = Nil
  <2>1. WatchedPlace' = WatchedPlace
    BY <1>1, <1>4, <1>6 DEF WatchedPlace, PlaceOf
  <2> QED  BY <1>2, <1>3, <2>1 DEF Abstract!GiveUp
<1>7. CASE pod \in WatchedPods /\ value # Nil
  <2>1. WatchedPlace' = [WatchedPlace EXCEPT ![pod] = value] /\ WatchedPlace[pod] = Nil
    BY <1>1, <1>4, <1>7 DEF WatchedPlace, PlaceOf
  <2>2. CASE PolicyOf[pod] # Watched
    BY <1>2, <1>3, <1>5, <1>7, <2>1, <2>2 DEF Abstract!PlaceFree, GovernedPods
  <2>3. CASE PolicyOf[pod] = Watched
    <3>1. podRequireTopologyScheduling(pod) /\ HasState /\ InCycle
      BY <1>1, <2>3, WatchedAssumption, NilAssumption
      DEF podRequireTopologyScheduling, HasState, InCycle
    <3>2. Justified(host) /\ snapNodes = nodes
      <4>1. host \in NodeSelector[pod]
        BY <1>1, ProfileAssumption DEF RestInv, FeasibleAccepted, SelectorEnforced
      <4> QED  BY <1>1, <2>3, <3>1, <4>1, WatchedAssumption
               DEF RestInv, FeasibleJustified, SnapshotRests, KeyKept
    <3>3. /\ state.Constraint.TopologyKey = WatchedKey
          /\ state.Constraint.Selector = WatchedPods
          /\ state.Constraint.SchedulePolicy = WatchedQuota
      BY <2>3, <3>1 DEF RestInv, WatchedState
    <3> DEFINE held(v) == Cardinality(Holds(WatchedPods, WatchedKey, v))
    <3>4. \/ value \in DOMAIN WatchedQuota /\ held(value) < WatchedQuota[value]
          \/ \A v \in DOMAIN WatchedQuota : ~ (held(v) < WatchedQuota[v])
      BY <3>2, <3>3 DEF Justified
    <3>5. ASSUME NEW v \in Values
          PROVE  held(v) \in Nat /\ Abstract!Tally(v) <= held(v)
      <4> DEFINE here == {p \in WatchedPods : podNode[p] # Nil /\ p \notin terminating
                                              /\ nodes[podNode[p]][WatchedKey] = v}
                 there == Holds(WatchedPods, WatchedKey, v)
      <4>1. \A p \in here : snapPlace[p] = podNode[p] /\ p \notin snapTerm /\ nodes[podNode[p]] # Nil
        BY <1>1, <3>1, WatchedTyped, NodesExist DEF IInv, TypeOK, SnapshotCoversCache, InCycle
      <4>2. here \in SUBSET there
        BY <3>2, <4>1 DEF Holds
      <4>3. IsFiniteSet(there)
        <5>1. there \in SUBSET Pods
          BY WatchedTyped DEF Holds
        <5> QED  BY <5>1, FiniteAssumption, FS_Subset
      <4>4. Abstract!Tally(v) = Cardinality(here)
        BY <1>1, TallyCounts
      <4> HIDE DEF here, there
      <4>5. Cardinality(here) <= Cardinality(there) /\ Cardinality(there) \in Nat
        BY <4>2, <4>3, FS_Subset, FS_CardinalityType
      <4> QED  BY <4>4, <4>5 DEF there
    <3>6. Abstract!Room(value) \/ SurplusOpen
      <4>1. CASE value \in DOMAIN WatchedQuota /\ held(value) < WatchedQuota[value]
        <5>1. value \in Values /\ WatchedQuota[value] \in Int
          BY <4>1, WatchedTyped
        <5>2. Abstract!Tally(value) \in Nat /\ Abstract!Tally(value) <= held(value)
              /\ held(value) \in Nat
          BY <1>1, <3>5, <5>1, TallyCounts
        <5> HIDE DEF value, held
        <5> QED  BY <4>1, <5>1, <5>2 DEF Abstract!Room
      <4>2. CASE \A v \in DOMAIN WatchedQuota : ~ (held(v) < WatchedQuota[v])
        <5>1. \A v \in DOMAIN WatchedQuota : held(v) >= WatchedQuota[v]
          <6> HIDE DEF held
          <6> QED  BY <3>5, <4>2, WatchedTyped
        <5> QED  BY <3>1, <5>1 DEF SurplusOpen, InCycle
      <4> QED  BY <3>4, <4>1, <4>2
    <3> QED  BY <1>2, <1>3, <1>5, <1>7, <2>1, <2>3, <3>6 DEF Abstract!PlaceGoverned, GovernedPods
  <2> QED  BY <2>2, <2>3
<1> QED  BY <1>6, <1>7

(* A pod whose cache entry goes away is displaced. *)
LEMMA ForgetsDisplace ==
  ASSUME IInv, NEW S \in SUBSET Pods, nodes' = nodes,
         podNode' = [p \in Pods |-> IF p \in S THEN Nil ELSE podNode[p]],
         terminating' = terminating \ S,
         SurplusOpen' \in {FALSE, SurplusOpen}
  PROVE  Abstract!Displace(S \cap WatchedPods)
<1>1. \A p \in WatchedPods : PlaceOf(p)' = IF p \in S THEN Nil ELSE PlaceOf(p)
  BY WatchedTyped DEF PlaceOf
<1>2. WatchedPlace' = [p \in WatchedPods |-> IF p \in S \cap WatchedPods THEN Nil ELSE WatchedPlace[p]]
  BY <1>1 DEF WatchedPlace
<1>3. WatchedLeaving' = WatchedLeaving \ (S \cap WatchedPods)
  BY <1>1 DEF WatchedLeaving
<1> QED  BY <1>2, <1>3 DEF Abstract!Displace

(* A deleted pod leaves the tally if it was placed. *)
LEMMA TerminateLeaves ==
  ASSUME IInv, NEW p \in Pods, TerminatePod(p)
  PROVE  Abstract!QuotaNext \/ UNCHANGED Abstract!quotaVars
<1>1. UNCHANGED <<WatchedPlace, SurplusOpen>>
  BY DEF TerminatePod, WatchedPlace, PlaceOf, SurplusOpen, Holds, worldVars, snapVars, cycleVars
<1>2. WatchedLeaving' = {q \in WatchedPods \cap (terminating \cup {p}) : PlaceOf(q) # Nil}
  BY DEF TerminatePod, WatchedLeaving, PlaceOf, worldVars
<1>3. CASE p \in WatchedPods /\ PlaceOf(p) # Nil
  <2>1. WatchedLeaving' = WatchedLeaving \cup {p} /\ WatchedPlace[p] # Nil
    BY <1>2, <1>3 DEF WatchedLeaving, WatchedPlace
  <2> QED  BY <1>1, <1>3, <2>1 DEF Abstract!Leave, Abstract!QuotaNext
<1>4. CASE ~ (p \in WatchedPods /\ PlaceOf(p) # Nil)
  <2>1. WatchedLeaving' = WatchedLeaving
    BY <1>2, <1>4 DEF WatchedLeaving
  <2> QED  BY <1>1, <2>1 DEF Abstract!quotaVars
<1> QED  BY <1>3, <1>4

(* What nodes that rest and the watched policy keep. *)
LEMMA NextRestInv ==
  ASSUME RestInv, IInv', [Next]_vars
  PROVE  RestInv'
<1> USE DEF RestInv
<1>1. nodes' = nodes /\ policies[Watched] = WatchedSpec
  BY NodesNeverChange
<1>2. FeasibleJustified'
  BY ProfileAssumption, NextFeasibleJustified
<1>3. SnapshotRests'
  <2>1. CASE \E p \in Pods : StartCycle(p)
    BY <2>1, <1>1 DEF StartCycle, SnapshotRests
  <2>2. CASE Restart
    <3>1. ~ InCycle' /\ \A p \in Pods : ~ InBinding(p)'
      BY <2>2 DEF Restart, InCycle, InBinding, IInv, TypeOK, Statuses
    <3> QED  BY <3>1 DEF SnapshotRests
  <2>3. CASE UNCHANGED snapNodes /\ (InCycle' => InCycle)
             /\ \A p \in Pods : InBinding(p)' => InBinding(p) \/ InCycle
    BY <1>1, <2>3 DEF SnapshotRests
  <2>4. CASE Reserve
    BY <2>3, <2>4 DEF Reserve, EndCycle, InCycle, InBinding, IInv, TypeOK
  <2>5. CASE \E p \in Pods : \/ Bind(p) \/ Unreserve(p) \/ UnreservePanics(p) \/ ForgetPod(p)
                             \/ CreatePod(p) \/ TerminatePod(p) \/ DeletePod(p)
    BY <2>3, <2>5 DEF Bind, Unreserve, UnreservePanics, ForgetPod, CreatePod, TerminatePod,
       DeletePod, InCycle, InBinding, snapVars, cycleVars, podVars, IInv, TypeOK, ControlOK
  <2>6. CASE \/ PreFilter \/ PreFilterFails \/ SelectFails \/ ReservePanics
             \/ \E n \in Nodes : Filter(n) \/ FilterFails(n) \/ SelectHost(n)
             \/ Churn \/ UNCHANGED vars
    BY <2>3, <2>6 DEF PreFilter, PreFilterFails, SelectFails, ReservePanics, Filter, FilterFails,
       SelectHost, Churn, UpdateNode, UpdatePolicy, FailCycle, EndCycle, vars, podVars, snapVars,
       cycleVars, InCycle, InBinding
  <2> QED  BY <2>1, <2>2, <2>4, <2>5, <2>6 DEF Next, SchedulingCycle, BindingCycle, PodEvents
<1>4. WatchedState'
  <2>1. CASE PreFilter
    BY <1>1, <2>1 DEF PreFilter, WatchedState, HasState, calculatePreFilterStateCache,
                      WatchedKey, WatchedQuota, WatchedPods
  <2>2. CASE ~ HasState'
    BY <2>2 DEF WatchedState
  <2>3. CASE UNCHANGED <<state, pod>> /\ (HasState' => HasState)
    BY <2>3 DEF WatchedState
  <2>4. CASE \/ \E p \in Pods : StartCycle(p)
             \/ PreFilterFails \/ SelectFails \/ Reserve \/ Restart
             \/ \E n \in Nodes : FilterFails(n)
    BY <2>2, <2>4 DEF StartCycle, PreFilterFails, SelectFails, FilterFails, Reserve, Restart,
                      FailCycle, EndCycle, HasState
  <2>5. CASE \/ \E n \in Nodes : Filter(n) \/ SelectHost(n)
             \/ ReservePanics \/ Churn \/ UNCHANGED vars \/ BindingCycle \/ PodEvents
    BY <2>3, <2>5 DEF Filter, SelectHost, ReservePanics, Churn, UpdateNode, UpdatePolicy,
       BindingCycle, Bind, Unreserve, UnreservePanics, ForgetPod, PodEvents, CreatePod,
       TerminatePod, DeletePod, vars, cycleVars, HasState
  <2> QED  BY <2>1, <2>4, <2>5 DEF Next, SchedulingCycle
<1>5. FeasibleAccepted'
  <2>1. CASE \E n \in Nodes : Filter(n)
    BY <1>1, <2>1 DEF Filter, FeasibleAccepted
  <2>2. CASE PreFilter \/ \E n \in Nodes : SelectHost(n)
    BY <1>1, <2>2 DEF PreFilter, SelectHost, FeasibleAccepted
  <2>3. CASE phase' = "idle" \/ feasible' = {}
    BY <2>3 DEF FeasibleAccepted
  <2>4. CASE UNCHANGED <<phase, feasible, pod>>
    BY <1>1, <2>4 DEF FeasibleAccepted
  <2>5. CASE \E p \in Pods : StartCycle(p)
    BY <1>1, <2>3, <2>5 DEF StartCycle, IInv, ControlOK
  <2> QED
    BY <2>1, <2>2, <2>3, <2>4, <2>5
    DEF Next, SchedulingCycle, BindingCycle, PodEvents, Churn, PreFilterFails, FilterFails,
        SelectFails, FailCycle, EndCycle, Reserve, ReservePanics, Bind, Unreserve,
        UnreservePanics, ForgetPod, CreatePod, TerminatePod, DeletePod, UpdateNode, UpdatePolicy,
        Restart, vars, cycleVars
<1> QED  BY <1>2, <1>3, <1>4, <1>5

(* At the start there is no cycle, no snapshot and no placement to watch.  *)
LEMMA InitRestInv == Init => RestInv
<1>1. Init => FeasibleJustified /\ SnapshotRests /\ WatchedState /\ FeasibleAccepted
  BY DEF Init, FeasibleJustified, SnapshotRests, WatchedState, FeasibleAccepted, HasState, InCycle,
         InBinding
<1> QED  BY <1>1, InitIInv DEF RestInv

(* Nothing is placed at the start. *)
LEMMA InitMaps == Init => Abstract!QuotaInit
<1> SUFFICES ASSUME Init PROVE Abstract!QuotaInit
  OBVIOUS
<1>1. \A p \in WatchedPods : PlaceOf(p) = Nil
  BY WatchedTyped DEF Init, Nowhere, PlaceOf
<1> QED  BY <1>1 DEF Init, Abstract!QuotaInit, WatchedPlace, WatchedLeaving, SurplusOpen

(* Every step maps to a step of the abstract specification or a stutter. *)
LEMMA StepSimulation ==
  ASSUME RestInv, RestInv', [Next]_vars
  PROVE  Abstract!QuotaNext \/ UNCHANGED Abstract!quotaVars
<1>1. nodes' = nodes /\ IInv /\ IInv'
  BY NodesNeverChange DEF RestInv
<1>2. CASE \E p \in Pods : StartCycle(p)
  BY <1>1, <1>2, StartCycleLooks DEF Abstract!QuotaNext
<1>3. CASE \/ PreFilterFails \/ SelectFails \/ \E n \in Nodes : FilterFails(n)
  BY <1>3, FailCycleGivesUp DEF PreFilterFails, SelectFails, FilterFails, Abstract!QuotaNext
<1>4. CASE Reserve
  BY <1>4, ReservePlaces DEF Abstract!QuotaNext
<1>5. ASSUME UNCHANGED <<podNode, terminating, snapVars>>, InCycle' = InCycle
      PROVE  UNCHANGED Abstract!quotaVars
  BY <1>1, <1>5, MappedRests DEF Abstract!quotaVars
<1>6. CASE \/ PreFilter \/ ReservePanics \/ Churn \/ UNCHANGED vars
           \/ \E n \in Nodes : Filter(n) \/ SelectHost(n)
           \/ \E p \in Pods : Bind(p) \/ Unreserve(p) \/ UnreservePanics(p) \/ CreatePod(p)
  BY <1>5, <1>6 DEF PreFilter, ReservePanics, Churn, UpdateNode, UpdatePolicy, Filter, SelectHost,
     Bind, Unreserve, UnreservePanics, CreatePod, vars, podVars, cycleVars, snapVars, InCycle
<1>7. ASSUME NEW p \in Pods, TerminatePod(p)
      PROVE  Abstract!QuotaNext \/ UNCHANGED Abstract!quotaVars
  BY <1>1, <1>7, TerminateLeaves
<1>8. ASSUME NEW S \in SUBSET Pods, Abstract!Displace(S \cap WatchedPods)
      PROVE  Abstract!QuotaNext
  BY <1>8 DEF Abstract!QuotaNext
<1>9. ASSUME NEW p \in Pods, ForgetPod(p) \/ DeletePod(p)
      PROVE  Abstract!QuotaNext
  <2>1. podNode' = [q \in Pods |-> IF q \in {p} THEN Nil ELSE podNode[q]]
    BY <1>1, <1>9 DEF ForgetPod, DeletePod, IInv, TypeOK
  <2>2. terminating' = terminating \ {p}
    BY <1>1, <1>9 DEF ForgetPod, DeletePod, IInv, ControlOK
  <2>3. SurplusOpen' = SurplusOpen
    BY <1>9 DEF ForgetPod, DeletePod, SurplusOpen, Holds, snapVars, cycleVars
  <2> QED  BY <1>1, <1>8, <2>1, <2>2, <2>3, ForgetsDisplace
<1>10. CASE Restart
  <2>1. PICK S \in SUBSET {p \in Pods : status[p] \in {"assumed", "unreserved"}} :
          podNode' = [p \in Pods |-> IF p \in S THEN Nil ELSE podNode[p]]
    BY <1>10 DEF Restart
  <2>2. terminating' = terminating \ S
    BY <1>1, <1>10, <2>1 DEF Restart, IInv, ControlOK
  <2>3. SurplusOpen' = FALSE
    BY <1>10 DEF Restart, SurplusOpen
  <2> QED  BY <1>1, <1>8, <2>1, <2>2, <2>3, ForgetsDisplace
<1> QED
  BY <1>2, <1>3, <1>4, <1>6, <1>7, <1>9, <1>10
  DEF Next, SchedulingCycle, BindingCycle, PodEvents

(* The scheduler's placements under one policy are ones PlacementQuota     *)
(* allows, for any number of pods, nodes and policies around it, whatever  *)
(* cycles, failed bindings, deletions and restarts interleave.             *)
THEOREM SpecImplementsQuota == Spec => ImplementsQuota
<1>1. Init => Abstract!QuotaInit
  BY InitMaps
<1>2. RestInv /\ IInv' /\ [Next]_vars => RestInv'
  BY NextRestInv
<1>3. RestInv /\ RestInv' /\ [Next]_vars => [Abstract!QuotaNext]_(Abstract!quotaVars)
  BY StepSimulation
<1> QED  BY <1>1, <1>2, <1>3, InitRestInv, SpecIInv, PTL DEF Spec, ImplementsQuota, Abstract!QuotaSpec

-------------------------------------------------------------------------------
(* Reserve and Unreserve while nodes rest. *)

(* What a binding cycle's counters are, in terms of those before Reserve. *)
CountedOnce(p) ==
  LET b == bindState[p]
      labels == nodes[podNode[p]]
      pair == PairOn(b, labels)
  IN IF updatesPair(b, p, labels)
     THEN /\ pair \in DOMAIN reservedFrom[p]
          /\ b.TpPairToMatchNum = [reservedFrom[p] EXCEPT ![pair] = @ + 1]
     ELSE b.TpPairToMatchNum = reservedFrom[p]

BindingExact ==
  \A p \in Pods : status[p] = "assumed" /\ podRequireTopologyScheduling(p) => CountedOnce(p)

ReserveInv == RestInv /\ BindingExact /\ UnreserveRestores /\ NoPanic

(* Where the counter exists Reserve does not panic, and it exists on every *)
(* node that the pod's selector lets in.                                   *)
LEMMA HostHasCounter ==
  ASSUME ReserveInv, phase = "reserve", podRequireTopologyScheduling(pod)
  PROVE  ~ updatePanics(state, pod, snapNodes[host])
<1>1. /\ pod \in Pods /\ host \in feasible /\ HasState
      /\ host \in NodeSelector[pod] /\ snapNodes[host] # Nil
  BY ProfileAssumption DEF ReserveInv, RestInv, IInv, ControlOK, InCycle, HasState,
                           FeasibleAccepted, SelectorEnforced
<1>2. DOMAIN state.TpPairToMatchNum = PairsOf(pod, state.Constraint.TopologyKey)
  BY <1>1 DEF ReserveInv, RestInv, IInv, CountersFromSnapshot
<1> QED  BY <1>1, <1>2 DEF updatePanics, updatesPair, PairOn, PairsOf

(* The counter that Reserve raised is there when Unreserve lowers it. *)
LEMMA BoundHasCounter ==
  ASSUME ReserveInv, NEW p \in Pods, status[p] = "assumed", podRequireTopologyScheduling(p)
  PROVE  /\ CountedOnce(p) /\ snapNodes = nodes /\ IsCounters(reservedFrom[p])
         /\ ~ updatePanics(bindState[p], p, snapNodes[podNode[p]])
<1>1. CountedOnce(p) /\ snapNodes = nodes /\ IsCounters(reservedFrom[p])
  BY DEF ReserveInv, RestInv, BindingExact, SnapshotRests, InBinding, IInv, ControlOK
<1> QED  BY <1>1 DEF CountedOnce, updatePanics

(* Reserve leaves the pod counted exactly once. *)
LEMMA ReserveCountsOnce ==
  ASSUME ReserveInv, RestInv', Reserve, NEW p \in Pods, p = pod,
         podRequireTopologyScheduling(p)
  PROVE  CountedOnce(p)'
<1>1. /\ host \in Nodes /\ snapNodes = nodes /\ nodes' = nodes
      /\ IsPreFilterState(state) /\ phase = "reserve"
  BY DEF Reserve, ReserveInv, RestInv, SnapshotRests, IInv, ControlOK, TypeOK, InCycle, HasState,
         worldVars
<1> DEFINE labels == nodes[host]
           b == updateWithPod(state, p, labels, 1)
<1>2. /\ bindState'[p] = b /\ reservedFrom'[p] = state.TpPairToMatchNum
      /\ podNode'[p] = host /\ ~ updatePanics(state, p, labels)
  BY <1>1 DEF Reserve, ReserveInv, RestInv, IInv, TypeOK
<1>3. b.Constraint = state.Constraint
  BY <1>1 DEF updateWithPod, IsPreFilterState
<1>4. updatesPair(b, p, labels) = updatesPair(state, p, labels)
      /\ PairOn(b, labels) = PairOn(state, labels)
  BY <1>3 DEF updatesPair, PairOn
<1>5. CASE updatesPair(state, p, labels)
  <2>1. b.TpPairToMatchNum = [state.TpPairToMatchNum EXCEPT ![PairOn(state, labels)] = @ + 1]
    BY <1>1, <1>5 DEF updateWithPod, IsPreFilterState
  <2> HIDE DEF b, labels
  <2> QED  BY <1>1, <1>2, <1>4, <1>5, <2>1 DEF CountedOnce, updatePanics, labels
<1>6. CASE ~ updatesPair(state, p, labels)
  <2>1. b = state
    BY <1>6 DEF updateWithPod
  <2> HIDE DEF b, labels
  <2> QED  BY <1>1, <1>2, <1>4, <1>6, <2>1 DEF CountedOnce, labels
<1> QED  BY <1>5, <1>6

(* Lowering the raised counter gives the counters before Reserve back. *)
LEMMA UnreserveUndoes ==
  ASSUME ReserveInv, NEW p \in Pods, Unreserve(p), podRequireTopologyScheduling(p)
  PROVE  bindState'[p].TpPairToMatchNum = reservedFrom'[p]
<1> DEFINE s == bindState[p]
           labels == nodes[podNode[p]]
           pair == PairOn(s, labels)
           before == reservedFrom[p]
<1>1. /\ CountedOnce(p) /\ snapNodes = nodes /\ IsCounters(before) /\ IsPreFilterState(s)
      /\ bindState' = [bindState EXCEPT ![p] = updateWithPod(@, p, labels, -1)]
      /\ reservedFrom' = reservedFrom
  BY BoundHasCounter DEF Unreserve, ReserveInv, RestInv, IInv, ControlOK, InBinding
<1>2. bindState'[p] = updateWithPod(s, p, labels, -1)
  BY <1>1 DEF ReserveInv, RestInv, IInv, TypeOK
<1>3. CASE updatesPair(s, p, labels)
  <2>1. bindState'[p].TpPairToMatchNum = [s.TpPairToMatchNum EXCEPT ![pair] = @ + (-1)]
    BY <1>1, <1>2, <1>3 DEF updateWithPod, IsPreFilterState
  <2>2. pair \in DOMAIN before /\ s.TpPairToMatchNum = [before EXCEPT ![pair] = @ + 1]
    BY <1>1, <1>3 DEF CountedOnce
  <2>3. before \in [DOMAIN before -> Int]
    BY <1>1 DEF IsCounters, IntegersOver
  <2> HIDE DEF s, pair, before
  <2>4. [s.TpPairToMatchNum EXCEPT ![pair] = @ + (-1)] = before
    <3> DEFINE after == [s.TpPairToMatchNum EXCEPT ![pair] = @ + (-1)]
    <3>1. s.TpPairToMatchNum \in [DOMAIN before -> Int]
      BY <2>2, <2>3
    <3>2. after \in [DOMAIN before -> Int]
      <4>1. s.TpPairToMatchNum[pair] + (-1) \in Int
        BY <2>2, <3>1
      <4> QED  BY <2>2, <3>1, <4>1
    <3>3. ASSUME NEW x \in DOMAIN before PROVE after[x] = before[x]
      <4>1. after[x] = IF x = pair THEN s.TpPairToMatchNum[x] + (-1) ELSE s.TpPairToMatchNum[x]
        BY <2>2
      <4>2. s.TpPairToMatchNum[x] = IF x = pair THEN before[x] + 1 ELSE before[x]
        BY <2>2
      <4>3. before[x] \in Int
        BY <2>3
      <4> HIDE DEF after
      <4> QED  BY <4>1, <4>2, <4>3
    <3> HIDE DEF after
    <3>4. after = before
      BY <2>3, <3>2, <3>3
    <3> QED  BY <3>4 DEF after
  <2> QED  BY <1>1, <2>1, <2>4 DEF before
<1>4. CASE ~ updatesPair(s, p, labels)
  BY <1>1, <1>2, <1>4 DEF updateWithPod, CountedOnce
<1> QED  BY <1>3, <1>4

(* Every step keeps the reservations as Reserve left them: one counter     *)
(* higher, to be lowered once, and no extension point panics.              *)
LEMMA NextReserveInv ==
  ASSUME ReserveInv, RestInv', [Next]_vars
  PROVE  ReserveInv'
<1>1. /\ RestInv /\ nodes' = nodes /\ NoPanic /\ IInv /\ IInv'
      /\ BindingExact /\ UnreserveRestores
  BY NodesNeverChange DEF ReserveInv, RestInv
<1>2. NoPanic'
  <2>1. CASE ReservePanics
    BY <2>1, HostHasCounter DEF ReservePanics
  <2>2. ASSUME NEW p \in Pods, UnreservePanics(p) PROVE FALSE
    BY <2>2, BoundHasCounter DEF UnreservePanics
  <2> QED
    BY <1>1, <2>1, <2>2
    DEF NoPanic, Next, SchedulingCycle, BindingCycle, PodEvents, Churn, StartCycle, PreFilter,
        PreFilterFails, Filter, FilterFails, SelectHost, SelectFails, FailCycle, Reserve, Bind,
        Unreserve, ForgetPod, CreatePod, TerminatePod, DeletePod, UpdateNode, UpdatePolicy,
        Restart, vars
<1>4. ASSUME NEW p \in Pods, podRequireTopologyScheduling(p),
             UNCHANGED <<bindState[p], reservedFrom[p], podNode[p]>>,
             status'[p] \in {"assumed", "unreserved"} => status'[p] = status[p]
      PROVE  /\ status'[p] = "assumed" => CountedOnce(p)'
             /\ status'[p] = "unreserved" => bindState'[p].TpPairToMatchNum = reservedFrom'[p]
  BY <1>1, <1>4 DEF BindingExact, UnreserveRestores, CountedOnce
<1>5. ASSUME NEW p \in Pods, podRequireTopologyScheduling(p)
      PROVE  /\ status'[p] = "assumed" => CountedOnce(p)'
             /\ status'[p] = "unreserved" => bindState'[p].TpPairToMatchNum = reservedFrom'[p]
  <2>1. CASE Reserve
    <3>1. CASE p = pod
      BY <1>5, <2>1, <3>1, ReserveCountsOnce DEF Reserve, ReserveInv, RestInv, IInv, TypeOK
    <3>2. CASE p # pod
      BY <1>1, <1>4, <1>5, <2>1, <3>2 DEF Reserve, bindVars, IInv, TypeOK
    <3> QED  BY <3>1, <3>2
  <2>2. ASSUME NEW q \in Pods, Unreserve(q)
        PROVE  /\ status'[p] = "assumed" => CountedOnce(p)'
               /\ status'[p] = "unreserved" => bindState'[p].TpPairToMatchNum = reservedFrom'[p]
    <3>1. CASE p = q
      BY <1>1, <1>5, <2>2, <3>1, UnreserveUndoes DEF Unreserve, IInv, TypeOK
    <3>2. CASE p # q
      BY <1>1, <1>4, <1>5, <2>2, <3>2 DEF Unreserve, IInv, TypeOK
    <3> QED  BY <3>1, <3>2
  <2>3. ASSUME NEW q \in Pods, \/ Bind(q) \/ ForgetPod(q) \/ CreatePod(q) \/ TerminatePod(q)
                              \/ DeletePod(q)
        PROVE  /\ status'[p] = "assumed" => CountedOnce(p)'
               /\ status'[p] = "unreserved" => bindState'[p].TpPairToMatchNum = reservedFrom'[p]
    <3>1. CASE p = q /\ status'[p] \notin {"assumed", "unreserved"}
      BY <3>1
    <3>2. CASE p # q \/ TerminatePod(q)
      BY <1>1, <1>4, <1>5, <2>3, <3>2 DEF Bind, EndBinding, ForgetPod, CreatePod, TerminatePod,
         DeletePod, bindVars, IInv, TypeOK
    <3>3. CASE p = q /\ ~ TerminatePod(q)
      BY <1>1, <2>3, <3>1, <3>3 DEF Bind, ForgetPod, CreatePod, DeletePod, IInv, TypeOK
    <3> QED  BY <3>2, <3>3
  <2>4. CASE Restart
    BY <2>4 DEF Restart
  <2>5. CASE UNCHANGED <<podVars, bindVars>>
    BY <1>4, <1>5, <2>5 DEF podVars, bindVars
  <2> QED
    BY <2>1, <2>2, <2>3, <2>4, <2>5
    DEF Next, SchedulingCycle, BindingCycle, PodEvents, Churn, StartCycle, PreFilter,
        PreFilterFails, Filter, FilterFails, SelectHost, SelectFails, FailCycle, ReservePanics,
        UnreservePanics, UpdateNode, UpdatePolicy, vars
<1>6. BindingExact' /\ UnreserveRestores'
  BY <1>5 DEF BindingExact, UnreserveRestores
<1> QED  BY <1>2, <1>6 DEF ReserveInv

(* While nodes rest and the profile enforces the pod's node selector, no   *)
(* extension point dereferences a missing counter, and Unreserve leaves    *)
(* the pod's cycle state as Reserve found it.                              *)
THEOREM SpecReserveUnreserve == Spec => [](NoPanic /\ UnreserveRestores)
<1>1. Init => ReserveInv
  BY InitRestInv DEF Init, ReserveInv, BindingExact, UnreserveRestores, NoPanic
<1>2. RestInv /\ IInv' /\ [Next]_vars => RestInv'
  BY NextRestInv
<1>3. ReserveInv /\ RestInv' /\ [Next]_vars => ReserveInv'
  BY NextReserveInv
<1>4. ReserveInv => RestInv /\ NoPanic /\ UnreserveRestores
  BY DEF ReserveInv
<1> QED  BY <1>1, <1>2, <1>3, <1>4, SpecIInv, PTL DEF Spec

(* While nodes rest and the profile enforces the pod's node selector, no   *)
(* extension point dereferences a missing counter.                         *)
THEOREM SpecNoPanic == Spec => []NoPanic
BY SpecReserveUnreserve, PTL

-------------------------------------------------------------------------------
(* Preemption keeps the promise too. *)

(* Filter turns a node beside nominated pods down, or AddPod panics: the   *)
(* nodes that passed stay.                                                 *)
FeasibleSame ==
  UNCHANGED <<podVars, worldVars, snapVars, phase, pod, state, feasible, host, bindVars>>

(* Passing beside nominated pods is passing without them, which Filter     *)
(* does; dry runs work on clones; a preemption ends as a cycle that fails. *)
LEMMA PreemptStepIs ==
  ASSUME PInv, [PreemptNext]_allVars
  PROVE  [Next]_vars \/ FeasibleSame \/ FailCycle
<1>1. ASSUME NEW n \in Nodes, FilterBeside(n)
      PROVE  Filter(n) \/ FeasibleSame
  <2>1. CASE PassesOnNode(n, state)
    <3>1. Accepted(n, state)
      BY <2>1 DEF PassesOnNode
    <3> QED  BY <1>1, <2>1, <3>1 DEF FilterBeside, Accepted, Filter
  <2>2. CASE ~ PassesOnNode(n, state)
    BY <1>1, <2>2 DEF FilterBeside, FeasibleSame
  <2> QED  BY <2>1, <2>2
<1>2. ASSUME NEW n \in Nodes, AddPodPanics(n) PROVE FeasibleSame
  BY <1>2 DEF AddPodPanics, FeasibleSame, cycleVars
<1>3. CASE Unnoticed
  BY <1>1, <1>2, <1>3
  DEF Unnoticed, FilterAlone, SelectFailsAtOnce, Next, SchedulingCycle, PodEvents
<1>4. CASE Preempt
  <2>1. ASSUME NEW n \in Nodes, RemoveLower(n) \/ Choose(n) PROVE UNCHANGED vars
    BY <2>1, RemoveLowerLeaves DEF Choose
  <2>2. ASSUME NEW n \in DOMAIN dry, NEW q \in dry[n].left, Reprieve(n, q)
        PROVE  UNCHANGED vars
    BY <2>2, ReprieveLeaves
  <2>3. ASSUME NEW q \in Pods, DeleteVictim(q) PROVE [Next]_vars
    BY <2>3 DEF DeleteVictim, Next, PodEvents
  <2>4. CASE StartPreemption \/ Nominate \/ PreemptionFails
    BY <2>4 DEF StartPreemption, Nominate, PreemptionFails
  <2> QED  BY <1>4, <2>1, <2>2, <2>3, <2>4 DEF Preempt
<1> QED  BY <1>3, <1>4 DEF PreemptNext, Next, SchedulingCycle, PodEvents, allVars

(* The steps that are not Next's keep what rests ... *)
LEMMA PreemptRestInv ==
  ASSUME PInv, RestInv, IInv', [PreemptNext]_allVars
  PROVE  RestInv'
<1>1. IInv /\ nodes' = nodes
  BY NodesNeverChange DEF PInv
<1>2. CASE FeasibleSame
  <2>1. FeasibleJustified'
    BY <1>2, FeasibleRests DEF RestInv, FeasibleSame, HasState
  <2>2. SnapshotRests' /\ WatchedState' /\ FeasibleAccepted'
    BY <1>2 DEF RestInv, FeasibleSame, SnapshotRests, WatchedState, FeasibleAccepted, HasState,
                InCycle, InBinding, podVars, worldVars, snapVars
  <2> QED  BY <2>1, <2>2 DEF RestInv
<1>3. CASE FailCycle
  BY <1>1, <1>3 DEF RestInv, FailCycle, EndCycle, FeasibleJustified, SnapshotRests, WatchedState,
     FeasibleAccepted, HasState, InCycle, InBinding, podVars, worldVars, snapVars
<1> QED  BY <1>2, <1>3, PreemptStepIs, NextRestInv

(* ... and are stutters, or a pod given up, to PlacementQuota. *)
LEMMA PreemptSimulation ==
  ASSUME PInv, RestInv, RestInv', [PreemptNext]_allVars
  PROVE  Abstract!QuotaNext \/ UNCHANGED Abstract!quotaVars
<1>1. CASE FeasibleSame
  BY <1>1, MappedRests
  DEF FeasibleSame, InCycle, podVars, worldVars, snapVars, Abstract!quotaVars
<1>2. CASE FailCycle
  BY <1>2, FailCycleGivesUp DEF Abstract!QuotaNext
<1> QED  BY <1>1, <1>2, PreemptStepIs, StepSimulation

(* With preemption the scheduler's placements are still ones that          *)
(* PlacementQuota allows, for any priorities: a node that passes beside    *)
(* nominated pods passes without them, no dry run touches the counters     *)
(* that Filter reads, and victims only leave.                              *)
THEOREM PreemptSpecImplementsQuota == PreemptSpec => ImplementsQuota
<1>1. PreemptInit => Abstract!QuotaInit /\ RestInv
  BY InitRestInv, InitMaps DEF PreemptInit
<1>2. PInv /\ RestInv /\ PInv' /\ [PreemptNext]_allVars => RestInv'
  BY PreemptRestInv DEF PInv
<1>3. PInv /\ RestInv /\ RestInv' /\ [PreemptNext]_allVars
        => [Abstract!QuotaNext]_(Abstract!quotaVars)
  BY PreemptSimulation
<1> QED
  BY <1>1, <1>2, <1>3, SpecPInv, PTL DEF PreemptSpec, ImplementsQuota, Abstract!QuotaSpec

===============================================================================
