---------------------- MODULE TopologyScheduling_proofs -----------------------
(***************************************************************************)
(* Proofs about TopologyScheduling for every set of pods and nodes, every  *)
(* policy and every schedule of the processes around it.                   *)
(*                                                                         *)
(* IInv is inductive with no premise beyond the assumptions on the         *)
(* constants: lemma InitIInv, one lemma per action that touches more than  *)
(* a few of its conjuncts, and lemma NextIInv, which puts them together.   *)
(***************************************************************************)
EXTENDS TopologyScheduling, TopologyPolicy_proofs

-------------------------------------------------------------------------------
(* The plugin's functions. *)

(* The counters of a snapshot are integers over topology pairs. *)
LEMMA CountedTyped ==
  ASSUME NEW p \in Pods, NEW key \in Keys, NEW selector \in SUBSET Pods,
         snapNodes \in [Nodes -> Labels \cup {Nil}]
  PROVE  IsCounters([pair \in PairsOf(p, key) |->
                       Cardinality(PodsMatchSelector(selector, pair[1], pair[2]))])
<1>1. \A k, v : Cardinality(PodsMatchSelector(selector, k, v)) \in Int
  <2> TAKE k, v
  <2>1. PodsMatchSelector(selector, k, v) \in SUBSET Pods
    BY DEF PodsMatchSelector
  <2>2. IsFiniteSet(PodsMatchSelector(selector, k, v))
    BY <2>1, FiniteAssumption, FS_Subset
  <2> QED  BY <2>2, FS_CardinalityType
<1>2. PairsOf(p, key) \subseteq Pairs
  <2> SUFFICES ASSUME NEW n \in NodeSelector[p], snapNodes[n] # Nil, snapNodes[n][key] # Nil
               PROVE  TopologyPair(key, snapNodes[n][key]) \in Pairs
    BY DEF PairsOf
  <2>1. n \in Nodes
    BY PodAssumption
  <2>2. snapNodes[n] \in Labels
    BY <2>1
  <2>3. snapNodes[n][key] \in Values
    BY <2>2 DEF Labels
  <2> QED  BY <2>3 DEF Pairs, TopologyPair
<1> QED  BY <1>1, <1>2 DEF IsCounters, IntegersOver

(* PreFilter writes a well-formed cycle state for any policy it may read.  *)
LEMMA PreFilterStateTyped ==
  ASSUME NEW p \in Pods, NEW tsp \in PolicySpecs,
         snapNodes \in [Nodes -> Labels \cup {Nil}]
  PROVE  IsPreFilterState(calculatePreFilterStateCache(p, tsp))
<1>1. /\ tsp.topologyKey \in Keys
      /\ tsp.deployPlacement \in Seq([name : Values, replicas : Int])
      /\ tsp.labelSelector \in SUBSET Pods
      /\ tsp.scheduleStrategy \in STRING
  BY DEF PolicySpecs, Entries
<1>2. IntegersOver(CovertPolicy(tsp.deployPlacement), Values)
  BY <1>1, CovertPolicyType DEF IntegersOver
<1>3. IsCounters([pair \in PairsOf(p, tsp.topologyKey) |->
        Cardinality(PodsMatchSelector(tsp.labelSelector, pair[1], pair[2]))])
  BY <1>1, CountedTyped
<1> QED  BY <1>1, <1>2, <1>3 DEF IsPreFilterState, calculatePreFilterStateCache

(* Counting a pod keeps the shape, where the counter exists. *)
LEMMA UpdateTyped ==
  ASSUME NEW s, IsPreFilterState(s), NEW p, NEW labels, NEW delta \in Int,
         ~ updatePanics(s, p, labels)
  PROVE  IsPreFilterState(updateWithPod(s, p, labels, delta))
<1>1. CASE ~ updatesPair(s, p, labels)
  BY <1>1 DEF updateWithPod
<1>2. CASE updatesPair(s, p, labels)
  <2> DEFINE T == s.TpPairToMatchNum
             pair == PairOn(s, labels)
             U == [T EXCEPT ![pair] = @ + delta]
  <2>1. pair \in DOMAIN T
    BY <1>2 DEF updatePanics
  <2>2. IsCounters(U)
    <3>1. DOMAIN T \subseteq Pairs /\ T \in [DOMAIN T -> Int]
      BY DEF IsPreFilterState, IsCounters, IntegersOver
    <3> HIDE DEF T, pair
    <3>2. U \in [DOMAIN T -> Int] /\ DOMAIN U = DOMAIN T
      BY <2>1, <3>1
    <3> QED  BY <3>1, <3>2 DEF IsCounters, IntegersOver
  <2>3. updateWithPod(s, p, labels, delta) =
          [Constraint |-> s.Constraint, TpPairToMatchNum |-> U,
           ScheduleStrategy |-> s.ScheduleStrategy]
    BY <1>2 DEF updateWithPod, IsPreFilterState
  <2> QED  BY <2>2, <2>3 DEF IsPreFilterState
<1> QED  BY <1>1, <1>2

-------------------------------------------------------------------------------
(* The inductive invariant. *)

(* Counters stay those of the snapshot while cycle and snapshot rest. *)
LEMMA CountersRest ==
  ASSUME CountersFromSnapshot, HasState' => HasState,
         UNCHANGED <<snapVars, state, pod>>
  PROVE  CountersFromSnapshot'
BY DEF CountersFromSnapshot, PairsOf, PodsMatchSelector, snapVars

(* After a cycle, whatever ended it, only bookkeeping is left to show. *)
LEMMA EndCycleIInv ==
  ASSUME IInv, EndCycle
  PROVE  /\ phase' = "idle" /\ snapNodes' \in [Nodes -> Labels \cup {Nil}]
         /\ snapPlace' \in [Pods -> Nodes \cup {Nil}] /\ snapTerm' \in SUBSET Pods
         /\ pod' = Nil /\ state' = Nil /\ todo' = {} /\ feasible' = {} /\ host' = Nil
         /\ ~ InCycle' /\ ~ HasState'
         /\ CountersFromSnapshot' /\ SnapshotCoversCache'
BY DEF IInv, TypeOK, EndCycle, Nowhere, InCycle, HasState, CountersFromSnapshot,
       SnapshotCoversCache

(* A process that has just started satisfies the inductive invariant.      *)
LEMMA InitIInv == Init => IInv
<1> SUFFICES ASSUME Init PROVE IInv
  OBVIOUS
<1>1. VersionsOK
  BY DEF Init, VersionsOK
<1>2. TypeOK
  <2>1. nodes \in [Nodes -> Labels \cup {Nil}]
    BY <1>1, VersionAssumption DEF Init, VersionsOK
  <2>2. policies \in [PolicyNames -> PolicySpecs \cup {Nil}]
    BY <1>1, VersionAssumption DEF Init, VersionsOK
  <2> QED  BY <2>1, <2>2 DEF Init, TypeOK, Nowhere, Statuses, Phases
<1>3. ControlOK
  BY DEF Init, ControlOK, Nowhere, InCycle, HasState, HoldsPlace, InBinding
<1>4. CountersFromSnapshot /\ SnapshotCoversCache /\ ReservePanicsOffSelectorOnly
  BY DEF Init, CountersFromSnapshot, SnapshotCoversCache, ReservePanicsOffSelectorOnly,
         HasState
<1> QED  BY <1>1, <1>2, <1>3, <1>4 DEF IInv

(* Taking a pod and a fresh snapshot keeps the invariant: the snapshot is  *)
(* the cache at that moment.                                               *)
LEMMA StartCycleIInv ==
  ASSUME IInv, NEW p \in Pods, StartCycle(p)
  PROVE  IInv'
<1> USE DEF IInv, StartCycle, podVars, worldVars, bindVars
<1>1. TypeOK'
  BY DEF TypeOK, Phases
<1>2. ControlOK'
  BY DEF ControlOK, InCycle, HasState, HoldsPlace, InBinding
<1>3. VersionsOK'
  BY DEF VersionsOK
<1>4. SnapshotCoversCache'
  BY DEF SnapshotCoversCache
<1>5. CountersFromSnapshot' /\ ReservePanicsOffSelectorOnly'
  BY DEF CountersFromSnapshot, HasState, ReservePanicsOffSelectorOnly
<1> QED  BY <1>1, <1>2, <1>3, <1>4, <1>5

(* PreFilter keeps the invariant: its counters are those of the snapshot.  *)
LEMMA PreFilterIInv ==
  ASSUME IInv, PreFilter
  PROVE  IInv'
<1> USE DEF IInv, PreFilter, podVars, worldVars, snapVars, bindVars
<1> DEFINE tsp == policies[PolicyOf[pod]]
<1>1. pod \in Pods
  BY DEF ControlOK, InCycle
<1>2. ASSUME podRequireTopologyScheduling(pod)
      PROVE  tsp \in PolicySpecs /\ state' = calculatePreFilterStateCache(pod, tsp)
  <2>1. PolicyOf[pod] \in PolicyNames
    BY <1>1, <1>2, PodAssumption DEF podRequireTopologyScheduling
  <2> QED  BY <1>2, <2>1 DEF TypeOK
<1>3. podRequireTopologyScheduling(pod) => IsPreFilterState(state')
  BY <1>1, <1>2, PreFilterStateTyped DEF TypeOK
<1>4. TypeOK'
  BY <1>3 DEF TypeOK, Phases
<1>5. ControlOK'
  <2>1. HasState' => IsPreFilterState(state')
    BY <1>3 DEF HasState
  <2> QED  BY <2>1 DEF ControlOK, InCycle, HoldsPlace, InBinding
<1>6. VersionsOK'
  BY DEF VersionsOK
<1>7. CountersFromSnapshot'
  <2> SUFFICES ASSUME podRequireTopologyScheduling(pod)
               PROVE  CountersFromSnapshot'
    BY DEF CountersFromSnapshot, HasState
  <2>1. /\ state'.Constraint.TopologyKey = tsp.topologyKey
        /\ state'.Constraint.Selector = tsp.labelSelector
        /\ state'.TpPairToMatchNum =
             [pair \in PairsOf(pod, tsp.topologyKey) |->
                Cardinality(PodsMatchSelector(tsp.labelSelector, pair[1], pair[2]))]
    BY <1>2 DEF calculatePreFilterStateCache
  <2>2. \A p, key : PairsOf(p, key)' = PairsOf(p, key)
    BY DEF PairsOf
  <2>3. \A selector, k, v : PodsMatchSelector(selector, k, v)' = PodsMatchSelector(selector, k, v)
    BY DEF PodsMatchSelector
  <2> HIDE DEF tsp
  <2> QED  BY <2>1, <2>2, <2>3 DEF CountersFromSnapshot
<1>8. SnapshotCoversCache' /\ ReservePanicsOffSelectorOnly'
  BY DEF SnapshotCoversCache, ReservePanicsOffSelectorOnly
<1> QED  BY <1>4, <1>5, <1>6, <1>7, <1>8

(* PreFilterFails, FilterFails and SelectFails all end in FailCycle. *)
LEMMA FailCycleIInv ==
  ASSUME IInv, panicked = "none", FailCycle
  PROVE  IInv'
<1> USE DEF FailCycle, podVars, worldVars, bindVars
<1>1. TypeOK'
  BY EndCycleIInv DEF IInv, TypeOK, Phases
<1>2. ControlOK'
  BY EndCycleIInv DEF IInv, ControlOK, HoldsPlace, InBinding
<1>3. VersionsOK'
  BY DEF IInv, VersionsOK
<1>4. ReservePanicsOffSelectorOnly'
  BY DEF ReservePanicsOffSelectorOnly
<1> QED  BY <1>1, <1>2, <1>3, <1>4, EndCycleIInv DEF IInv

(* Filtering a node keeps the invariant: only nodes of the snapshot become *)
(* feasible.                                                               *)
LEMMA FilterIInv ==
  ASSUME IInv, NEW n \in Nodes, Filter(n)
  PROVE  IInv'
<1> USE DEF IInv, Filter, podVars, worldVars, snapVars, bindVars
<1>1. feasible' \subseteq feasible \cup {n} /\ todo' = todo \ {n} /\ n \in todo
  OBVIOUS
<1>2. TypeOK'
  BY <1>1 DEF TypeOK, Phases
<1>3. ControlOK'
  BY <1>1 DEF ControlOK, InCycle, HasState, HoldsPlace, InBinding
<1>4. VersionsOK'
  BY DEF VersionsOK
<1>5. CountersFromSnapshot'
  BY CountersRest DEF HasState
<1>6. SnapshotCoversCache' /\ ReservePanicsOffSelectorOnly'
  BY DEF SnapshotCoversCache, ReservePanicsOffSelectorOnly
<1> QED  BY <1>2, <1>3, <1>4, <1>5, <1>6

(* Selecting a host keeps the invariant: the host is feasible.             *)
LEMMA SelectHostIInv ==
  ASSUME IInv, NEW n \in Nodes, SelectHost(n)
  PROVE  IInv'
<1> USE DEF IInv, SelectHost, podVars, worldVars, snapVars, bindVars
<1>1. TypeOK'
  BY DEF TypeOK, Phases
<1>2. ControlOK'
  BY DEF ControlOK, InCycle, HasState, HoldsPlace, InBinding
<1>3. VersionsOK'
  BY DEF VersionsOK
<1>4. CountersFromSnapshot'
  BY CountersRest DEF HasState
<1>5. SnapshotCoversCache' /\ ReservePanicsOffSelectorOnly'
  BY DEF SnapshotCoversCache, ReservePanicsOffSelectorOnly
<1> QED  BY <1>1, <1>2, <1>3, <1>4, <1>5

(* Reserve keeps the invariant: the pod moves to the cache and its state   *)
(* to its binding cycle.                                                   *)
LEMMA ReserveIInv ==
  ASSUME IInv, Reserve
  PROVE  IInv'
<1> USE DEF Reserve, worldVars, bindVars
<1>1. /\ pod \in Pods /\ status[pod] = "pending" /\ host \in Nodes
      /\ podRequireTopologyScheduling(pod) => IsPreFilterState(state)
  BY DEF IInv, ControlOK, TypeOK, InCycle, HasState
<1> DEFINE counted == updateWithPod(state, pod, snapNodes[host], 1)
<1>2. podRequireTopologyScheduling(pod) =>
        IsPreFilterState(counted) /\ IsCounters(state.TpPairToMatchNum)
  BY <1>1, UpdateTyped DEF IsPreFilterState
<1>3. bindState' = (IF podRequireTopologyScheduling(pod)
                    THEN [bindState EXCEPT ![pod] = counted] ELSE bindState)
      /\ reservedFrom' = (IF podRequireTopologyScheduling(pod)
                          THEN [reservedFrom EXCEPT ![pod] = state.TpPairToMatchNum]
                          ELSE reservedFrom)
  OBVIOUS
<1> HIDE DEF counted
<1>4. /\ DOMAIN bindState' = Pods /\ DOMAIN reservedFrom' = Pods
      /\ \A p \in Pods :
           /\ bindState'[p] = Nil \/ IsPreFilterState(bindState'[p])
           /\ reservedFrom'[p] = Nil \/ IsCounters(reservedFrom'[p])
  BY <1>1, <1>2, <1>3 DEF IInv, TypeOK
<1>5. TypeOK'
  BY <1>1, <1>4, EndCycleIInv DEF IInv, TypeOK, Phases, Statuses
<1>6. ControlOK'
  <2>1. \A p \in Pods : InBinding(p)' /\ podRequireTopologyScheduling(p) =>
          IsPreFilterState(bindState'[p]) /\ IsCounters(reservedFrom'[p])
    BY <1>1, <1>2, <1>3 DEF IInv, ControlOK, TypeOK, InBinding
  <2>2. \A p \in Pods : HoldsPlace(p)' <=> podNode'[p] # Nil
    BY <1>1, NilAssumption DEF IInv, ControlOK, TypeOK, HoldsPlace
  <2>3. \A p \in terminating' : status'[p] = "bound"
    BY <1>1 DEF IInv, ControlOK, TypeOK
  <2> QED  BY <2>1, <2>2, <2>3, EndCycleIInv DEF ControlOK
<1>7. VersionsOK'
  BY DEF IInv, VersionsOK
<1>8. ReservePanicsOffSelectorOnly'
  BY DEF ReservePanicsOffSelectorOnly
<1> QED  BY <1>5, <1>6, <1>7, <1>8, EndCycleIInv DEF IInv

(* The counters' pairs are those of the pod's own nodes, so that a host    *)
(* whose pair has none is not among them.                                  *)
LEMMA ReservePanicsIInv ==
  ASSUME IInv, ReservePanics
  PROVE  IInv'
<1> USE DEF IInv, ReservePanics, podVars, worldVars, snapVars, cycleVars, bindVars
<1>1. TypeOK'
  BY DEF TypeOK
<1>2. ControlOK'
  BY DEF ControlOK, InCycle, HasState, HoldsPlace, InBinding
<1>3. VersionsOK'
  BY DEF VersionsOK
<1>4. CountersFromSnapshot'
  BY CountersRest DEF HasState
<1>5. ReservePanicsOffSelectorOnly'
  <2> DEFINE key == state.Constraint.TopologyKey
  <2>1. DOMAIN state.TpPairToMatchNum = PairsOf(pod, key)
    BY DEF CountersFromSnapshot, HasState
  <2>2. /\ snapNodes[host] # Nil /\ snapNodes[host][key] # Nil
        /\ TopologyPair(key, snapNodes[host][key]) \notin PairsOf(pod, key)
    BY <2>1 DEF updatePanics, updatesPair, PairOn
  <2>3. host \notin NodeSelector[pod]
    BY <2>2 DEF PairsOf
  <2> QED  BY <2>3 DEF ReservePanicsOffSelectorOnly
<1>6. SnapshotCoversCache'
  BY DEF SnapshotCoversCache
<1> QED  BY <1>1, <1>2, <1>3, <1>4, <1>5, <1>6

(* A bind that succeeds keeps the invariant.                               *)
LEMMA BindIInv ==
  ASSUME IInv, NEW p \in Pods, Bind(p)
  PROVE  IInv'
<1> USE DEF IInv, Bind, EndBinding, worldVars, snapVars, cycleVars
<1>1. TypeOK'
  BY DEF TypeOK, Statuses
<1>2. ControlOK'
  BY NilAssumption DEF TypeOK, ControlOK, InCycle, HasState, HoldsPlace, InBinding
<1>3. VersionsOK'
  BY DEF VersionsOK
<1>4. CountersFromSnapshot'
  BY CountersRest DEF HasState
<1>5. SnapshotCoversCache'
  BY DEF TypeOK, SnapshotCoversCache
<1>6. ReservePanicsOffSelectorOnly'
  BY DEF ReservePanicsOffSelectorOnly
<1> QED  BY <1>1, <1>2, <1>3, <1>4, <1>5, <1>6

(* Unreserve keeps the invariant: it changes a counter that exists.        *)
LEMMA UnreserveIInv ==
  ASSUME IInv, NEW p \in Pods, Unreserve(p)
  PROVE  IInv'
<1> USE DEF Unreserve, worldVars, snapVars, cycleVars
<1> DEFINE uncounted == updateWithPod(bindState[p], p, snapNodes[podNode[p]], -1)
<1>1. bindState' = IF podRequireTopologyScheduling(p)
                   THEN [bindState EXCEPT ![p] = uncounted] ELSE bindState
  OBVIOUS
<1>2. podRequireTopologyScheduling(p) => IsPreFilterState(uncounted)
  BY UpdateTyped DEF IInv, ControlOK, InBinding
<1> HIDE DEF uncounted
<1>3. TypeOK'
  BY <1>1, <1>2 DEF IInv, TypeOK, Statuses
<1>4. ControlOK'
  BY <1>1, <1>2 DEF IInv, TypeOK, ControlOK, InCycle, HasState, HoldsPlace, InBinding
<1>5. VersionsOK'
  BY DEF IInv, VersionsOK
<1>6. CountersFromSnapshot'
  BY CountersRest DEF IInv, HasState
<1>7. SnapshotCoversCache' /\ ReservePanicsOffSelectorOnly'
  BY DEF IInv, SnapshotCoversCache, ReservePanicsOffSelectorOnly
<1> QED  BY <1>3, <1>4, <1>5, <1>6, <1>7 DEF IInv

(* A panic in Unreserve keeps the invariant, which speaks of Reserve only. *)
LEMMA UnreservePanicsIInv ==
  ASSUME IInv, NEW p \in Pods, UnreservePanics(p)
  PROVE  IInv'
<1> USE DEF IInv, UnreservePanics, podVars, worldVars, snapVars, cycleVars, bindVars
<1>1. TypeOK'
  BY DEF TypeOK
<1>2. ControlOK'
  BY NilAssumption DEF TypeOK, ControlOK, InCycle, HasState, HoldsPlace, InBinding
<1>3. VersionsOK'
  BY DEF VersionsOK
<1>4. CountersFromSnapshot'
  BY CountersRest DEF HasState
<1>5. SnapshotCoversCache'
  BY DEF TypeOK, SnapshotCoversCache
<1>6. ReservePanicsOffSelectorOnly'
  BY DEF ReservePanicsOffSelectorOnly
<1> QED  BY <1>1, <1>2, <1>3, <1>4, <1>5, <1>6

(* Forgetting a pod keeps the invariant: the cache loses a placement that  *)
(* the snapshot may still show.                                            *)
LEMMA ForgetPodIInv ==
  ASSUME IInv, NEW p \in Pods, ForgetPod(p)
  PROVE  IInv'
<1> USE DEF IInv, ForgetPod, EndBinding, worldVars, snapVars, cycleVars
<1>1. TypeOK'
  BY DEF TypeOK, Statuses
<1>2. ControlOK'
  BY NilAssumption DEF TypeOK, ControlOK, InCycle, HasState, HoldsPlace, InBinding
<1>3. VersionsOK'
  BY DEF VersionsOK
<1>4. CountersFromSnapshot'
  BY CountersRest DEF HasState
<1>5. SnapshotCoversCache'
  BY DEF TypeOK, SnapshotCoversCache
<1>6. ReservePanicsOffSelectorOnly'
  BY DEF ReservePanicsOffSelectorOnly
<1> QED  BY <1>1, <1>2, <1>3, <1>4, <1>5, <1>6

(* A new pod keeps the invariant: it has no place yet.                     *)
LEMMA CreatePodIInv ==
  ASSUME IInv, NEW p \in Pods, CreatePod(p)
  PROVE  IInv'
<1> USE DEF IInv, CreatePod, worldVars, snapVars, cycleVars, bindVars
<1>1. TypeOK'
  BY DEF TypeOK, Statuses
<1>2. ControlOK'
  BY NilAssumption DEF TypeOK, ControlOK, InCycle, HasState, HoldsPlace, InBinding
<1>3. VersionsOK'
  BY DEF VersionsOK
<1>4. CountersFromSnapshot'
  BY CountersRest DEF HasState
<1>5. SnapshotCoversCache'
  BY DEF TypeOK, SnapshotCoversCache
<1>6. ReservePanicsOffSelectorOnly'
  BY DEF ReservePanicsOffSelectorOnly
<1> QED  BY <1>1, <1>2, <1>3, <1>4, <1>5, <1>6

(* A deletion timestamp keeps the invariant: the cache may count fewer     *)
(* pods than the snapshot.                                                 *)
LEMMA TerminatePodIInv ==
  ASSUME IInv, NEW p \in Pods, TerminatePod(p)
  PROVE  IInv'
<1> USE DEF IInv, TerminatePod, worldVars, snapVars, cycleVars, bindVars
<1>1. TypeOK'
  BY DEF TypeOK
<1>2. ControlOK'
  BY NilAssumption DEF TypeOK, ControlOK, InCycle, HasState, HoldsPlace, InBinding
<1>3. VersionsOK'
  BY DEF VersionsOK
<1>4. CountersFromSnapshot'
  BY CountersRest DEF HasState
<1>5. SnapshotCoversCache'
  BY DEF TypeOK, SnapshotCoversCache
<1>6. ReservePanicsOffSelectorOnly'
  BY DEF ReservePanicsOffSelectorOnly
<1> QED  BY <1>1, <1>2, <1>3, <1>4, <1>5, <1>6

(* A pod that goes keeps the invariant, unless a cycle works on it, which  *)
(* the guard excludes.                                                     *)
LEMMA DeletePodIInv ==
  ASSUME IInv, NEW p \in Pods, DeletePod(p)
  PROVE  IInv'
<1> USE DEF IInv, DeletePod, worldVars, snapVars, cycleVars, bindVars
<1>1. TypeOK'
  BY DEF TypeOK, Statuses
<1>2. ControlOK'
  BY NilAssumption DEF TypeOK, ControlOK, InCycle, HasState, HoldsPlace, InBinding
<1>3. VersionsOK'
  BY DEF VersionsOK
<1>4. CountersFromSnapshot'
  BY CountersRest DEF HasState
<1>5. SnapshotCoversCache'
  BY DEF TypeOK, SnapshotCoversCache
<1>6. ReservePanicsOffSelectorOnly'
  BY DEF ReservePanicsOffSelectorOnly
<1> QED  BY <1>1, <1>2, <1>3, <1>4, <1>5, <1>6

(* Nodes and policies only take versions they may have. *)
LEMMA ChurnIInv ==
  ASSUME IInv, Churn
  PROVE  IInv'
<1> USE DEF IInv, Churn, UpdateNode, UpdatePolicy, podVars, snapVars, cycleVars, bindVars
<1>1. VersionsOK'
  BY DEF VersionsOK, TypeOK
<1>2. TypeOK'
  <2>1. nodes' \in [Nodes -> Labels \cup {Nil}]
    BY VersionAssumption DEF TypeOK
  <2>2. policies' \in [PolicyNames -> PolicySpecs \cup {Nil}]
    BY VersionAssumption DEF TypeOK
  <2> QED  BY <2>1, <2>2 DEF TypeOK
<1>3. ControlOK'
  BY DEF ControlOK, InCycle, HasState, HoldsPlace, InBinding
<1>4. CountersFromSnapshot'
  BY CountersRest DEF HasState
<1>5. SnapshotCoversCache' /\ ReservePanicsOffSelectorOnly'
  BY DEF SnapshotCoversCache, ReservePanicsOffSelectorOnly
<1> QED  BY <1>1, <1>2, <1>3, <1>4, <1>5

(* A restart keeps the invariant: the new process has neither cycle nor    *)
(* binding.                                                                *)
LEMMA RestartIInv ==
  ASSUME IInv, Restart
  PROVE  IInv'
<1> USE DEF Nowhere, worldVars
<1>1. PICK landed \in SUBSET {p \in Pods : status[p] = "assumed"} :
        LET lost == {p \in Pods : status[p] \in {"assumed", "unreserved"}} \ landed IN
        /\ status' = [p \in Pods |-> IF p \in lost THEN "pending"
                                     ELSE IF p \in landed THEN "bound" ELSE status[p]]
        /\ podNode' = [p \in Pods |-> IF p \in lost THEN Nil ELSE podNode[p]]
  BY DEF Restart
<1>2. /\ bindState' = Nowhere /\ reservedFrom' = Nowhere /\ panicked' = "none"
      /\ phase' = "idle" /\ pod' = Nil /\ state' = Nil
      /\ todo' = {} /\ feasible' = {} /\ host' = Nil
      /\ snapPlace' = Nowhere /\ snapTerm' = {} /\ snapNodes' = [n \in Nodes |-> Nil]
      /\ UNCHANGED <<terminating, worldVars>>
  BY DEF Restart
<1>3. TypeOK'
  BY <1>1, <1>2 DEF IInv, TypeOK, Statuses, Phases
<1>4. ControlOK'
  <2>1. \A p \in Pods : HoldsPlace(p)' <=> podNode'[p] # Nil
    BY <1>1 DEF IInv, TypeOK, ControlOK, HoldsPlace
  <2>2. \A p \in terminating' : status'[p] = "bound"
    BY <1>1, <1>2 DEF IInv, TypeOK, ControlOK
  <2>3. \A p \in Pods : ~ InBinding(p)'
    BY <1>1 DEF IInv, TypeOK, InBinding, Statuses
  <2> QED  BY <1>2, <2>1, <2>2, <2>3 DEF ControlOK, InCycle, HasState
<1>5. VersionsOK'
  BY <1>2 DEF IInv, VersionsOK
<1>6. CountersFromSnapshot' /\ SnapshotCoversCache' /\ ReservePanicsOffSelectorOnly'
  BY <1>2 DEF CountersFromSnapshot, SnapshotCoversCache, ReservePanicsOffSelectorOnly,
              HasState
<1> QED  BY <1>3, <1>4, <1>5, <1>6 DEF IInv

(* A step that changes nothing keeps the invariant.                        *)
LEMMA StutterIInv ==
  ASSUME IInv, UNCHANGED vars
  PROVE  IInv'
<1> USE DEF IInv, vars, podVars, worldVars, snapVars, cycleVars, bindVars
<1>1. TypeOK' /\ VersionsOK'
  BY DEF TypeOK, VersionsOK
<1>2. ControlOK'
  BY DEF ControlOK, InCycle, HasState, HoldsPlace, InBinding
<1>3. CountersFromSnapshot'
  BY CountersRest DEF HasState
<1>4. SnapshotCoversCache' /\ ReservePanicsOffSelectorOnly'
  BY DEF SnapshotCoversCache, ReservePanicsOffSelectorOnly
<1> QED  BY <1>1, <1>2, <1>3, <1>4

(* IInv is inductive: one case per action. *)
LEMMA NextIInv == IInv /\ [Next]_vars => IInv'
<1> SUFFICES ASSUME IInv, [Next]_vars PROVE IInv'
  OBVIOUS
<1>1. CASE SchedulingCycle
  <2>1. ASSUME NEW p \in Pods, StartCycle(p) PROVE IInv'
    BY <2>1, StartCycleIInv
  <2>2. CASE PreFilter
    BY <2>2, PreFilterIInv
  <2>3. CASE PreFilterFails
    BY <2>3, FailCycleIInv DEF PreFilterFails
  <2>4. ASSUME NEW n \in Nodes, Filter(n) PROVE IInv'
    BY <2>4, FilterIInv
  <2>5. ASSUME NEW n \in Nodes, FilterFails(n) PROVE IInv'
    BY <2>5, FailCycleIInv DEF FilterFails
  <2>6. ASSUME NEW n \in Nodes, SelectHost(n) PROVE IInv'
    BY <2>6, SelectHostIInv
  <2>7. CASE SelectFails
    BY <2>7, FailCycleIInv DEF SelectFails
  <2>8. CASE Reserve
    BY <2>8, ReserveIInv
  <2>9. CASE ReservePanics
    BY <2>9, ReservePanicsIInv
  <2> QED  BY <1>1, <2>1, <2>2, <2>3, <2>4, <2>5, <2>6, <2>7, <2>8, <2>9 DEF SchedulingCycle
<1>2. ASSUME NEW p \in Pods, Bind(p) \/ Unreserve(p) \/ UnreservePanics(p) \/ ForgetPod(p)
      PROVE  IInv'
  BY <1>2, BindIInv, UnreserveIInv, UnreservePanicsIInv, ForgetPodIInv
<1>3. ASSUME NEW p \in Pods, CreatePod(p) \/ TerminatePod(p) \/ DeletePod(p)
      PROVE  IInv'
  BY <1>3, CreatePodIInv, TerminatePodIInv, DeletePodIInv
<1> QED  BY <1>1, <1>2, <1>3, ChurnIInv, RestartIInv, StutterIInv
         DEF Next, BindingCycle, PodEvents

(* The inductive invariant holds in every reachable state, for every set   *)
(* of pods, nodes, policies and versions.                                  *)
THEOREM SpecIInv == Spec => []IInv
BY InitIInv, NextIInv, PTL DEF Spec

(* Type correctness of the scheduler, its plugin and its bookkeeping. *)
THEOREM SpecTypeOK == Spec => []TypeOK
<1>1. IInv => TypeOK
  BY DEF IInv
<1> QED  BY <1>1, SpecIInv, PTL

(* No placement appears behind a running cycle's back: what the snapshot   *)
(* misses was lost, never gained.  This is why counting the snapshot is    *)
(* enough for the quota.                                                   *)
THEOREM SpecSnapshotCoversCache == Spec => []SnapshotCoversCache
<1>1. IInv => SnapshotCoversCache
  BY DEF IInv
<1> QED  BY <1>1, SpecIInv, PTL

(* Reserve dereferences a nil counter on no host but one outside the pod's *)
(* own node selector: the other filters of the profile must keep it away.  *)
THEOREM SpecReservePanicsOffSelectorOnly == Spec => []ReservePanicsOffSelectorOnly
<1>1. IInv => ReservePanicsOffSelectorOnly
  BY DEF IInv
<1> QED  BY <1>1, SpecIInv, PTL

-------------------------------------------------------------------------------
(* HostJustified. *)

(* No label reads as the empty one: a counter counts what the value holds. *)
LEMMA CountIsHolds ==
  ASSUME NoEmptyLabel, NEW selector, NEW key, NEW v \in Values
  PROVE  PodsMatchSelector(selector, key, v) = Holds(selector, key, v)
BY NilAssumption DEF NoEmptyLabel, PodsMatchSelector, Holds, LabelOf

(* What Filter accepts is justified, while the key it reads is the one     *)
(* that the counters are about and the node is one that they cover.        *)
LEMMA FilterJustifies ==
  ASSUME IInv, NoEmptyLabel, phase = "filter", podRequireTopologyScheduling(pod),
         NEW n \in NodeSelector[pod], snapNodes[n] # Nil,
         NEW tsp, tsp.topologyKey = state.Constraint.TopologyKey,
         FilterAccepts(pod, state, tsp, snapNodes[n])
  PROVE  Justified(n)
<1> DEFINE c == state.Constraint
           key == c.TopologyKey
           value == snapNodes[n][key]
           count(v) == state.TpPairToMatchNum[TopologyPair(key, v)]
           counted(v) == TopologyPair(key, v) \in DOMAIN state.TpPairToMatchNum
           held(v) == Cardinality(Holds(c.Selector, key, v))
<1>1. /\ pod \in c.Selector /\ value # Nil
      /\ \/ checkPolicyRequirementReached(key, c.SchedulePolicy, state.TpPairToMatchNum)
         \/ ~ checkTopoValueReached(key, value, c.SchedulePolicy, state.TpPairToMatchNum)
  BY DEF FilterAccepts
<1>2. /\ IntegersOver(c.SchedulePolicy, Values) /\ key \in Keys
      /\ IsCounters(state.TpPairToMatchNum)
  BY DEF IInv, ControlOK, HasState, IsPreFilterState
<1>3. state.TpPairToMatchNum = [pair \in PairsOf(pod, key) |->
                                  Cardinality(PodsMatchSelector(c.Selector, pair[1], pair[2]))]
  BY DEF IInv, CountersFromSnapshot, HasState
<1>4. counted(value)
  <2>1. TopologyPair(key, value) \in PairsOf(pod, key)
    BY <1>1 DEF PairsOf
  <2> QED  BY <1>3, <2>1
<1>5. ASSUME NEW v \in DOMAIN c.SchedulePolicy, counted(v)
      PROVE  count(v) = held(v) /\ count(v) \in Int /\ c.SchedulePolicy[v] \in Int
  <2>1. v \in Values /\ c.SchedulePolicy[v] \in Int
    BY <1>2 DEF IntegersOver
  <2>2. count(v) = Cardinality(PodsMatchSelector(c.Selector, key, v))
    BY <1>3, <1>5 DEF TopologyPair
  <2>3. count(v) \in Int
    BY <1>2, <1>5 DEF IsCounters, IntegersOver
  <2> QED  BY <2>1, <2>2, <2>3, CountIsHolds
<1>6. CASE checkPolicyRequirementReached(key, c.SchedulePolicy, state.TpPairToMatchNum)
  <2>1. \A v \in DOMAIN c.SchedulePolicy : counted(v) /\ count(v) >= c.SchedulePolicy[v]
    BY <1>6 DEF checkPolicyRequirementReached
  <2>2. \A v \in DOMAIN c.SchedulePolicy : ~ (held(v) < c.SchedulePolicy[v])
    <3> HIDE DEF count, counted, held, c
    <3> QED  BY <1>5, <2>1
  <2> QED  BY <1>1, <2>2 DEF Justified
<1>7. CASE ~ checkTopoValueReached(key, value, c.SchedulePolicy, state.TpPairToMatchNum)
  <2>1. value \in DOMAIN c.SchedulePolicy /\ ~ (count(value) >= c.SchedulePolicy[value])
    BY <1>4, <1>7 DEF checkTopoValueReached
  <2>2. held(value) < c.SchedulePolicy[value]
    <3> HIDE DEF count, counted, held, c, value
    <3> QED  BY <1>4, <1>5, <2>1
  <2> QED  BY <1>1, <2>1, <2>2 DEF Justified
<1> QED  BY <1>1, <1>6, <1>7

(* Justification reads only what a cycle keeps from PreFilter on. *)
LEMMA JustifiedRests ==
  ASSUME UNCHANGED <<snapVars, state, pod>>
  PROVE  \A n : Justified(n)' = Justified(n)
BY DEF Justified, Holds, snapVars

(* Justified nodes stay justified while snapshot, cycle state and pod      *)
(* rest.                                                                   *)
LEMMA FeasibleRests ==
  ASSUME FeasibleJustified, UNCHANGED <<snapVars, state, pod>>, HasState' => HasState,
         feasible' \subseteq feasible
  PROVE  FeasibleJustified'
BY JustifiedRests DEF FeasibleJustified

(* Every step keeps the feasible nodes of the pod's selector justified     *)
(* when no label is empty.                                                 *)
LEMMA NextFeasibleJustified ==
  ASSUME NoEmptyLabel
  PROVE  IInv /\ FeasibleJustified /\ [Next]_vars => FeasibleJustified'
<1> SUFFICES ASSUME IInv, FeasibleJustified, [Next]_vars PROVE FeasibleJustified'
  OBVIOUS
<1>1. CASE EndCycle
  BY <1>1, EndCycleIInv DEF FeasibleJustified
<1>2. CASE PreFilter
  <2> SUFFICES ASSUME podRequireTopologyScheduling(pod), KeyKept(PolicyOf[pod])
               PROVE  FeasibleJustified'
    BY <1>2 DEF PreFilter, FeasibleJustified, HasState
  <2> DEFINE tsp == policies[PolicyOf[pod]]
  <2>1. feasible' = {} /\ pod' = pod /\ pod \in Pods
    BY <1>2 DEF PreFilter, IInv, ControlOK, InCycle
  <2>2. state'.Constraint.TopologyKey = tsp.topologyKey
    BY <1>2 DEF PreFilter, calculatePreFilterStateCache
  <2>3. PolicyOf[pod] \in PolicyNames /\ tsp \in PolicyVersions[PolicyOf[pod]] \ {Nil}
    BY <1>2, <2>1, PodAssumption DEF podRequireTopologyScheduling, IInv, VersionsOK, PreFilter
  <2>4. \A v \in PolicyVersions[PolicyOf[pod]] \ {Nil} :
          v.topologyKey = state'.Constraint.TopologyKey
    BY <2>2, <2>3 DEF KeyKept
  <2> QED  BY <2>1, <2>4 DEF FeasibleJustified
<1>3. ASSUME NEW n \in Nodes, Filter(n) PROVE FeasibleJustified'
  <2> SUFFICES ASSUME podRequireTopologyScheduling(pod), KeyKept(PolicyOf[pod])
               PROVE  FeasibleJustified'
    BY <1>3 DEF Filter, FeasibleJustified, HasState
  <2> DEFINE tsp == policies[PolicyOf[pod]]
  <2>1. HasState /\ UNCHANGED <<snapVars, state, pod>> /\ pod \in Pods
        /\ phase = "filter" /\ n \in todo
    BY <1>3 DEF Filter, HasState, IInv, ControlOK, InCycle
  <2>2. ASSUME n \in NodeSelector[pod], n \in OtherFilters[pod],
               FilterAccepts(pod, state, tsp, snapNodes[n])
        PROVE  Justified(n)
    <3>1. snapNodes[n] # Nil
      BY <2>1 DEF IInv, ControlOK
    <3>2. tsp \in PolicyVersions[PolicyOf[pod]] \ {Nil}
      BY <1>3, <2>1, <2>2, PodAssumption DEF podRequireTopologyScheduling, IInv, VersionsOK, Filter
    <3>3. tsp.topologyKey = state.Constraint.TopologyKey
      BY <2>1, <3>2 DEF FeasibleJustified
    <3> QED  BY <2>1, <2>2, <3>1, <3>3, FilterJustifies
  <2>3. \A m \in feasible' \cap NodeSelector[pod] : Justified(m)
    BY <1>3, <2>1, <2>2 DEF Filter, FeasibleJustified
  <2> QED  BY <2>1, <2>3, JustifiedRests DEF FeasibleJustified
<1>4. CASE \E n \in Nodes : SelectHost(n)
  BY <1>4, FeasibleRests DEF SelectHost, HasState
<1>5. CASE \E p \in Pods : StartCycle(p)
  BY <1>5 DEF StartCycle, FeasibleJustified, HasState
<1>6. CASE phase' = phase /\ UNCHANGED <<snapVars, cycleVars>>
  BY <1>6, FeasibleRests DEF cycleVars, HasState
<1>7. CASE Restart
  BY <1>7 DEF Restart, FeasibleJustified, HasState
<1> QED
  BY <1>1, <1>2, <1>3, <1>4, <1>5, <1>6, <1>7
  DEF Next, SchedulingCycle, BindingCycle, PodEvents, Churn, vars, cycleVars, snapVars,
      PreFilterFails, FilterFails, SelectFails, FailCycle, Reserve, ReservePanics, Bind,
      Unreserve, UnreservePanics, ForgetPod, CreatePod, TerminatePod, DeletePod, UpdateNode,
      UpdatePolicy

(* When no label is empty and no policy changes its topology key, every    *)
(* host that a cycle selects among the nodes of the pod's own selector is  *)
(* justified by the pods that the snapshot really held, for any number of  *)
(* pods, nodes, policies and versions, and whatever changes between        *)
(* PreFilter, Filter and Reserve.                                          *)
THEOREM SpecHostJustified ==
  ASSUME NoEmptyLabel, \A q \in PolicyNames : KeyKept(q)
  PROVE  Spec => []HostJustified
<1>1. Init => FeasibleJustified
  BY DEF Init, FeasibleJustified, HasState
<1>2. IInv /\ FeasibleJustified /\ [Next]_vars => FeasibleJustified'
  BY NextFeasibleJustified
<1>3. IInv /\ FeasibleJustified => HostJustified
  BY PodAssumption DEF FeasibleJustified, HostJustified, HasState, IInv, ControlOK, InCycle,
                       podRequireTopologyScheduling
<1> QED  BY <1>1, <1>2, <1>3, SpecIInv, PTL DEF Spec

-------------------------------------------------------------------------------
(* FillFinishesStarted. *)

(* No version of a policy wants more than a hundred pods in a value. *)
HundredReplicas ==
  \A q \in PolicyNames : \A spec \in PolicyVersions[q] \ {Nil} :
    LET policy == CovertPolicy(spec.deployPlacement) IN
    \A v \in DOMAIN policy : policy[v] <= 100

(* Nor does the policy that the cycle works by. *)
HundredInCycle ==
  HasState =>
    \A v \in DOMAIN state.Constraint.SchedulePolicy : state.Constraint.SchedulePolicy[v] <= 100

FillInv == HundredInCycle /\ FillFinishesStarted

(* Fill gives a value without pods zero, and one with some of at most a    *)
(* hundred replicas at least one: the fraction that score drops does not   *)
(* hide it.                                                                *)
LEMMA FillScores ==
  ASSUME NEW desired \in Int, NEW count \in Int, 0 <= count, count < desired
  PROVE  /\ count = 0 => score(count, desired, "Fill") = 0
         /\ 0 < count /\ desired <= 100 => score(count, desired, "Fill") \in Nat \ {0}
         /\ score(count, desired, "Fill") \in 0..100
<1>1. score(count, desired, "Fill") = (100 * count) \div desired
  BY DEF score, Truncate
<1>2. count = 0 => (100 * count) \div desired = 0
  OBVIOUS
<1>3. ASSUME 0 < count, desired <= 100
      PROVE  (100 * count) \div desired \in Nat \ {0}
  <2> DEFINE d == (100 * count) \div desired
             r == (100 * count) % desired
  <2>1. 100 * count = desired * d + r /\ r \in 0..(desired - 1) /\ d \in Int
    OBVIOUS
  <2>2. 100 * count >= desired
    BY <1>3
  <2> HIDE DEF d, r
  <2>3. d <= 0 => desired * d <= 0
    BY <2>1
  <2>4. d >= 1
    BY <2>1, <2>2, <2>3
  <2> QED  BY <2>1, <2>4 DEF d
<1>4. (100 * count) \div desired \in 0..100
  <2> DEFINE d == (100 * count) \div desired
             r == (100 * count) % desired
  <2>1. 100 * count = desired * d + r /\ r \in 0..(desired - 1) /\ d \in Int
    OBVIOUS
  <2> HIDE DEF d, r
  <2>2. d <= -1 => desired * d <= -desired
    BY <2>1
  <2>3. d >= 101 => desired * d >= desired * 101
    BY <2>1
  <2> QED  BY <2>1, <2>2, <2>3 DEF d
<1> QED  BY <1>1, <1>2, <1>3, <1>4

(* What the cycle's counters say of a node. *)
LEMMA CountAtInt ==
  ASSUME IInv, HasState, NEW n \in Nodes
  PROVE  CountAt(state, n) \in Nat
<1> DEFINE key == state.Constraint.TopologyKey
           pair == TopologyPair(key, snapNodes[n][key])
<1>1. CASE pair \in DOMAIN state.TpPairToMatchNum
  <2> DEFINE seen == PodsMatchSelector(state.Constraint.Selector, pair[1], pair[2])
  <2>1. state.TpPairToMatchNum[pair] = Cardinality(seen)
    BY <1>1 DEF IInv, CountersFromSnapshot
  <2>2. seen \in SUBSET Pods
    BY DEF PodsMatchSelector, IInv, ControlOK, IsPreFilterState
  <2> HIDE DEF seen
  <2>3. Cardinality(seen) \in Nat
    BY <2>2, FiniteAssumption, FS_Subset, FS_CardinalityType
  <2> QED  BY <1>1, <2>1, <2>3 DEF CountAt
<1> QED  BY <1>1 DEF CountAt

(* Score tells started values from empty ones. *)
LEMMA ScoreTellsStarted ==
  ASSUME IInv, HasState, HundredInCycle, state.ScheduleStrategy = "Fill", NEW n \in Nodes
  PROVE  /\ CountAt(state, n) = 0 => ScoreOf(pod, state, snapNodes[n]) = 0
         /\ Started(state, n) => ScoreOf(pod, state, snapNodes[n]) \in Nat \ {0}
<1> DEFINE key == state.Constraint.TopologyKey
           value == snapNodes[n][key]
           pair == TopologyPair(key, value)
           desired == state.Constraint.SchedulePolicy[value]
           count == CountAt(state, n)
           counted == /\ value # Nil
                      /\ value \in DOMAIN state.Constraint.SchedulePolicy
                      /\ pair \in DOMAIN state.TpPairToMatchNum
                      /\ count < desired
<1>1. ScoreOf(pod, state, snapNodes[n]) = IF counted THEN score(count, desired, "Fill") ELSE 0
  BY DEF ScoreOf, CountAt, HasState
<1>2. count \in Nat
  BY CountAtInt
<1>3. value \in DOMAIN state.Constraint.SchedulePolicy => desired \in Int /\ value \in Values
  BY DEF IInv, ControlOK, IsPreFilterState, IntegersOver
<1>4. count = 0 => ScoreOf(pod, state, snapNodes[n]) = 0
  <2> HIDE DEF count, desired, value
  <2> QED  BY <1>1, <1>2, <1>3, FillScores
<1>5. ASSUME Started(state, n) PROVE ScoreOf(pod, state, snapNodes[n]) \in Nat \ {0}
  <2>1. /\ value \in DOMAIN state.Constraint.SchedulePolicy
        /\ 0 < count /\ count < desired
    BY <1>5 DEF Started
  <2>2. pair \in DOMAIN state.TpPairToMatchNum
    BY <2>1 DEF CountAt
  <2>3. desired <= 100
    BY <2>1 DEF HundredInCycle
  <2>4. value # Nil
    BY <1>3, <2>1, NilAssumption
  <2>5. score(count, desired, "Fill") \in Nat \ {0}
    <3> HIDE DEF count, desired, value
    <3> QED  BY <1>2, <1>3, <2>1, <2>3, FillScores
  <2> QED  BY <1>1, <2>1, <2>2, <2>4, <2>5
<1> QED  BY <1>4, <1>5

(* The framework takes a highest score, so a started value before an empty *)
(* one.                                                                    *)
LEMMA SelectHostFinishes ==
  ASSUME IInv, HundredInCycle, NEW h \in Nodes, SelectHost(h)
  PROVE  FillFinishesStarted'
<1>1. UNCHANGED <<pod, state, snapNodes, feasible>> /\ host' = h /\ feasible \subseteq Nodes
      /\ phase = "filter" /\ h \in feasible
  BY DEF SelectHost, snapVars, IInv, TypeOK
<1> SUFFICES ASSUME podRequireTopologyScheduling(pod), state.ScheduleStrategy = "Fill",
                    CountAt(state, h) = 0, NEW n \in feasible, Started(state, n)
             PROVE  FALSE
  BY <1>1 DEF FillFinishesStarted, CountAt, Started, podRequireTopologyScheduling
<1>2. HasState
  BY <1>1 DEF HasState
<1>3. feasible # {h}
  BY <1>1 DEF Started
<1>4. ScoreOf(pod, state, snapNodes[n]) <= ScoreOf(pod, state, snapNodes[h])
  BY <1>3 DEF SelectHost
<1>5. /\ ScoreOf(pod, state, snapNodes[h]) = 0
      /\ ScoreOf(pod, state, snapNodes[n]) \in Nat \ {0}
  BY <1>1, <1>2, ScoreTellsStarted
<1> QED  BY <1>4, <1>5

(* Every step keeps Fill's choice, when no policy wants more than a        *)
(* hundred pods in a value.                                                *)
LEMMA NextFillInv ==
  ASSUME HundredReplicas
  PROVE  IInv /\ FillInv /\ [Next]_vars => FillInv'
<1> SUFFICES ASSUME IInv, FillInv, [Next]_vars PROVE FillInv'
  OBVIOUS
<1>1. CASE phase' \in {"idle", "prefilter"}
  BY <1>1 DEF FillInv, HundredInCycle, FillFinishesStarted, HasState
<1>2. CASE PreFilter
  <2> DEFINE tsp == policies[PolicyOf[pod]]
  <2>1. phase' = "filter" /\ pod' = pod /\ pod \in Pods
    BY <1>2 DEF PreFilter, IInv, ControlOK, InCycle
  <2>2. ASSUME podRequireTopologyScheduling(pod)
        PROVE  \A v \in DOMAIN state'.Constraint.SchedulePolicy :
                 state'.Constraint.SchedulePolicy[v] <= 100
    <3>1. tsp \in PolicyVersions[PolicyOf[pod]] \ {Nil} /\ PolicyOf[pod] \in PolicyNames
      BY <1>2, <2>1, <2>2, PodAssumption DEF podRequireTopologyScheduling, IInv, VersionsOK, PreFilter
    <3>2. state'.Constraint.SchedulePolicy = CovertPolicy(tsp.deployPlacement)
      BY <1>2, <2>2 DEF PreFilter, calculatePreFilterStateCache
    <3> QED  BY <3>1, <3>2 DEF HundredReplicas
  <2> QED  BY <2>1, <2>2
           DEF FillInv, HundredInCycle, FillFinishesStarted, HasState, podRequireTopologyScheduling
<1>3. CASE \E n \in Nodes : SelectHost(n)
  <2>1. HundredInCycle'
    BY <1>3 DEF SelectHost, FillInv, HundredInCycle, HasState, podRequireTopologyScheduling
  <2> QED  BY <1>3, <2>1, SelectHostFinishes DEF FillInv
<1>4. CASE UNCHANGED <<snapVars, pod, state, phase>> /\ (phase = "reserve" => UNCHANGED <<feasible, host>>)
  BY <1>4 DEF FillInv, HundredInCycle, FillFinishesStarted, HasState, CountAt, Started, snapVars,
     podRequireTopologyScheduling
<1> QED
  BY <1>1, <1>2, <1>3, <1>4
  DEF Next, SchedulingCycle, BindingCycle, PodEvents, Churn, vars, cycleVars, snapVars,
      StartCycle, Filter, PreFilterFails, FilterFails, SelectFails, FailCycle, EndCycle, Reserve,
      ReservePanics, Bind, Unreserve, UnreservePanics, ForgetPod, CreatePod, TerminatePod,
      DeletePod, UpdateNode, UpdatePolicy, Restart

(* Fill finishes the values it has started: no host is selected in an      *)
(* empty value while a node is feasible in one that has some of its        *)
(* replicas, for any churn, if no policy wants more than a hundred pods in *)
(* a value (with 101 the fraction that score drops hides the first pod).   *)
THEOREM SpecFillFinishesStarted ==
  ASSUME HundredReplicas
  PROVE  Spec => []FillFinishesStarted
<1>1. Init => FillInv
  BY DEF Init, FillInv, HundredInCycle, FillFinishesStarted, HasState
<1>2. IInv /\ FillInv /\ [Next]_vars => FillInv'
  BY NextFillInv
<1>3. FillInv => FillFinishesStarted
  BY DEF FillInv
<1> QED  BY <1>1, <1>2, <1>3, SpecIInv, PTL DEF Spec

-------------------------------------------------------------------------------
(* Scores that the framework accepts. *)

(* A score of Fill, of an unknown strategy or of a value that has its      *)
(* replicas lies between 0 and 100: whatever churns, only Balance's fail a *)
(* pod that has a feasible node.                                           *)
THEOREM SpecOnlyBalanceRefused == Spec => []OnlyBalanceRefused
<1>1. IInv => OnlyBalanceRefused
  <2> SUFFICES ASSUME IInv, HasState, state.ScheduleStrategy # "Balance", NEW n \in feasible
               PROVE  InScoreRange(ScoreOf(pod, state, snapNodes[n]))
    BY DEF OnlyBalanceRefused
  <2> DEFINE value == snapNodes[n][state.Constraint.TopologyKey]
             desired == state.Constraint.SchedulePolicy[value]
             count == CountAt(state, n)
  <2>1. \/ ScoreOf(pod, state, snapNodes[n]) = 0
        \/ /\ ScoreOf(pod, state, snapNodes[n]) = score(count, desired, state.ScheduleStrategy)
           /\ value \in DOMAIN state.Constraint.SchedulePolicy
           /\ count < desired
    BY DEF ScoreOf, CountAt
  <2>2. count \in Nat
    <3>1. n \in Nodes
      BY DEF IInv, TypeOK
    <3> QED  BY <3>1, CountAtInt
  <2>3. value \in DOMAIN state.Constraint.SchedulePolicy => desired \in Int
    BY DEF IInv, ControlOK, IsPreFilterState, IntegersOver
  <2>4. state.ScheduleStrategy # "Fill" => score(count, desired, state.ScheduleStrategy) = 0
    BY DEF score
  <2> HIDE DEF count, desired, value
  <2>5. CASE ScoreOf(pod, state, snapNodes[n]) = 0
    BY <2>5 DEF InScoreRange
  <2>6. CASE ScoreOf(pod, state, snapNodes[n]) # 0
    <3>1. state.ScheduleStrategy = "Fill"
      BY <2>1, <2>4, <2>6
    <3>2. score(count, desired, "Fill") \in 0..100
      <4>1. count \in Int /\ desired \in Int /\ 0 <= count /\ count < desired
        BY <2>1, <2>2, <2>3, <2>6
      <4> QED  BY <4>1, FillScores
    <3> QED  BY <2>1, <2>6, <3>1, <3>2 DEF InScoreRange
  <2> QED  BY <2>5, <2>6
<1> QED  BY <1>1, SpecIInv, PTL

===============================================================================
