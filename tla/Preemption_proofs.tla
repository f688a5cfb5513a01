--------------------------- MODULE Preemption_proofs ---------------------------
(***************************************************************************)
(* Proofs about Preemption for any pods, priorities, nodes and policies:   *)
(* a dry run's state is the cycle's own with the counters that fit the     *)
(* pods it has removed, in whatever order it removes and adds them and     *)
(* whatever the dry runs of other nodes do.                                *)
(***************************************************************************)
EXTENDS Preemption, TopologyScheduling_proofs

(* The pods on a node, and the counter of a pair in a dry run on it that   *)
(* has removed R: terminating pods were never counted, yet are subtracted. *)
PodsOn(n) == {q \in Pods : snapPlace[q] = n}

Matching(pair) == PodsMatchSelector(state.Constraint.Selector, pair[1], pair[2])

Uncounted(n, pair, R) ==
  {q \in state.Constraint.Selector \cap snapTerm \cap R : PairOn(state, snapNodes[n]) = pair}

Counter(n, pair, R) ==
  Cardinality(Matching(pair) \ R) - Cardinality(Uncounted(n, pair, R))

(* The cycle's state but for those counters. *)
Without(n, R) ==
  [Constraint |-> state.Constraint,
   TpPairToMatchNum |-> [pair \in PairsOf(pod, state.Constraint.TopologyKey) |-> Counter(n, pair, R)],
   ScheduleStrategy |-> state.ScheduleStrategy]

(* A dry run that may help has such a state, and Filter has accepted it    *)
(* under some version of the policy.                                       *)
DryOK(n) ==
  LET d == dry[n] IN
  /\ d = [state |-> d.state, at |-> d.at, left |-> d.left, removed |-> d.removed]
  /\ d.at \in {"untried", "reprieve", "rejected"}
  /\ d.state = Nil \/ IsPreFilterState(d.state)
  /\ d.left \subseteq d.removed /\ d.removed \subseteq Lower(n)
  /\ d.at # "reprieve" => d.left = {}
  /\ d.at = "reprieve" /\ podRequireTopologyScheduling(pod) =>
       /\ d.state = Without(n, d.removed)
       /\ \E tsp \in PolicyVersions[PolicyOf[pod]] \ {Nil} :
            FilterAccepts(pod, d.state, tsp, snapNodes[n])

DryInv ==
  /\ Preempting => phase = "filter" /\ todo = {} /\ feasible = {}
  /\ DOMAIN dry # {} => chosen = Nil
  /\ \A n \in DOMAIN dry : n \in Candidates /\ DryOK(n)
  /\ chosen \in Nodes \cup {Nil}
  /\ victims \subseteq Pods
  /\ nominated \in [Pods -> Nodes \cup {Nil}]

(* AddPod panics where the pod's own nodes do not have the value only.     *)
AddPanicInv ==
  panicked = "AddPod" =>
    \E n \in Nodes :
      /\ snapNodes[n] # Nil
      /\ PairOn(state, snapNodes[n]) \notin PairsOf(pod, state.Constraint.TopologyKey)

PInv == IInv /\ DryInv /\ AddPanicInv

-------------------------------------------------------------------------------
(* What the states of dry runs are.                                        *)

(* The sizes of disjoint sets add up. *)
LEMMA DisjointUnion ==
  ASSUME NEW A, NEW B, IsFiniteSet(A), IsFiniteSet(B), A \cap B = {}
  PROVE  Cardinality(A \cup B) = Cardinality(A) + Cardinality(B)
<1>1. Cardinality(A \cap B) = 0
  BY FS_EmptySet
<1>2. Cardinality(A) \in Nat /\ Cardinality(B) \in Nat
  BY FS_CardinalityType
<1>3. Cardinality(A \cup B) = Cardinality(A) + Cardinality(B) - Cardinality(A \cap B)
  BY FS_Union
<1> QED  BY <1>1, <1>2, <1>3

(* Every set of pods has a size. *)
LEMMA PodSetsFinite ==
  \A S \in SUBSET Pods : IsFiniteSet(S) /\ Cardinality(S) \in Nat
BY FiniteAssumption, FS_Subset, FS_CardinalityType

(* In a cycle that filters for a policy, a candidate has a counted value.  *)
LEMMA CandidateCounted ==
  ASSUME IInv, HasState, NEW n \in Candidates
  PROVE  /\ n \in Nodes /\ snapNodes[n] # Nil
         /\ snapNodes[n][state.Constraint.TopologyKey] # Nil
         /\ PairOn(state, snapNodes[n]) \in PairsOf(pod, state.Constraint.TopologyKey)
<1>1. /\ n \in Nodes /\ snapNodes[n] # Nil /\ n \in OtherFilters[pod]
      /\ snapNodes[n][state.Constraint.TopologyKey] # Nil
  BY DEF Candidates, HasState
<1>2. pod \in Pods
  BY DEF IInv, ControlOK, InCycle, HasState
<1>3. n \in NodeSelector[pod]
  BY <1>1, <1>2, SelectorAssumption DEF SelectorEnforced
<1> QED  BY <1>1, <1>3 DEF PairsOf, PairOn

(* What removing the pods S after R does to a counter. *)
Moves(n, R, S, pair) ==
  /\ Counter(n, pair, R) \in Int
  /\ Cardinality(S \cap state.Constraint.Selector) \in Nat
  /\ Counter(n, pair, R \cup S) =
       IF pair = PairOn(state, snapNodes[n])
       THEN Counter(n, pair, R) - Cardinality(S \cap state.Constraint.Selector)
       ELSE Counter(n, pair, R)

(* Removing more pods of the node lowers the counter of its value by those *)
(* of them that the selector matches, and no other counter.                *)
LEMMA CounterMoves ==
  ASSUME IInv, HasState, NEW n \in Candidates,
         NEW R \in SUBSET PodsOn(n), NEW S \in SUBSET PodsOn(n), R \cap S = {},
         NEW pair \in PairsOf(pod, state.Constraint.TopologyKey)
  PROVE  Moves(n, R, S, pair)
<1> USE DEF Moves
<1> DEFINE sel == state.Constraint.Selector
           key == state.Constraint.TopologyKey
           value == snapNodes[n][key]
           M == Matching(pair)
<1>1. IsPreFilterState(state) /\ sel \subseteq Pods
  BY DEF IInv, ControlOK, IsPreFilterState
<1>2. /\ n \in Nodes /\ snapNodes[n] # Nil /\ value # Nil
      /\ PairOn(state, snapNodes[n]) = <<key, value>> /\ n # Nil
  BY CandidateCounted, NilAssumption DEF PairOn, TopologyPair
<1>3. M \subseteq sel
  BY DEF Matching, PodsMatchSelector
<1>4. PICK v : pair = <<key, v>>
  BY DEF PairsOf, TopologyPair
<1>5. \A q \in S : snapPlace[q] = n /\ q \in Pods /\ q \notin R
  BY DEF PodsOn
<1>6. /\ IsFiniteSet(M \ R) /\ Cardinality(M \ R) \in Nat
      /\ IsFiniteSet(M \ (R \cup S)) /\ Cardinality(M \ (R \cup S)) \in Nat
      /\ IsFiniteSet(S \cap M) /\ Cardinality(S \cap M) \in Nat
      /\ IsFiniteSet(S \cap sel \cap snapTerm) /\ Cardinality(S \cap sel \cap snapTerm) \in Nat
      /\ Cardinality(S \cap sel) \in Nat
  <2>1. /\ M \ R \in SUBSET Pods /\ M \ (R \cup S) \in SUBSET Pods /\ S \cap M \in SUBSET Pods
        /\ S \cap sel \cap snapTerm \in SUBSET Pods /\ S \cap sel \in SUBSET Pods
    BY <1>1, <1>3
  <2> QED  BY <2>1, PodSetsFinite
<1>7. \A Q : IsFiniteSet(Uncounted(n, pair, Q)) /\ Cardinality(Uncounted(n, pair, Q)) \in Nat
  <2> TAKE Q
  <2>1. Uncounted(n, pair, Q) \in SUBSET Pods
    BY <1>1 DEF Uncounted
  <2> QED  BY <2>1, PodSetsFinite
<1>8. CASE pair = PairOn(state, snapNodes[n])
  <2>1. \A q \in S \cap sel : q \in M <=> q \notin snapTerm
    BY <1>2, <1>5, <1>8 DEF Matching, PodsMatchSelector, LabelOf
  <2>2. Cardinality(S \cap sel) = Cardinality(S \cap M) + Cardinality(S \cap sel \cap snapTerm)
    <3>1. S \cap sel = (S \cap M) \cup (S \cap sel \cap snapTerm)
      BY <1>3, <2>1
    <3>2. (S \cap M) \cap (S \cap sel \cap snapTerm) = {}
      BY <1>3, <2>1
    <3> HIDE DEF M, sel
    <3> QED  BY <1>6, <3>1, <3>2, DisjointUnion
  <2>3. Cardinality(M \ R) = Cardinality(M \ (R \cup S)) + Cardinality(S \cap M)
    <3>1. M \ R = (M \ (R \cup S)) \cup (S \cap M) /\ (M \ (R \cup S)) \cap (S \cap M) = {}
      BY <1>5
    <3> HIDE DEF M
    <3> QED  BY <1>6, <3>1, DisjointUnion
  <2>4. Cardinality(Uncounted(n, pair, R \cup S)) =
          Cardinality(Uncounted(n, pair, R)) + Cardinality(S \cap sel \cap snapTerm)
    <3>1. /\ Uncounted(n, pair, R \cup S) = Uncounted(n, pair, R) \cup (S \cap sel \cap snapTerm)
          /\ Uncounted(n, pair, R) \cap (S \cap sel \cap snapTerm) = {}
      BY <1>5, <1>8 DEF Uncounted
    <3> HIDE DEF sel
    <3> QED  BY <1>6, <1>7, <3>1, DisjointUnion
  <2> HIDE DEF M, sel
  <2>5. Counter(n, pair, R \cup S) = Counter(n, pair, R) - Cardinality(S \cap sel)
    BY <1>6, <1>7, <2>2, <2>3, <2>4 DEF Counter, M
  <2> QED  BY <1>6, <1>7, <1>8, <2>5 DEF Counter, M, sel
<1>9. CASE pair # PairOn(state, snapNodes[n])
  <2>1. S \cap M = {}
    <3>1. v # value
      BY <1>2, <1>4, <1>9
    <3> QED  BY <1>2, <1>4, <1>5, <3>1 DEF Matching, PodsMatchSelector, LabelOf
  <2>2. M \ (R \cup S) = M \ R
    BY <2>1
  <2>3. Uncounted(n, pair, R \cup S) = Uncounted(n, pair, R)
    BY <1>9 DEF Uncounted
  <2>4. Counter(n, pair, R \cup S) = Counter(n, pair, R)
    BY <2>2, <2>3 DEF Counter
  <2>5. Counter(n, pair, R) \in Int
    BY <1>6, <1>7 DEF Counter
  <2> QED  BY <1>6, <1>9, <2>4, <2>5
<1> QED  BY <1>8, <1>9

(* The cycle's own state is what a dry run has that has removed nothing.   *)
LEMMA StateIsWithout ==
  ASSUME IInv, HasState, NEW n
  PROVE  state = Without(n, {}) /\ IsPreFilterState(state)
<1> DEFINE c == state.Constraint
<1>1. IsPreFilterState(state)
  BY DEF IInv, ControlOK
<1>2. state.TpPairToMatchNum =
        [pair \in PairsOf(pod, c.TopologyKey) |->
           Cardinality(PodsMatchSelector(c.Selector, pair[1], pair[2]))]
  BY DEF IInv, CountersFromSnapshot
<1>3. \A pair : Counter(n, pair, {}) = Cardinality(PodsMatchSelector(c.Selector, pair[1], pair[2]))
  <2> TAKE pair
  <2>1. Uncounted(n, pair, {}) = {} /\ Matching(pair) \ {} = Matching(pair)
    BY DEF Uncounted
  <2>2. Matching(pair) \in SUBSET Pods
    BY <1>1 DEF Matching, PodsMatchSelector, IsPreFilterState
  <2>3. Cardinality(Matching(pair)) \in Nat
    BY <2>2, PodSetsFinite
  <2> QED  BY <2>1, <2>3, FS_EmptySet DEF Counter, Matching
<1>4. state = [Constraint |-> state.Constraint, TpPairToMatchNum |-> state.TpPairToMatchNum,
               ScheduleStrategy |-> state.ScheduleStrategy]
  BY <1>1 DEF IsPreFilterState
<1>5. state.TpPairToMatchNum = [pair \in PairsOf(pod, c.TopologyKey) |-> Counter(n, pair, {})]
  BY <1>2, <1>3
<1> QED  BY <1>1, <1>4, <1>5 DEF Without

(* Such states are well-formed.                                            *)
LEMMA WithoutTyped ==
  ASSUME IInv, HasState, NEW n \in Candidates, NEW R \in SUBSET PodsOn(n)
  PROVE  IsPreFilterState(Without(n, R))
<1>1. IsPreFilterState(state) /\ state = Without(n, {})
  BY StateIsWithout
<1> DEFINE P == PairsOf(pod, state.Constraint.TopologyKey)
<1>2. P \subseteq Pairs
  <2>1. DOMAIN state.TpPairToMatchNum = P
    BY <1>1 DEF Without
  <2> QED  BY <1>1, <2>1 DEF IsPreFilterState, IsCounters, IntegersOver
<1>3. \A pair \in P : Counter(n, pair, R) \in Int
  <2>1. {} \in SUBSET PodsOn(n) /\ R \cap {} = {}
    OBVIOUS
  <2>2. \A pair \in P : Moves(n, R, {}, pair)
    BY <2>1, CounterMoves
  <2> QED  BY <2>2 DEF Moves
<1>4. IsCounters([pair \in P |-> Counter(n, pair, R)])
  <2> HIDE DEF P
  <2> QED  BY <1>2, <1>3 DEF IsCounters, IntegersOver
<1> QED  BY <1>1, <1>4 DEF Without, IsPreFilterState

(* Removing pods from such a state, and adding them, gives another.        *)
LEMMA UpdateWithout ==
  ASSUME IInv, HasState, NEW n \in Candidates,
         NEW R \in SUBSET PodsOn(n), NEW S \in SUBSET PodsOn(n), R \cap S = {}
  PROVE  /\ RemovePods(Without(n, R), S, n) = Without(n, R \cup S)
         /\ AddPods(Without(n, R \cup S), S, n) = Without(n, R)
<1> DEFINE c == state.Constraint
           P == PairsOf(pod, c.TopologyKey)
           labels == snapNodes[n]
           here == PairOn(state, labels)
           k == Cardinality(S \cap c.Selector)
           F == [pair \in P |-> Counter(n, pair, R)]
           G == [pair \in P |-> Counter(n, pair, R \cup S)]
<1>1. podRequireTopologyScheduling(pod)
  BY DEF HasState
<1>2. /\ labels # Nil /\ labels[c.TopologyKey] # Nil /\ here \in P
  BY CandidateCounted
<1>3. k \in Nat
  <2>1. Moves(n, R, S, here)
    BY <1>2, CounterMoves
  <2> QED  BY <2>1 DEF Moves
<1>4. \A pair \in P :
        /\ F[pair] \in Int
        /\ G[pair] = IF pair = here THEN F[pair] - k ELSE F[pair]
  <2> TAKE pair \in P
  <2>1. F[pair] = Counter(n, pair, R) /\ G[pair] = Counter(n, pair, R \cup S)
    OBVIOUS
  <2>2. Moves(n, R, S, pair)
    BY CounterMoves
  <2> HIDE DEF F, G
  <2> QED  BY <2>1, <2>2 DEF Moves
<1>5. ASSUME NEW Q
      PROVE  /\ PairOn(Without(n, Q), labels) = here
             /\ Without(n, Q).Constraint = c
             /\ \A q : updatesPair(Without(n, Q), q, labels) <=> q \in c.Selector
  BY <1>2 DEF Without, updatesPair, PairOn
<1>6. CASE S \cap c.Selector = {}
  <2>1. k = 0
    BY <1>6, FS_EmptySet
  <2>2. F = G
    <3>1. \A pair \in P : F[pair] = G[pair]
      <4> HIDE DEF F, G, k, here, P
      <4> QED  BY <1>4, <2>1
    <3> HIDE DEF P
    <3> QED  BY <3>1
  <2>3. Without(n, R) = Without(n, R \cup S)
    BY <2>2 DEF Without
  <2> QED  BY <1>1, <1>5, <1>6, <2>3 DEF RemovePods, AddPods, updateWithPods
<1>7. CASE S \cap c.Selector # {}
  <2>1. G = [F EXCEPT ![here] = @ + (-1) * k] /\ F = [G EXCEPT ![here] = @ + 1 * k]
    <3> HIDE DEF k, P, here
    <3>1. \A pair \in P :
            /\ G[pair] = IF pair = here THEN F[pair] + (-1) * k ELSE F[pair]
            /\ F[pair] = IF pair = here THEN G[pair] + 1 * k ELSE G[pair]
      <4> HIDE DEF F, G
      <4> QED  BY <1>3, <1>4
    <3> QED  BY <3>1
  <2> DEFINE r(f) == [Constraint |-> c, TpPairToMatchNum |-> f,
                      ScheduleStrategy |-> state.ScheduleStrategy]
  <2>2. Without(n, R) = r(F) /\ Without(n, R \cup S) = r(G)
    BY DEF Without
  <2>3. RemovePods(r(F), S, n) = [r(F) EXCEPT !.TpPairToMatchNum[here] = @ + (-1) * k]
    BY <1>1, <1>5, <1>7, <2>2 DEF RemovePods, updateWithPods
  <2>4. AddPods(r(G), S, n) = [r(G) EXCEPT !.TpPairToMatchNum[here] = @ + 1 * k]
    <3>1. /\ \E q \in S : updatesPair(r(G), q, labels)
          /\ PairOn(r(G), labels) = here /\ r(G).Constraint = c
      BY <1>5, <1>7, <2>2
    <3> HIDE DEF r, G, here
    <3> QED  BY <1>1, <3>1 DEF AddPods, updateWithPods
  <2>5. ASSUME NEW f, NEW d
        PROVE  [r(f) EXCEPT !.TpPairToMatchNum[here] = @ + d] = r([f EXCEPT ![here] = @ + d])
    <3> HIDE DEF here, c
    <3> QED  OBVIOUS
  <2>6. /\ RemovePods(r(F), S, n) = r([F EXCEPT ![here] = @ + (-1) * k])
        /\ AddPods(r(G), S, n) = r([G EXCEPT ![here] = @ + 1 * k])
    <3>1. [r(F) EXCEPT !.TpPairToMatchNum[here] = @ + (-1) * k] = r([F EXCEPT ![here] = @ + (-1) * k])
      <4> HIDE DEF F, k, here, c
      <4> QED  BY <2>5
    <3>2. [r(G) EXCEPT !.TpPairToMatchNum[here] = @ + 1 * k] = r([G EXCEPT ![here] = @ + 1 * k])
      <4> HIDE DEF G, k, here, c
      <4> QED  BY <2>5
    <3> HIDE DEF r, F, G, k, here, c
    <3> QED  BY <2>3, <2>4, <3>1, <3>2
  <2> HIDE DEF r, F, G, k, here, c
  <2> QED  BY <2>1, <2>2, <2>6
<1> QED  BY <1>6, <1>7

(* No state of a cycle is the mark of a shared one.                        *)
LEMMA NotShared ==
  ASSUME NEW s, s = Nil \/ IsPreFilterState(s)
  PROVE  s # Shared
<1>1. CASE s = Nil
  BY <1>1, SharedAssumption
<1>2. CASE IsPreFilterState(s)
  <2>1. \A f, S : IntegersOver(f, S) => f \in UNION {[D -> Int] : D \in SUBSET S}
    BY DEF IntegersOver
  <2>2. s \in PreFilterStates
    BY <1>2, <2>1 DEF IsPreFilterState, IsCounters, PreFilterStates
  <2> QED  BY <2>2, SharedAssumption
<1> QED  BY <1>1, <1>2

-------------------------------------------------------------------------------
(* Every step keeps IInv: TopologyScheduling's steps do, and what is new   *)
(* here either filters a node, ends the cycle or leaves it alone.          *)

(* Filtering beside nominated pods adds nodes of the snapshot only. *)
LEMMA FilterBesideIInv ==
  ASSUME IInv, NEW n \in Nodes, FilterBeside(n)
  PROVE  IInv'
<1> USE DEF IInv, FilterBeside, podVars, worldVars, snapVars, bindVars
<1>1. feasible' \subseteq feasible \cup {n} /\ todo' = todo \ {n} /\ n \in todo
  OBVIOUS
<1>2. TypeOK'
  BY <1>1 DEF TypeOK, Phases
<1>3. ControlOK'
  BY <1>1 DEF ControlOK, InCycle, HasState, HoldsPlace, InBinding
<1>4. VersionsOK'
  BY DEF VersionsOK
<1>5. CountersFromSnapshot'
  BY CountersRest DEF HasState
<1>6. SnapshotCoversCache' /\ ReservePanicsOffSelectorOnly'
  BY DEF SnapshotCoversCache, ReservePanicsOffSelectorOnly
<1> QED  BY <1>2, <1>3, <1>4, <1>5, <1>6

(* The panic leaves the cycle as it is: the missing counter is of a value  *)
(* that none of the pod's own nodes has.                                   *)
LEMMA AddPodPanicsIInv ==
  ASSUME IInv, NEW n \in Nodes, AddPodPanics(n)
  PROVE  IInv' /\ AddPanicInv'
<1> USE DEF IInv, AddPodPanics, podVars, worldVars, snapVars, cycleVars, bindVars
<1>1. TypeOK'
  BY DEF TypeOK
<1>2. ControlOK'
  BY DEF ControlOK, InCycle, HasState, HoldsPlace, InBinding
<1>3. VersionsOK'
  BY DEF VersionsOK
<1>4. CountersFromSnapshot'
  BY CountersRest DEF HasState
<1>5. SnapshotCoversCache' /\ ReservePanicsOffSelectorOnly'
  BY DEF SnapshotCoversCache, ReservePanicsOffSelectorOnly
<1>6. AddPanicInv'
  <2>1. DOMAIN state.TpPairToMatchNum = PairsOf(pod, state.Constraint.TopologyKey)
    BY DEF AddPanics, CountersFromSnapshot, HasState
  <2>2. /\ snapNodes[n] # Nil
        /\ PairOn(state, snapNodes[n]) \notin PairsOf(pod, state.Constraint.TopologyKey)
    BY <2>1 DEF AddPanics, updatePanics, updatesPair
  <2>3. UNCHANGED <<snapNodes, state, pod>>
    OBVIOUS
  <2> QED  BY <2>2, <2>3 DEF AddPanicInv, PairOn, PairsOf
<1> QED  BY <1>1, <1>2, <1>3, <1>4, <1>5, <1>6

(* A dry run leaves the cycle's state alone: no clone shares it.           *)
LEMMA RemoveLowerLeaves ==
  ASSUME PInv, NEW n \in Nodes, RemoveLower(n)
  PROVE  LET without == RemovePods(state, Lower(n), n)
             helps   == Lower(n) # {} /\ PassesOnNode(n, without)
         IN /\ UNCHANGED vars
            /\ dry' = [dry EXCEPT ![n] =
                 [state   |-> without,
                  at      |-> IF helps THEN "reprieve" ELSE "rejected",
                  left    |-> IF helps THEN Lower(n) ELSE {},
                  removed |-> Lower(n)]]
<1>1. state # Shared
  BY NotShared DEF PInv, IInv, TypeOK
<1> QED  BY <1>1 DEF RemoveLower, Leaves, Clone, vars, cycleVars

(* So does putting a pod back, and taking it out again when it must go. *)
LEMMA ReprieveLeaves ==
  ASSUME PInv, NEW n \in DOMAIN dry, NEW q \in dry[n].left, Reprieve(n, q)
  PROVE  LET d     == dry[n]
             with  == AddPods(d.state, {q}, n)
             stays == PassesOnNode(n, with)
         IN /\ UNCHANGED vars
            /\ dry' = [dry EXCEPT ![n] =
                 [state   |-> IF stays THEN with ELSE RemovePods(with, {q}, n),
                  at      |-> d.at,
                  left    |-> d.left \ {q},
                  removed |-> IF stays THEN d.removed \ {q} ELSE d.removed]]
<1>1. dry[n].state # Shared
  BY NotShared DEF PInv, DryInv, DryOK
<1>2. StateOf(n) = dry[n].state
  BY <1>1 DEF StateOf
<1> QED  BY <1>1, <1>2 DEF Reprieve, Leaves, vars, cycleVars

(* The steps that the nominator does not notice keep IInv. *)
LEMMA UnnoticedIInv ==
  ASSUME PInv, Unnoticed
  PROVE  IInv'
<1>1. IInv
  BY DEF PInv
<1>2. ASSUME NEW n \in Nodes, FilterAlone(n) PROVE IInv'
  BY <1>1, <1>2, FilterIInv DEF FilterAlone
<1>3. CASE SelectFailsAtOnce
  BY <1>1, <1>3, FailCycleIInv DEF SelectFailsAtOnce, SelectFails
<1>4. CASE PreFilterFails
  BY <1>1, <1>4, FailCycleIInv DEF PreFilterFails
<1>5. ASSUME NEW n \in Nodes, FilterFails(n) PROVE IInv'
  BY <1>1, <1>5, FailCycleIInv DEF FilterFails
<1>6. CASE BindingCycle
  BY <1>1, <1>6, BindIInv, UnreserveIInv, UnreservePanicsIInv, ForgetPodIInv DEF BindingCycle
<1> QED  BY <1>1, <1>2, <1>3, <1>4, <1>5, <1>6, StartCycleIInv, PreFilterIInv, FilterBesideIInv,
            AddPodPanicsIInv, SelectHostIInv, CreatePodIInv, TerminatePodIInv, ChurnIInv
         DEF Unnoticed

(* All steps keep IInv. *)
LEMMA PreemptNextIInv ==
  ASSUME PInv, [PreemptNext]_allVars
  PROVE  IInv'
<1>1. IInv
  BY DEF PInv
<1>2. CASE UNCHANGED vars
  BY <1>1, <1>2, StutterIInv
<1>3. CASE panicked = "none" /\ FailCycle
  BY <1>1, <1>3, FailCycleIInv
<1>4. CASE Preempt
  <2>1. ASSUME NEW n \in Nodes, RemoveLower(n) PROVE IInv'
    BY <1>2, <2>1, RemoveLowerLeaves
  <2>2. ASSUME NEW n \in DOMAIN dry, NEW q \in dry[n].left, Reprieve(n, q) PROVE IInv'
    BY <1>2, <2>2, ReprieveLeaves
  <2>3. ASSUME NEW q \in Pods, DeleteVictim(q) PROVE IInv'
    BY <1>1, <1>2, <2>3, TerminatePodIInv DEF DeleteVictim
  <2>4. CASE StartPreemption \/ \E n \in Nodes : Choose(n)
    BY <1>2, <2>4 DEF StartPreemption, Choose
  <2>5. CASE Nominate \/ PreemptionFails
    BY <1>3, <2>5 DEF Nominate, PreemptionFails
  <2> QED  BY <1>4, <2>1, <2>2, <2>3, <2>4, <2>5 DEF Preempt
<1>5. CASE UNCHANGED allVars
  BY <1>2, <1>5 DEF allVars
<1> QED  BY <1>1, <1>4, <1>5, UnnoticedIInv, ReserveIInv, DeletePodIInv, RestartIInv
         DEF PreemptNext

-------------------------------------------------------------------------------
(* Every step keeps DryInv. *)

(* What a dry run works with rests while the cycle and its snapshot do.    *)
LEMMA WithoutRests ==
  ASSUME UNCHANGED <<snapVars, cycleVars>>, NEW n
  PROVE  Lower(n)' = Lower(n) /\ \A R : Without(n, R)' = Without(n, R)
<1> USE DEF snapVars, cycleVars
<1>1. Lower(n)' = Lower(n)
  BY DEF Lower
<1>2. PairsOf(pod, state.Constraint.TopologyKey)' = PairsOf(pod, state.Constraint.TopologyKey)
  BY DEF PairsOf
<1>3. \A pair, R : Counter(n, pair, R)' = Counter(n, pair, R)
  BY DEF Counter, Matching, Uncounted, PodsMatchSelector, PairOn
<1> QED  BY <1>1, <1>2, <1>3 DEF Without

(* A dry run that a step does not touch stays as good as it is.            *)
LEMMA DryOKRests ==
  ASSUME UNCHANGED <<snapVars, cycleVars>>, NEW n, dry'[n] = dry[n]
  PROVE  DryOK(n)' = DryOK(n)
BY WithoutRests DEF DryOK, snapVars, cycleVars

(* Which nodes are candidates rests too. *)
LEMMA CandidatesRest ==
  ASSUME UNCHANGED <<snapVars, cycleVars>>
  PROVE  Candidates' = Candidates
BY DEF Candidates, snapVars, cycleVars

(* A step beside the cycle keeps DryInv, as long as victims and            *)
(* nominations stay pods and nodes.                                        *)
LEMMA DryRests ==
  ASSUME DryInv, UNCHANGED <<snapVars, cycleVars, dry, chosen>>,
         victims' \subseteq Pods, nominated' \in [Pods -> Nodes \cup {Nil}]
  PROVE  DryInv'
<1>1. \A n \in DOMAIN dry' : (n \in Candidates /\ DryOK(n))'
  BY DryOKRests, CandidatesRest DEF DryInv
<1>2. (Preempting => phase = "filter" /\ todo = {} /\ feasible = {})'
  BY DEF DryInv, Preempting, cycleVars
<1> QED  BY <1>1, <1>2 DEF DryInv

(* Outside preemption there is nothing else to show. *)
LEMMA NoDryRuns ==
  ASSUME DOMAIN dry' = {}, chosen' = Nil,
         victims' \subseteq Pods, nominated' \in [Pods -> Nodes \cup {Nil}]
  PROVE  DryInv'
BY DEF DryInv, Preempting

(* Preemption starts with untried dry runs, after all nodes were filtered. *)
LEMMA StartPreemptionDry ==
  ASSUME PInv, StartPreemption
  PROVE  DryInv'
<1>1. DOMAIN dry' = Candidates /\ \A n \in Candidates : dry'[n] = Untried
  BY DEF StartPreemption
<1>2. UNCHANGED <<snapVars, cycleVars, chosen, victims, nominated>>
  BY DEF StartPreemption, vars
<1>3. phase = "filter" /\ todo = {} /\ feasible = {} /\ chosen = Nil
  BY DEF StartPreemption, MayPreempt, Preempting
<1>4. \A n \in DOMAIN dry' : (n \in Candidates /\ DryOK(n))'
  BY <1>1, <1>2, CandidatesRest DEF DryOK, Untried
<1>5. (Preempting => phase = "filter" /\ todo = {} /\ feasible = {})'
  BY <1>2, <1>3 DEF cycleVars
<1> QED  BY <1>2, <1>3, <1>4, <1>5 DEF PInv, DryInv

(* A dry run that takes a step is as good after it if the record it leaves *)
(* is.                                                                     *)
LEMMA DryStep ==
  ASSUME DryInv, UNCHANGED vars, UNCHANGED <<chosen, victims, nominated>>,
         NEW n \in DOMAIN dry, NEW e, dry' = [dry EXCEPT ![n] = e], DryOK(n)'
  PROVE  DryInv'
<1>1. UNCHANGED <<snapVars, cycleVars>>
  BY DEF vars
<1>2. DOMAIN dry' = DOMAIN dry /\ \A m \in DOMAIN dry : m # n => dry'[m] = dry[m]
  OBVIOUS
<1>3. \A m \in DOMAIN dry' : (m \in Candidates /\ DryOK(m))'
  BY <1>1, <1>2, DryOKRests, CandidatesRest DEF DryInv
<1>4. (Preempting => phase = "filter" /\ todo = {} /\ feasible = {})'
  BY <1>1, <1>2 DEF DryInv, Preempting, cycleVars
<1> QED  BY <1>2, <1>3, <1>4 DEF DryInv

(* What Filter has accepted, it has accepted under a version of the policy.*)
LEMMA PassedUnderVersion ==
  ASSUME IInv, pod \in Pods, podRequireTopologyScheduling(pod), NEW n, NEW s, PassesOnNode(n, s)
  PROVE  \E tsp \in PolicyVersions[PolicyOf[pod]] \ {Nil} :
           FilterAccepts(pod, s, tsp, snapNodes[n])
<1>1. /\ policies[PolicyOf[pod]] # Nil
      /\ FilterAccepts(pod, s, policies[PolicyOf[pod]], snapNodes[n])
  BY DEF PassesOnNode, Accepted
<1>2. PolicyOf[pod] \in PolicyNames
  BY PodAssumption DEF podRequireTopologyScheduling
<1>3. policies[PolicyOf[pod]] \in PolicyVersions[PolicyOf[pod]]
  BY <1>2 DEF IInv, VersionsOK
<1> QED  BY <1>1, <1>3

(* Taking all lower pods out leaves the counters of those that are left. *)
LEMMA RemoveLowerDry ==
  ASSUME PInv, NEW n \in Nodes, RemoveLower(n)
  PROVE  DryInv'
<1> DEFINE without == RemovePods(state, Lower(n), n)
           helps == Lower(n) # {} /\ PassesOnNode(n, without)
           e == [state   |-> without,
                 at      |-> IF helps THEN "reprieve" ELSE "rejected",
                 left    |-> IF helps THEN Lower(n) ELSE {},
                 removed |-> Lower(n)]
<1>1. UNCHANGED vars /\ dry' = [dry EXCEPT ![n] = e]
  BY RemoveLowerLeaves
<1>2. /\ n \in DOMAIN dry /\ UNCHANGED <<chosen, victims, nominated>>
      /\ IInv /\ DryInv /\ n \in Candidates
  BY DEF RemoveLower, PInv, DryInv
<1>3. phase = "filter" /\ pod \in Pods
  BY <1>2 DEF DryInv, Preempting, IInv, ControlOK, InCycle
<1>4. Lower(n) \in SUBSET PodsOn(n) /\ {} \in SUBSET PodsOn(n) /\ {} \cap Lower(n) = {}
      /\ {} \cup Lower(n) = Lower(n)
  BY DEF Lower, PodsOn
<1>5. /\ without = Nil \/ IsPreFilterState(without)
      /\ helps /\ podRequireTopologyScheduling(pod) =>
           /\ without = Without(n, Lower(n))
           /\ \E tsp \in PolicyVersions[PolicyOf[pod]] \ {Nil} :
                FilterAccepts(pod, without, tsp, snapNodes[n])
  <2>1. CASE podRequireTopologyScheduling(pod)
    <3>1. HasState
      BY <1>3, <2>1 DEF HasState
    <3>2. state = Without(n, {})
      BY <1>2, <3>1, StateIsWithout
    <3>3. without = Without(n, Lower(n))
      BY <1>2, <1>4, <3>1, <3>2, UpdateWithout
    <3>4. IsPreFilterState(without)
      BY <1>2, <1>4, <3>1, <3>3, WithoutTyped
    <3> HIDE DEF without
    <3>5. helps => \E tsp \in PolicyVersions[PolicyOf[pod]] \ {Nil} :
                     FilterAccepts(pod, without, tsp, snapNodes[n])
      BY <1>2, <1>3, <2>1, PassedUnderVersion
    <3> QED  BY <3>3, <3>4, <3>5
  <2>2. CASE ~ podRequireTopologyScheduling(pod)
    BY <1>2, <2>2 DEF RemovePods, IInv, TypeOK
  <2> QED  BY <2>1, <2>2
<1> HIDE DEF without, helps
<1>6. Lower(n)' = Lower(n) /\ \A R : Without(n, R)' = Without(n, R)
  BY <1>1, WithoutRests DEF vars
<1>7. UNCHANGED <<pod, snapNodes>>
  BY <1>1 DEF vars, cycleVars, snapVars
<1>8. dry'[n] = e
  BY <1>1, <1>2
<1>9. DryOK(n)'
  BY <1>5, <1>6, <1>7, <1>8 DEF DryOK
<1> HIDE DEF e
<1> QED  BY <1>1, <1>2, <1>9, DryStep

(* So does putting one back, to stay or not. *)
LEMMA ReprieveDry ==
  ASSUME PInv, NEW n \in DOMAIN dry, NEW q \in dry[n].left, Reprieve(n, q)
  PROVE  DryInv'
<1> DEFINE d == dry[n]
           with == AddPods(d.state, {q}, n)
           stays == PassesOnNode(n, with)
           after == IF stays THEN with ELSE RemovePods(with, {q}, n)
           gone == IF stays THEN d.removed \ {q} ELSE d.removed
           e == [state |-> after, at |-> d.at, left |-> d.left \ {q}, removed |-> gone]
<1>1. UNCHANGED vars /\ dry' = [dry EXCEPT ![n] = e]
  BY ReprieveLeaves
<1>2. /\ UNCHANGED <<chosen, victims, nominated>>
      /\ IInv /\ DryInv /\ n \in Candidates /\ DryOK(n)
  BY DEF Reprieve, PInv, DryInv
<1>3. phase = "filter" /\ pod \in Pods
  BY <1>2 DEF DryInv, Preempting, IInv, ControlOK, InCycle
<1>4. /\ d.at = "reprieve" /\ q \in d.removed /\ d.removed \subseteq Lower(n)
      /\ d.left \subseteq d.removed /\ Lower(n) \subseteq PodsOn(n)
  BY <1>2 DEF DryOK, Lower, PodsOn
<1>5. /\ after = Nil \/ IsPreFilterState(after)
      /\ podRequireTopologyScheduling(pod) =>
           /\ after = Without(n, gone)
           /\ \E tsp \in PolicyVersions[PolicyOf[pod]] \ {Nil} :
                FilterAccepts(pod, after, tsp, snapNodes[n])
  <2>1. CASE podRequireTopologyScheduling(pod)
    <3> DEFINE R == d.removed \ {q}
    <3>1. HasState
      BY <1>3, <2>1 DEF HasState
    <3>2. /\ d.state = Without(n, d.removed)
          /\ \E tsp \in PolicyVersions[PolicyOf[pod]] \ {Nil} :
               FilterAccepts(pod, d.state, tsp, snapNodes[n])
      BY <1>2, <1>4, <2>1 DEF DryOK
    <3>3. /\ R \in SUBSET PodsOn(n) /\ {q} \in SUBSET PodsOn(n) /\ R \cap {q} = {}
          /\ d.removed = R \cup {q} /\ d.removed \in SUBSET PodsOn(n)
      BY <1>4
    <3> HIDE DEF R
    <3>4. /\ RemovePods(Without(n, R), {q}, n) = Without(n, R \cup {q})
          /\ AddPods(Without(n, R \cup {q}), {q}, n) = Without(n, R)
      BY <1>2, <3>1, <3>3, UpdateWithout
    <3>5. with = Without(n, R) /\ RemovePods(with, {q}, n) = d.state
      BY <3>2, <3>3, <3>4
    <3>6. /\ after = IF stays THEN with ELSE d.state
          /\ gone = IF stays THEN R ELSE d.removed
      BY <3>5 DEF R
    <3> HIDE DEF with, gone, after
    <3>7. stays => \E tsp \in PolicyVersions[PolicyOf[pod]] \ {Nil} :
                     FilterAccepts(pod, with, tsp, snapNodes[n])
      BY <1>2, <1>3, <2>1, PassedUnderVersion
    <3> HIDE DEF stays
    <3>8. after = Without(n, gone) /\ gone \in SUBSET PodsOn(n)
      BY <3>2, <3>3, <3>5, <3>6
    <3>9. IsPreFilterState(after)
      BY <1>2, <3>1, <3>8, WithoutTyped
    <3> QED  BY <3>2, <3>6, <3>7, <3>8, <3>9
  <2>2. CASE ~ podRequireTopologyScheduling(pod)
    BY <1>2, <2>2 DEF AddPods, RemovePods, DryOK
  <2> QED  BY <2>1, <2>2
<1>6. gone \subseteq Lower(n) /\ d.left \ {q} \subseteq gone
  BY <1>4
<1> HIDE DEF after, gone, d
<1>7. Lower(n)' = Lower(n) /\ \A R : Without(n, R)' = Without(n, R)
  BY <1>1, WithoutRests DEF vars
<1>8. UNCHANGED <<pod, snapNodes>>
  BY <1>1 DEF vars, cycleVars, snapVars
<1>9. dry'[n] = e
  BY <1>1
<1>10. DryOK(n)'
  BY <1>4, <1>5, <1>6, <1>7, <1>8, <1>9 DEF DryOK
<1> HIDE DEF e
<1> QED  BY <1>1, <1>2, <1>10, DryStep

(* A step of the scheduler that the nominator does not notice, and during  *)
(* preemption nothing of the cycle moves in one.                           *)
LEMMA UnnoticedDry ==
  ASSUME PInv, Unnoticed, UNCHANGED preemptVars
  PROVE  DryInv'
<1> USE DEF PInv, preemptVars
<1>1. CASE ~ Preempting
  BY <1>1, NoDryRuns DEF DryInv, Preempting
<1>2. CASE Preempting
  <2>1. phase = "filter" /\ todo = {} /\ feasible = {}
    BY <1>2 DEF DryInv
  <2>2. UNCHANGED <<snapVars, cycleVars>>
    <3>1. ~ \E n \in Nodes : FilterAlone(n) \/ FilterBeside(n) \/ AddPodPanics(n)
                               \/ FilterFails(n) \/ SelectHost(n)
      BY <2>1 DEF FilterAlone, Filter, FilterBeside, AddPodPanics, FilterFails, SelectHost
    <3>2. ~ ((\E p \in Pods : StartCycle(p)) \/ PreFilter \/ PreFilterFails \/ SelectFailsAtOnce)
      BY <1>2, <2>1 DEF StartCycle, PreFilter, PreFilterFails, SelectFailsAtOnce
    <3>3. CASE BindingCycle
      BY <3>3 DEF BindingCycle, Bind, Unreserve, UnreservePanics, ForgetPod
    <3>4. CASE \E p \in Pods : CreatePod(p) \/ TerminatePod(p)
      BY <3>4 DEF CreatePod, TerminatePod
    <3>5. CASE Churn
      BY <3>5 DEF Churn, UpdateNode, UpdatePolicy
    <3> QED  BY <3>1, <3>2, <3>3, <3>4, <3>5 DEF Unnoticed
  <2> QED  BY <2>2, DryRests DEF DryInv
<1> QED  BY <1>1, <1>2

(* Every step of preemption keeps DryInv. *)
LEMMA PreemptDry ==
  ASSUME PInv, Preempt
  PROVE  DryInv'
<1>1. DryInv /\ IInv
  BY DEF PInv
<1>2. ASSUME NEW n \in Nodes, Choose(n) PROVE DryInv'
  <2>1. Preempting /\ DryOK(n)
    BY <1>1, <1>2 DEF Choose, DryRunsDone, DryInv
  <2>2. victims' \subseteq Pods
    BY <1>2, <2>1 DEF Choose, DryOK, Lower
  <2>3. (Preempting => phase = "filter" /\ todo = {} /\ feasible = {})'
    BY <1>1, <1>2, <2>1 DEF Choose, DryInv, vars, cycleVars
  <2>4. DOMAIN dry' = {}
    BY <1>2 DEF Choose
  <2> QED  BY <1>1, <1>2, <2>2, <2>3, <2>4 DEF Choose, DryInv
<1>3. ASSUME NEW q \in Pods, DeleteVictim(q) PROVE DryInv'
  <2>1. UNCHANGED <<snapVars, cycleVars>>
    BY <1>3 DEF DeleteVictim, TerminatePod, vars
  <2> QED  BY <1>1, <1>3, <2>1, DryRests DEF DeleteVictim, DryInv
<1>4. CASE Nominate
  <2>1. nominated' \in [Pods -> Nodes \cup {Nil}]
    BY <1>1, <1>4 DEF Nominate, DryInv
  <2>2. DOMAIN dry' = {}
    BY <1>1, <1>4 DEF Nominate, DryInv
  <2> QED  BY <1>4, <2>1, <2>2, NoDryRuns DEF Nominate
<1>5. CASE PreemptionFails
  <2>1. nominated' \in [Pods -> Nodes \cup {Nil}]
    BY <1>1, <1>5 DEF PreemptionFails, DryInv
  <2>2. DOMAIN dry' = {}
    BY <1>5 DEF PreemptionFails
  <2> QED  BY <1>5, <2>1, <2>2, NoDryRuns DEF PreemptionFails
<1> QED  BY <1>2, <1>3, <1>4, <1>5, StartPreemptionDry, RemoveLowerDry, ReprieveDry DEF Preempt

(* All steps keep DryInv. *)
LEMMA PreemptNextDry ==
  ASSUME PInv, [PreemptNext]_allVars
  PROVE  DryInv'
<1>1. DryInv
  BY DEF PInv
<1>2. CASE Reserve /\ UNCHANGED <<dry, chosen, victims>>
              /\ nominated' = [nominated EXCEPT ![pod] = Nil]
  <2>1. ~ Preempting
    BY <1>1, <1>2 DEF Reserve, DryInv
  <2>2. nominated' \in [Pods -> Nodes \cup {Nil}] /\ victims' \subseteq Pods
    BY <1>1, <1>2 DEF DryInv
  <2> QED  BY <1>2, <2>1, <2>2, NoDryRuns DEF Preempting
<1>3. ASSUME NEW p \in Pods, DeletePod(p), UNCHANGED <<dry, chosen, victims>>,
             nominated' = [nominated EXCEPT ![p] = Nil]
      PROVE  DryInv'
  <2>1. nominated' \in [Pods -> Nodes \cup {Nil}] /\ victims' \subseteq Pods
    BY <1>1, <1>3 DEF DryInv
  <2>2. UNCHANGED <<snapVars, cycleVars>>
    BY <1>3 DEF DeletePod
  <2> QED  BY <1>1, <1>3, <2>1, <2>2, DryRests
<1>4. CASE Restart /\ dry' = <<>> /\ chosen' = Nil /\ victims' = {} /\ UNCHANGED nominated
  <2>1. DOMAIN dry' = {}
    BY <1>4
  <2> QED  BY <1>1, <1>4, <2>1, NoDryRuns DEF DryInv
<1>5. CASE UNCHANGED allVars
  BY <1>1, <1>5, DryRests DEF allVars, vars, preemptVars, DryInv
<1> QED  BY <1>2, <1>3, <1>4, <1>5, PreemptDry, UnnoticedDry DEF PreemptNext

-------------------------------------------------------------------------------
(* AddPanicInv: after the panic the cycle rests until the process starts   *)
(* anew.                                                                   *)

(* What AddPanicInv says is of the cycle and its snapshot only. *)
LEMMA AddPanicRests ==
  ASSUME AddPanicInv, UNCHANGED <<snapVars, cycleVars, panicked>>
  PROVE  AddPanicInv'
<1>1. UNCHANGED <<snapNodes, state, pod, panicked>>
  BY DEF snapVars, cycleVars
<1>2. PairsOf(pod, state.Constraint.TopologyKey)' = PairsOf(pod, state.Constraint.TopologyKey)
  BY <1>1 DEF PairsOf
<1> QED  BY <1>1, <1>2 DEF AddPanicInv, PairOn

(* All steps keep AddPanicInv. *)
LEMMA PreemptNextAddPanic ==
  ASSUME PInv, [PreemptNext]_allVars
  PROVE  AddPanicInv'
<1>1. IInv /\ AddPanicInv
  BY DEF PInv
<1>2. ASSUME NEW n \in Nodes, AddPodPanics(n) PROVE AddPanicInv'
  BY <1>1, <1>2, AddPodPanicsIInv
<1>3. CASE panicked' \in {"none", "Unreserve"}
  BY <1>3 DEF AddPanicInv
<1>4. CASE UNCHANGED <<snapVars, cycleVars, panicked>>
  BY <1>1, <1>4, AddPanicRests
<1>5. CASE Preempt
  <2>1. panicked = "none" /\ (panicked' = panicked \/ UNCHANGED vars)
    BY <1>5 DEF Preempt, StartPreemption, RemoveLower, Reprieve, Choose, DeleteVictim,
                TerminatePod, Nominate, PreemptionFails, FailCycle, vars
  <2> QED  BY <1>3, <2>1 DEF vars
<1>6. CASE Unnoticed
  <2>1. ASSUME NEW n \in Nodes, FilterAlone(n) \/ FilterBeside(n) \/ FilterFails(n) \/ SelectHost(n)
        PROVE  AddPanicInv'
    BY <1>3, <2>1 DEF FilterAlone, Filter, FilterBeside, FilterFails, SelectHost, FailCycle
  <2>2. CASE (\E p \in Pods : StartCycle(p)) \/ PreFilter \/ PreFilterFails \/ SelectFailsAtOnce
    BY <1>3, <2>2 DEF StartCycle, PreFilter, PreFilterFails, SelectFailsAtOnce, SelectFails, FailCycle
  <2>3. CASE BindingCycle
    BY <1>3, <2>3 DEF BindingCycle, Bind, Unreserve, UnreservePanics, ForgetPod
  <2>4. CASE \E p \in Pods : CreatePod(p) \/ TerminatePod(p)
    BY <1>4, <2>4 DEF CreatePod, TerminatePod
  <2>5. CASE Churn
    BY <1>4, <2>5 DEF Churn, UpdateNode, UpdatePolicy
  <2> QED  BY <1>2, <1>6, <2>1, <2>2, <2>3, <2>4, <2>5 DEF Unnoticed
<1>7. CASE Reserve \/ Restart
  BY <1>3, <1>7 DEF Reserve, Restart
<1>8. CASE \E p \in Pods : DeletePod(p)
  BY <1>4, <1>8 DEF DeletePod
<1>9. CASE UNCHANGED allVars
  BY <1>4, <1>9 DEF allVars, vars
<1> QED  BY <1>5, <1>6, <1>7, <1>8, <1>9 DEF PreemptNext

-------------------------------------------------------------------------------
(* Theorems. *)

(* The inductive invariant holds in every reachable state, for every set   *)
(* of pods, priorities, nodes and policies.                                *)
THEOREM SpecPInv == PreemptSpec => []PInv
<1>1. PreemptInit => PInv
  <2> SUFFICES ASSUME PreemptInit PROVE PInv
    OBVIOUS
  <2>1. IInv
    BY InitIInv DEF PreemptInit
  <2>2. DryInv
    BY DEF PreemptInit, DryInv, Preempting, Nowhere
  <2>3. AddPanicInv
    BY DEF PreemptInit, Init, AddPanicInv
  <2> QED  BY <2>1, <2>2, <2>3 DEF PInv
<1>2. PInv /\ [PreemptNext]_allVars => PInv'
  BY PreemptNextIInv, PreemptNextDry, PreemptNextAddPanic DEF PInv
<1> QED  BY <1>1, <1>2, PTL DEF PreemptSpec

(* Type correctness of dry runs, victims and nominations, among it that    *)
(* preemption starts only when every node is filtered and none was found.  *)
THEOREM SpecPreemptTypeOK == PreemptSpec => []PreemptTypeOK
<1>1. PInv => PreemptTypeOK
  <2> SUFFICES ASSUME PInv PROVE PreemptTypeOK
    OBVIOUS
  <2>1. \A n \in DOMAIN dry : n \in Nodes /\ dry[n].state # Shared
    BY NotShared DEF PInv, DryInv, DryOK, Candidates
  <2> QED  BY <2>1 DEF PInv, DryInv, DryOK, PreemptTypeOK
<1> QED  BY <1>1, SpecPInv, PTL

(* No dry run, of any number on any nodes in any order, changes a counter  *)
(* of the cycle that clones its state for it.                              *)
THEOREM SpecCycleStateUntouched == PreemptSpec => []CycleStateUntouched
<1>1. PInv => CycleStateUntouched
  BY DEF PInv, IInv, CycleStateUntouched
<1> QED  BY <1>1, SpecPInv, PTL

(* Whatever a dry run has removed and put back, its counters are those of  *)
(* the pods that are left, but for terminating ones it removed.            *)
THEOREM SpecDryRunExact == PreemptSpec => []DryRunExact
<1>1. PInv => DryRunExact
  <2> SUFFICES ASSUME PInv, NEW n \in DOMAIN dry, dry[n].at = "reprieve",
                      podRequireTopologyScheduling(pod)
               PROVE  LET s == StateOf(n)
                          c == s.Constraint
                      IN \A pair \in DOMAIN s.TpPairToMatchNum :
                           s.TpPairToMatchNum[pair] =
                             Cardinality(PodsMatchSelector(c.Selector, pair[1], pair[2])
                                           \ dry[n].removed)
                             - Cardinality({q \in c.Selector \cap snapTerm \cap dry[n].removed :
                                              PairOn(s, snapNodes[n]) = pair})
    BY DEF DryRunExact
  <2>1. StateOf(n) = Without(n, dry[n].removed)
    BY NotShared DEF PInv, DryInv, DryOK, StateOf
  <2> QED  BY <2>1 DEF Without, Counter, Matching, Uncounted, PairOn
<1> QED  BY <1>1, SpecPInv, PTL

(* With a profile that enforces the pod's selector, dry runs never look up *)
(* a counter that is not there, and AddPod for a nominated pod does only   *)
(* where none of the pod's own nodes has the value.                        *)
THEOREM SpecNoLostCounter == PreemptSpec => []NoLostCounter
<1>1. PInv => NoLostCounter
  <2> SUFFICES ASSUME PInv PROVE NoLostCounter
    OBVIOUS
  <2>1. ASSUME HasState, NEW n \in Candidates, NEW q \in Pods
        PROVE  ~ updatePanics(state, q, snapNodes[n])
    <3>1. PairOn(state, snapNodes[n]) \in PairsOf(pod, state.Constraint.TopologyKey)
      BY <2>1, CandidateCounted DEF PInv
    <3>2. DOMAIN state.TpPairToMatchNum = PairsOf(pod, state.Constraint.TopologyKey)
      BY <2>1 DEF PInv, IInv, CountersFromSnapshot
    <3> QED  BY <3>1, <3>2 DEF updatePanics
  <2> QED  BY <2>1 DEF PInv, AddPanicInv, NoLostCounter
<1> QED  BY <1>1, SpecPInv, PTL

-------------------------------------------------------------------------------
(* VictimsMakeRoom. *)

(* The key that Filter reads is the one that the counters are about.       *)
KeyFits ==
  HasState =>
    \A v \in PolicyVersions[PolicyOf[pod]] \ {Nil} : v.topologyKey = state.Constraint.TopologyKey

(* It does after a step that keeps the cycle's state. *)
LEMMA KeyRests ==
  ASSUME KeyFits, UNCHANGED <<state, pod>>, HasState' => HasState
  PROVE  KeyFits'
BY DEF KeyFits

(* All steps keep it when policies keep their key: PreFilter, the one step *)
(* that makes a state, takes the key from a version of the pod's policy.   *)
LEMMA PreemptNextKeyFits ==
  ASSUME \A q \in PolicyNames : KeyKept(q)
  PROVE  PInv /\ KeyFits /\ [PreemptNext]_allVars => KeyFits'
<1> SUFFICES ASSUME PInv, KeyFits, [PreemptNext]_allVars PROVE KeyFits'
  OBVIOUS
<1>1. CASE PreFilter
  <2> SUFFICES ASSUME podRequireTopologyScheduling(pod) PROVE KeyFits'
    BY <1>1 DEF PreFilter, KeyFits, HasState
  <2> DEFINE tsp == policies[PolicyOf[pod]]
  <2>1. pod' = pod /\ pod \in Pods
    BY <1>1 DEF PreFilter, PInv, IInv, ControlOK, InCycle
  <2>2. state'.Constraint.TopologyKey = tsp.topologyKey
    BY <1>1 DEF PreFilter, calculatePreFilterStateCache
  <2>3. PolicyOf[pod] \in PolicyNames /\ tsp \in PolicyVersions[PolicyOf[pod]] \ {Nil}
    BY <1>1, <2>1, PodAssumption
       DEF podRequireTopologyScheduling, PInv, IInv, VersionsOK, PreFilter
  <2>4. \A v \in PolicyVersions[PolicyOf[pod]] \ {Nil} :
          v.topologyKey = state'.Constraint.TopologyKey
    BY <2>2, <2>3 DEF KeyKept
  <2> QED  BY <2>1, <2>4 DEF KeyFits
<1>2. CASE phase' \in {"idle", "prefilter"}
  BY <1>2 DEF KeyFits, HasState
<1>3. CASE UNCHANGED <<state, pod>> /\ (phase' = phase \/ phase = "filter")
  BY <1>3, KeyRests DEF HasState
<1>4. CASE UNCHANGED vars
  BY <1>3, <1>4 DEF vars, cycleVars
<1>5. CASE Preempt
  <2>1. ASSUME NEW n \in Nodes, RemoveLower(n) PROVE KeyFits'
    BY <1>4, <2>1, RemoveLowerLeaves
  <2>2. ASSUME NEW n \in DOMAIN dry, NEW q \in dry[n].left, Reprieve(n, q) PROVE KeyFits'
    BY <1>4, <2>2, ReprieveLeaves
  <2>3. ASSUME NEW q \in Pods, DeleteVictim(q) PROVE KeyFits'
    BY <1>3, <1>4, <2>3 DEF DeleteVictim, TerminatePod, cycleVars
  <2>4. CASE StartPreemption \/ \E n \in Nodes : Choose(n)
    BY <1>4, <2>4 DEF StartPreemption, Choose
  <2>5. CASE Nominate \/ PreemptionFails
    BY <1>2, <2>5 DEF Nominate, PreemptionFails, FailCycle, EndCycle
  <2> QED  BY <1>5, <2>1, <2>2, <2>3, <2>4, <2>5 DEF Preempt
<1>6. CASE Unnoticed
  <2>1. ASSUME NEW n \in Nodes,
               FilterAlone(n) \/ FilterBeside(n) \/ AddPodPanics(n) \/ SelectHost(n)
        PROVE  KeyFits'
    BY <1>3, <2>1 DEF FilterAlone, Filter, FilterBeside, AddPodPanics, SelectHost, cycleVars
  <2>2. CASE (\E p \in Pods : StartCycle(p)) \/ PreFilterFails \/ SelectFailsAtOnce
             \/ \E n \in Nodes : FilterFails(n)
    BY <1>2, <2>2 DEF StartCycle, PreFilterFails, SelectFailsAtOnce, SelectFails, FilterFails,
                      FailCycle, EndCycle
  <2>3. CASE BindingCycle \/ Churn \/ \E p \in Pods : CreatePod(p) \/ TerminatePod(p)
    BY <1>3, <2>3 DEF BindingCycle, Bind, Unreserve, UnreservePanics, ForgetPod, Churn,
                      UpdateNode, UpdatePolicy, CreatePod, TerminatePod, cycleVars
  <2> QED  BY <1>1, <1>6, <2>1, <2>2, <2>3 DEF Unnoticed
<1>7. CASE Reserve \/ Restart
  BY <1>2, <1>7 DEF Reserve, EndCycle, Restart
<1>8. CASE \E p \in Pods : DeletePod(p)
  BY <1>3, <1>8 DEF DeletePod, cycleVars
<1>9. CASE UNCHANGED allVars
  BY <1>4, <1>9 DEF allVars
<1> QED  BY <1>5, <1>6, <1>7, <1>8, <1>9 DEF PreemptNext

(* What Filter accepts on a clone without some pods, none of them one that *)
(* terminates, is justified without them.                                  *)
LEMMA DryFilterJustifies ==
  ASSUME IInv, NoEmptyLabel, HasState, NEW n \in Candidates, NEW R \in SUBSET Pods,
         R \cap snapTerm = {}, NEW tsp, tsp.topologyKey = state.Constraint.TopologyKey,
         FilterAccepts(pod, Without(n, R), tsp, snapNodes[n])
  PROVE  JustifiedWithout(n, R)
<1> DEFINE c == state.Constraint
           key == c.TopologyKey
           value == snapNodes[n][key]
           counters == [pair \in PairsOf(pod, key) |-> Counter(n, pair, R)]
           held(v) == Cardinality(Holds(c.Selector, key, v) \ R)
<1>1. /\ Without(n, R).Constraint = c /\ Without(n, R).TpPairToMatchNum = counters
      /\ \/ checkPolicyRequirementReached(key, c.SchedulePolicy, counters)
         \/ ~ checkTopoValueReached(key, value, c.SchedulePolicy, counters)
  BY DEF FilterAccepts, Without
<1>2. IntegersOver(c.SchedulePolicy, Values) /\ c.Selector \subseteq Pods
  BY DEF IInv, ControlOK, IsPreFilterState
<1>3. TopologyPair(key, value) \in DOMAIN counters
  BY CandidateCounted DEF PairOn
<1>4. ASSUME NEW v \in DOMAIN c.SchedulePolicy, TopologyPair(key, v) \in DOMAIN counters
      PROVE  /\ counters[TopologyPair(key, v)] = held(v)
             /\ held(v) \in Nat /\ c.SchedulePolicy[v] \in Int
  <2> DEFINE pair == TopologyPair(key, v)
  <2>1. v \in Values /\ c.SchedulePolicy[v] \in Int
    BY <1>2 DEF IntegersOver
  <2>2. Matching(pair) = Holds(c.Selector, key, v)
    BY <2>1, CountIsHolds DEF Matching, TopologyPair
  <2>3. Uncounted(n, pair, R) = {}
    BY DEF Uncounted
  <2>4. Holds(c.Selector, key, v) \ R \in SUBSET Pods
    BY <1>2 DEF Holds
  <2>5. held(v) \in Nat
    BY <2>4, PodSetsFinite
  <2>6. Counter(n, pair, R) = held(v)
    BY <2>2, <2>3, <2>5, FS_EmptySet DEF Counter
  <2> QED  BY <1>4, <2>1, <2>5, <2>6
<1>5. CASE checkPolicyRequirementReached(key, c.SchedulePolicy, counters)
  <2>1. \A v \in DOMAIN c.SchedulePolicy :
          /\ TopologyPair(key, v) \in DOMAIN counters
          /\ counters[TopologyPair(key, v)] >= c.SchedulePolicy[v]
    BY <1>5 DEF checkPolicyRequirementReached
  <2>2. \A v \in DOMAIN c.SchedulePolicy : ~ (held(v) < c.SchedulePolicy[v])
    <3> HIDE DEF counters, held, c, key
    <3> QED  BY <1>4, <2>1
  <2> QED  BY <2>2 DEF JustifiedWithout
<1>6. CASE ~ checkTopoValueReached(key, value, c.SchedulePolicy, counters)
  <2>1. /\ value \in DOMAIN c.SchedulePolicy
        /\ ~ (counters[TopologyPair(key, value)] >= c.SchedulePolicy[value])
    BY <1>3, <1>6 DEF checkTopoValueReached
  <2>2. held(value) < c.SchedulePolicy[value]
    <3> HIDE DEF counters, held, c, key, value
    <3> QED  BY <1>3, <1>4, <2>1
  <2> QED  BY <2>1, <2>2 DEF JustifiedWithout
<1> QED  BY <1>1, <1>5, <1>6

(* When no label is empty and no policy changes its topology key, the pods *)
(* that a finished dry run would take are enough, unless one of them is on *)
(* its way out already.                                                    *)
THEOREM SpecVictimsMakeRoom ==
  ASSUME NoEmptyLabel, \A q \in PolicyNames : KeyKept(q)
  PROVE  PreemptSpec => []VictimsMakeRoom
<1>1. PreemptInit => KeyFits
  BY DEF PreemptInit, Init, KeyFits, HasState
<1>2. PInv /\ KeyFits /\ [PreemptNext]_allVars => KeyFits'
  BY PreemptNextKeyFits
<1>3. PInv /\ KeyFits => VictimsMakeRoom
  <2> SUFFICES ASSUME PInv, KeyFits, NEW n \in DOMAIN dry, dry[n].at = "reprieve",
                      podRequireTopologyScheduling(pod), dry[n].removed \cap snapTerm = {}
               PROVE  JustifiedWithout(n, dry[n].removed)
    BY DEF VictimsMakeRoom
  <2>1. n \in Candidates /\ DryOK(n) /\ HasState
    BY DEF PInv, DryInv, Preempting, HasState
  <2>2. dry[n].removed \in SUBSET Pods
    BY <2>1 DEF DryOK, Lower
  <2>3. PICK tsp \in PolicyVersions[PolicyOf[pod]] \ {Nil} :
          FilterAccepts(pod, Without(n, dry[n].removed), tsp, snapNodes[n])
    BY <2>1 DEF DryOK
  <2>4. tsp.topologyKey = state.Constraint.TopologyKey
    BY <2>1 DEF KeyFits
  <2> QED  BY <2>1, <2>2, <2>3, <2>4, DryFilterJustifies DEF PInv
<1> QED  BY <1>1, <1>2, <1>3, SpecPInv, PTL DEF PreemptSpec

===============================================================================
