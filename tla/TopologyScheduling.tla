-------------------------- MODULE TopologyScheduling --------------------------
(***************************************************************************)
(* The TopologyScheduling plugin inside one kube-scheduler process.        *)
(*                                                                         *)
(* Covered: PreFilter, Filter, Score, Reserve and Unreserve with the       *)
(* CycleState they share; the serial scheduling cycle and the concurrent   *)
(* binding cycles that call them; the scheduler's node/pod cache and the   *)
(* policy informer cache, which change between any two calls; a process    *)
(* crash and restart.                                                      *)
(*                                                                         *)
(* AddPod, RemovePod and Clone, which only the preemption dry run and      *)
(* nominated pods call, are in Preemption.                                 *)
(*                                                                         *)
(* The framework around the plugin is not under src/.  Its actions are     *)
(* modelled from the order in which the plugin says its extension points   *)
(* run (topology_scheduling.go:106) and are marked external in the map.    *)
(***************************************************************************)
EXTENDS TopologyPolicy, Sequences

CONSTANTS
  Pods, Nodes,
  Keys,            \* topology keys, i.e. node label keys
  Values,          \* topology values, i.e. node label values
  PolicyNames,
  Nil,             \* "none": no node, no label, no such object
  EmptyValue,      \* the empty string, which a Go map yields for a missing label
  PolicyOf,        \* pod -> the policy its label names, or Nil without the label
  NodeSelector,    \* pod -> the nodes that pass its node selector and affinity
  OtherFilters,    \* pod -> the nodes that the profile's other Filter plugins accept
  NodeVersions,    \* node -> the label maps it may have (Nil: the node is gone)
  PolicyVersions   \* policy name -> the specs it may have (Nil: no such policy)

Labels == [Keys -> Values \cup {Nil}]
Entries == [name : Values, replicas : Int]

(* TopologySchedulingPolicySpec; LabelSelector as the set of pods of the   *)
(* policy's namespace that it matches.                                     *)
PolicySpecs ==
  [topologyKey : Keys, deployPlacement : Seq(Entries),
   scheduleStrategy : STRING, labelSelector : SUBSET Pods]

ASSUME FiniteAssumption == IsFiniteSet(Pods) /\ IsFiniteSet(Nodes)

ASSUME NilAssumption ==
  Nil \notin Pods \cup Nodes \cup Values \cup PolicyNames \cup Labels \cup PolicySpecs

ASSUME PodAssumption ==
  /\ PolicyOf \in [Pods -> PolicyNames \cup {Nil}]
  /\ NodeSelector \in [Pods -> SUBSET Nodes]
  /\ OtherFilters \in [Pods -> SUBSET Nodes]

ASSUME VersionAssumption ==
  /\ NodeVersions \in [Nodes -> SUBSET (Labels \cup {Nil})]
  /\ PolicyVersions \in [PolicyNames -> SUBSET (PolicySpecs \cup {Nil})]

VARIABLES
  nodes,        \* node objects in the scheduler cache
  policies,     \* the TopologySchedulingPolicy informer cache
  status,       \* where each pod is in its life
  podNode,      \* scheduler cache: the node of an assumed or bound pod
  terminating,  \* bound pods whose DeletionTimestamp is set
  snapNodes,    \* snapshot: node objects (kept until the next cycle starts)
  snapPlace,    \* snapshot: pods by node, as NodeInfo.Pods had them
  snapTerm,     \* snapshot: pods that were already terminating
  phase,        \* the next extension point of the scheduling cycle
  pod,          \* the pod being scheduled
  state,        \* CycleState[preFilterStateKey] of this cycle
  todo,         \* nodes not filtered yet
  feasible,     \* nodes that passed Filter
  host,         \* the node selected
  bindState,    \* CycleState of each pod in its binding cycle
  reservedFrom, \* history: TpPairToMatchNum just before that pod's Reserve
  panicked      \* the extension point that dereferenced a nil pointer, or "none"

podVars   == <<status, podNode, terminating>>
worldVars == <<nodes, policies>>
snapVars  == <<snapNodes, snapPlace, snapTerm>>
cycleVars == <<phase, pod, state, todo, feasible, host>>
bindVars  == <<bindState, reservedFrom>>
vars == <<podVars, worldVars, snapVars, cycleVars, bindVars, panicked>>

Statuses == {"absent", "pending", "assumed", "unreserved", "bound"}
Phases == {"idle", "prefilter", "filter", "reserve"}

-------------------------------------------------------------------------------
(* The plugin's own functions. *)

(* podRequireTopologyScheduling *)
podRequireTopologyScheduling(p) == PolicyOf[p] # Nil

(* node.Labels[key] without the comma-ok form. *)
LabelOf(labels, key) == IF labels[key] = Nil THEN EmptyValue ELSE labels[key]

(* countPodsMatchSelector summed over the nodes whose label gives this     *)
(* value: the pods of the selector on them that are not terminating.       *)
PodsMatchSelector(selector, key, value) ==
  {p \in selector :
     /\ snapPlace[p] # Nil
     /\ p \notin snapTerm
     /\ snapNodes[snapPlace[p]] # Nil
     /\ LabelOf(snapNodes[snapPlace[p]], key) = value}

(* Slip: only a value that some pod is on gets a counter. *)
PairsOfPopulated(p, key) ==
  {TopologyPair(key, snapNodes[n][key]) :
     n \in {m \in NodeSelector[p] : /\ snapNodes[m] # Nil /\ snapNodes[m][key] # Nil
                                    /\ \E q \in Pods : snapPlace[q] = m}}

(* Slip: nodes without the label get a counter too. *)
PairsOfUnchecked(p, key) ==
  {TopologyPair(key, snapNodes[n][key]) : n \in {m \in NodeSelector[p] : snapNodes[m] # Nil}}

(* The pairs that get a counter: the values of the nodes that pass the     *)
(* pod's own node selector and have the label.                             *)
PairsOf(p, key) ==
  {TopologyPair(key, snapNodes[n][key]) :
     n \in {m \in NodeSelector[p] : snapNodes[m] # Nil /\ snapNodes[m][key] # Nil}}

(* Slip: terminating pods are not bypassed. *)
countTerminatingToo(p, tsp) ==
  [Constraint |->
     [TopologyKey    |-> tsp.topologyKey,
      SchedulePolicy |-> CovertPolicy(tsp.deployPlacement),
      Selector       |-> tsp.labelSelector],
   TpPairToMatchNum |->
     [pair \in PairsOf(p, tsp.topologyKey) |->
        Cardinality({q \in tsp.labelSelector :
          /\ snapPlace[q] # Nil
          /\ snapNodes[snapPlace[q]] # Nil
          /\ LabelOf(snapNodes[snapPlace[q]], pair[1]) = pair[2]})],
   ScheduleStrategy |-> tsp.scheduleStrategy]

(* PreFilter's cycle state for a pod under policy tsp. *)
calculatePreFilterStateCache(p, tsp) ==
  [Constraint |->
     [TopologyKey    |-> tsp.topologyKey,
      SchedulePolicy |-> CovertPolicy(tsp.deployPlacement),
      Selector       |-> tsp.labelSelector],
   TpPairToMatchNum |->
     [pair \in PairsOf(p, tsp.topologyKey) |->
        Cardinality(PodsMatchSelector(tsp.labelSelector, pair[1], pair[2]))],
   ScheduleStrategy |-> tsp.scheduleStrategy]

(* Filter once policy and CycleState are at hand.  The topology key comes  *)
(* from the policy read now, everything else from the cycle's state.       *)
FilterAccepts(p, s, tsp, labels) ==
  LET c == s.Constraint
      tpKey == tsp.topologyKey
  IN /\ p \in c.Selector
     /\ labels[tpKey] # Nil
     /\ \/ checkPolicyRequirementReached(tpKey, c.SchedulePolicy, s.TpPairToMatchNum)
        \/ ~ checkTopoValueReached(tpKey, labels[tpKey], c.SchedulePolicy,
                                   s.TpPairToMatchNum)

(* Slip: values that have their replicas are scored too. *)
ScoreOfAny(p, s, labels) ==
  IF ~ podRequireTopologyScheduling(p) THEN 0
  ELSE LET value == labels[s.Constraint.TopologyKey]
           pair  == TopologyPair(s.Constraint.TopologyKey, value)
       IN IF /\ value # Nil
             /\ value \in DOMAIN s.Constraint.SchedulePolicy
             /\ pair \in DOMAIN s.TpPairToMatchNum
          THEN score(s.TpPairToMatchNum[pair], s.Constraint.SchedulePolicy[value], s.ScheduleStrategy)
          ELSE 0

(* Score.  A state that is missing, a label, an entry or a counter that is *)
(* missing, or a value that has its replicas: zero.                        *)
ScoreOf(p, s, labels) ==
  IF ~ podRequireTopologyScheduling(p) THEN 0
  ELSE LET value == labels[s.Constraint.TopologyKey]
           pair  == TopologyPair(s.Constraint.TopologyKey, value)
           count == s.TpPairToMatchNum[pair]
           desired == s.Constraint.SchedulePolicy[value]
       IN IF /\ value # Nil
             /\ value \in DOMAIN s.Constraint.SchedulePolicy
             /\ pair \in DOMAIN s.TpPairToMatchNum
             /\ count < desired
          THEN score(count, desired, s.ScheduleStrategy)
          ELSE 0

(* updateWithPod: what it applies to, when its map lookup yields a nil     *)
(* pointer, and what it leaves behind.  Labels are Nil for a nil node.     *)
updatesPair(s, p, labels) ==
  /\ labels # Nil
  /\ labels[s.Constraint.TopologyKey] # Nil
  /\ p \in s.Constraint.Selector

PairOn(s, labels) ==
  TopologyPair(s.Constraint.TopologyKey, labels[s.Constraint.TopologyKey])

updatePanics(s, p, labels) ==
  updatesPair(s, p, labels) /\ PairOn(s, labels) \notin DOMAIN s.TpPairToMatchNum

(* Slip: the delta is not looked at. *)
updateAlwaysUp(s, p, labels, delta) ==
  IF updatesPair(s, p, labels)
  THEN [s EXCEPT !.TpPairToMatchNum[PairOn(s, labels)] = @ + 1]
  ELSE s

updateWithPod(s, p, labels, delta) ==
  IF updatesPair(s, p, labels)
  THEN [s EXCEPT !.TpPairToMatchNum[PairOn(s, labels)] = @ + delta]
  ELSE s

-------------------------------------------------------------------------------
Nowhere == [p \in Pods |-> Nil]

Init ==
  /\ nodes \in {f \in [Nodes -> UNION {NodeVersions[n] : n \in Nodes}] :
                  \A n \in Nodes : f[n] \in NodeVersions[n]}
  /\ policies \in {f \in [PolicyNames -> UNION {PolicyVersions[q] : q \in PolicyNames}] :
                     \A q \in PolicyNames : f[q] \in PolicyVersions[q]}
  /\ status = [p \in Pods |-> "absent"]
  /\ podNode = Nowhere
  /\ terminating = {}
  /\ snapNodes = [n \in Nodes |-> Nil]
  /\ snapPlace = Nowhere
  /\ snapTerm = {}
  /\ phase = "idle"
  /\ pod = Nil
  /\ state = Nil
  /\ todo = {}
  /\ feasible = {}
  /\ host = Nil
  /\ bindState = Nowhere
  /\ reservedFrom = Nowhere
  /\ panicked = "none"

-------------------------------------------------------------------------------
(* The scheduling cycle: one pod at a time. *)

(* The cycle is over.  No handler reads the snapshot's pods again; its     *)
(* nodes stay readable for Unreserve until the next cycle replaces them.   *)
EndCycle ==
  /\ phase' = "idle"
  /\ pod' = Nil
  /\ state' = Nil
  /\ todo' = {}
  /\ feasible' = {}
  /\ host' = Nil
  /\ snapPlace' = Nowhere
  /\ snapTerm' = {}
  /\ UNCHANGED snapNodes

(* The pod goes back to the scheduling queue. *)
FailCycle ==
  EndCycle /\ UNCHANGED <<podVars, worldVars, bindVars, panicked>>

(* Slip: the snapshot leaves assumed pods out. *)
StartCycleBoundOnly(p) ==
  /\ panicked = "none"
  /\ phase = "idle"
  /\ status[p] = "pending"
  /\ phase' = "prefilter"
  /\ pod' = p
  /\ snapNodes' = nodes
  /\ snapPlace' = [q \in Pods |-> IF status[q] = "bound" THEN podNode[q] ELSE Nil]
  /\ snapTerm' = terminating
  /\ UNCHANGED <<podVars, worldVars, state, todo, feasible, host, bindVars, panicked>>

(* The framework takes a pod from the queue and the cache's snapshot. *)
StartCycle(p) ==
  /\ panicked = "none"
  /\ phase = "idle"
  /\ status[p] = "pending"
  /\ phase' = "prefilter"
  /\ pod' = p
  /\ snapNodes' = nodes
  /\ snapPlace' = podNode
  /\ snapTerm' = terminating
  /\ UNCHANGED <<podVars, worldVars, state, todo, feasible, host, bindVars, panicked>>

(* PreFilter reads the policy from the informer cache and counts pods in   *)
(* the snapshot.  Its 32 workers only read the snapshot and add atomically *)
(* to counters created before they start, so one step is exact.            *)
PreFilter ==
  /\ panicked = "none"
  /\ phase = "prefilter"
  /\ \/ /\ ~ podRequireTopologyScheduling(pod)
        /\ UNCHANGED state
     \/ /\ podRequireTopologyScheduling(pod)
        /\ policies[PolicyOf[pod]] # Nil
        /\ state' = calculatePreFilterStateCache(pod, policies[PolicyOf[pod]])
  /\ phase' = "filter"
  /\ todo' = {n \in Nodes : snapNodes[n] # Nil}
  /\ UNCHANGED <<podVars, worldVars, snapVars, pod, feasible, host, bindVars, panicked>>

(* The lister does not find the policy: PreFilter returns an error. *)
PreFilterFails ==
  /\ panicked = "none"
  /\ phase = "prefilter"
  /\ podRequireTopologyScheduling(pod)
  /\ policies[PolicyOf[pod]] = Nil
  /\ FailCycle

(* Nodes are filtered in parallel; each Filter reads the policy again. *)
Filter(n) ==
  /\ panicked = "none"
  /\ phase = "filter"
  /\ n \in todo
  /\ n \in OtherFilters[pod] /\ podRequireTopologyScheduling(pod)
       => policies[PolicyOf[pod]] # Nil
  /\ todo' = todo \ {n}
  /\ feasible' =
       IF /\ n \in OtherFilters[pod]
          /\ podRequireTopologyScheduling(pod) =>
               FilterAccepts(pod, state, policies[PolicyOf[pod]], snapNodes[n])
       THEN feasible \cup {n}
       ELSE feasible
  /\ UNCHANGED <<podVars, worldVars, snapVars, phase, pod, state, host, bindVars, panicked>>

(* The lister does not find the policy any more: the error ends the cycle. *)
FilterFails(n) ==
  /\ panicked = "none"
  /\ phase = "filter"
  /\ n \in todo \cap OtherFilters[pod]
  /\ podRequireTopologyScheduling(pod)
  /\ policies[PolicyOf[pod]] = Nil
  /\ FailCycle

(* A single feasible node is taken without scoring.  Otherwise every score *)
(* must lie between 0 and 100, NormalizeScore changing nothing, and a node *)
(* with the highest one is taken.                                          *)
InScoreRange(s) == 0 <= s /\ s <= 100

SelectHost(n) ==
  /\ panicked = "none"
  /\ phase = "filter"
  /\ todo = {}
  /\ n \in feasible
  /\ feasible # {n} =>
       /\ \A m \in feasible : InScoreRange(ScoreOf(pod, state, snapNodes[m]))
       /\ \A m \in feasible :
            ScoreOf(pod, state, snapNodes[m]) <= ScoreOf(pod, state, snapNodes[n])
  /\ host' = n
  /\ phase' = "reserve"
  /\ UNCHANGED <<podVars, worldVars, snapVars, pod, state, todo, feasible, bindVars, panicked>>

(* No feasible node, or a score out of range: the attempt fails. *)
SelectFails ==
  /\ panicked = "none"
  /\ phase = "filter"
  /\ todo = {}
  /\ \/ feasible = {}
     \/ /\ Cardinality(feasible) > 1
        /\ \E m \in feasible : ~ InScoreRange(ScoreOf(pod, state, snapNodes[m]))
  /\ FailCycle

(* The framework assumes the pod on the node in its cache, the plugin's    *)
(* Reserve counts it, and a binding cycle of its own takes over.           *)
Reserve ==
  /\ panicked = "none"
  /\ phase = "reserve"
  /\ podRequireTopologyScheduling(pod) => ~ updatePanics(state, pod, snapNodes[host])
  /\ status' = [status EXCEPT ![pod] = "assumed"]
  /\ podNode' = [podNode EXCEPT ![pod] = host]
  /\ IF podRequireTopologyScheduling(pod)
     THEN /\ bindState' =
               [bindState EXCEPT ![pod] = updateWithPod(state, pod, snapNodes[host], 1)]
          /\ reservedFrom' = [reservedFrom EXCEPT ![pod] = state.TpPairToMatchNum]
     ELSE UNCHANGED bindVars
  /\ EndCycle
  /\ UNCHANGED <<terminating, worldVars, panicked>>

(* Reserve dereferences a counter that does not exist. *)
ReservePanics ==
  /\ panicked = "none"
  /\ phase = "reserve"
  /\ podRequireTopologyScheduling(pod)
  /\ updatePanics(state, pod, snapNodes[host])
  /\ panicked' = "Reserve"
  /\ UNCHANGED <<podVars, worldVars, snapVars, cycleVars, bindVars>>

-------------------------------------------------------------------------------
(* Binding cycles: one per assumed pod, concurrent with everything else. *)

EndBinding(p) ==
  /\ bindState' = [bindState EXCEPT ![p] = Nil]
  /\ reservedFrom' = [reservedFrom EXCEPT ![p] = Nil]

Bind(p) ==
  /\ panicked = "none"
  /\ status[p] = "assumed"
  /\ status' = [status EXCEPT ![p] = "bound"]
  /\ EndBinding(p)
  /\ UNCHANGED <<podNode, terminating, worldVars, snapVars, cycleVars, panicked>>

(* The binding cycle failed.  Unreserve looks the node up in the snapshot  *)
(* that is current now and returns early when it is not there.             *)
Unreserve(p) ==
  /\ panicked = "none"
  /\ status[p] = "assumed"
  /\ IF podRequireTopologyScheduling(p)
     THEN /\ ~ updatePanics(bindState[p], p, snapNodes[podNode[p]])
          /\ bindState' =
               [bindState EXCEPT ![p] = updateWithPod(@, p, snapNodes[podNode[p]], -1)]
     ELSE UNCHANGED bindState
  /\ status' = [status EXCEPT ![p] = "unreserved"]
  /\ UNCHANGED <<podNode, terminating, worldVars, snapVars, cycleVars, reservedFrom, panicked>>

UnreservePanics(p) ==
  /\ panicked = "none"
  /\ status[p] = "assumed"
  /\ podRequireTopologyScheduling(p)
  /\ updatePanics(bindState[p], p, snapNodes[podNode[p]])
  /\ panicked' = "Unreserve"
  /\ UNCHANGED <<podVars, worldVars, snapVars, cycleVars, bindVars>>

(* The framework then forgets the pod, which is queued again. *)
ForgetPod(p) ==
  /\ panicked = "none"
  /\ status[p] = "unreserved"
  /\ status' = [status EXCEPT ![p] = "pending"]
  /\ podNode' = [podNode EXCEPT ![p] = Nil]
  /\ EndBinding(p)
  /\ UNCHANGED <<terminating, worldVars, snapVars, cycleVars, panicked>>

-------------------------------------------------------------------------------
(* Events from the API server, and the life of the process. *)

CreatePod(p) ==
  /\ status[p] = "absent"
  /\ status' = [status EXCEPT ![p] = "pending"]
  /\ UNCHANGED <<podNode, terminating, worldVars, snapVars, cycleVars, bindVars, panicked>>

(* A bound pod gets its DeletionTimestamp. *)
TerminatePod(p) ==
  /\ status[p] = "bound"
  /\ terminating' = terminating \cup {p}
  /\ UNCHANGED <<status, podNode, worldVars, snapVars, cycleVars, bindVars, panicked>>

(* A terminating pod, or one still waiting in the queue, is gone. *)
DeletePod(p) ==
  /\ \/ p \in terminating
     \/ status[p] = "pending" /\ p # pod
  /\ status' = [status EXCEPT ![p] = "absent"]
  /\ podNode' = [podNode EXCEPT ![p] = Nil]
  /\ terminating' = terminating \ {p}
  /\ UNCHANGED <<worldVars, snapVars, cycleVars, bindVars, panicked>>

UpdateNode(n) ==
  /\ \E v \in NodeVersions[n] \ {nodes[n]} : nodes' = [nodes EXCEPT ![n] = v]
  /\ UNCHANGED <<policies, podVars, snapVars, cycleVars, bindVars, panicked>>

UpdatePolicy(q) ==
  /\ \E v \in PolicyVersions[q] \ {policies[q]} : policies' = [policies EXCEPT ![q] = v]
  /\ UNCHANGED <<nodes, podVars, snapVars, cycleVars, bindVars, panicked>>

(* The process dies, by a panic or otherwise, and a new one lists the API  *)
(* server: of the pods in a binding cycle, those in landed were bound in   *)
(* time, the others were not.                                              *)
Restart ==
  \E landed \in SUBSET {p \in Pods : status[p] = "assumed"} :
    LET lost == {p \in Pods : status[p] \in {"assumed", "unreserved"}} \ landed IN
    /\ status' = [p \in Pods |-> IF p \in lost THEN "pending"
                                 ELSE IF p \in landed THEN "bound" ELSE status[p]]
    /\ podNode' = [p \in Pods |-> IF p \in lost THEN Nil ELSE podNode[p]]
    /\ bindState' = Nowhere
    /\ reservedFrom' = Nowhere
    /\ panicked' = "none"
    /\ phase' = "idle" /\ pod' = Nil /\ state' = Nil
    /\ todo' = {} /\ feasible' = {} /\ host' = Nil
    /\ snapPlace' = Nowhere /\ snapTerm' = {}
    /\ snapNodes' = [n \in Nodes |-> Nil]
    /\ UNCHANGED <<terminating, worldVars>>

-------------------------------------------------------------------------------
SchedulingCycle ==
  \/ \E p \in Pods : StartCycle(p)
  \/ PreFilter
  \/ PreFilterFails
  \/ \E n \in Nodes : Filter(n)
  \/ \E n \in Nodes : FilterFails(n)
  \/ \E n \in Nodes : SelectHost(n)
  \/ SelectFails
  \/ Reserve
  \/ ReservePanics

BindingCycle ==
  \E p \in Pods : Bind(p) \/ Unreserve(p) \/ UnreservePanics(p) \/ ForgetPod(p)

PodEvents == \E p \in Pods : CreatePod(p) \/ TerminatePod(p) \/ DeletePod(p)

Churn ==
  \/ \E n \in Nodes : UpdateNode(n)
  \/ \E q \in PolicyNames : UpdatePolicy(q)

Next == SchedulingCycle \/ BindingCycle \/ PodEvents \/ Churn \/ Restart

Spec == Init /\ [][Next]_vars

-------------------------------------------------------------------------------
(* Types. *)

Pairs == Keys \X (Values \cup {EmptyValue})

IntegersOver(f, S) == DOMAIN f \subseteq S /\ f \in [DOMAIN f -> Int]

IsCounters(f) == IntegersOver(f, Pairs)

IsPreFilterState(s) ==
  /\ s = [Constraint |-> s.Constraint,
          TpPairToMatchNum |-> s.TpPairToMatchNum,
          ScheduleStrategy |-> s.ScheduleStrategy]
  /\ s.Constraint = [TopologyKey |-> s.Constraint.TopologyKey,
                      SchedulePolicy |-> s.Constraint.SchedulePolicy,
                      Selector |-> s.Constraint.Selector]
  /\ s.Constraint.TopologyKey \in Keys
  /\ IntegersOver(s.Constraint.SchedulePolicy, Values)
  /\ s.Constraint.Selector \subseteq Pods
  /\ IsCounters(s.TpPairToMatchNum)
  /\ s.ScheduleStrategy \in STRING

TypeOK ==
  /\ nodes \in [Nodes -> Labels \cup {Nil}]
  /\ policies \in [PolicyNames -> PolicySpecs \cup {Nil}]
  /\ status \in [Pods -> Statuses]
  /\ podNode \in [Pods -> Nodes \cup {Nil}]
  /\ terminating \in SUBSET Pods
  /\ snapNodes \in [Nodes -> Labels \cup {Nil}]
  /\ snapPlace \in [Pods -> Nodes \cup {Nil}]
  /\ snapTerm \in SUBSET Pods
  /\ phase \in Phases
  /\ pod \in Pods \cup {Nil}
  /\ state = Nil \/ IsPreFilterState(state)
  /\ todo \in SUBSET Nodes
  /\ feasible \in SUBSET Nodes
  /\ host \in Nodes \cup {Nil}
  /\ DOMAIN bindState = Pods
  /\ \A p \in Pods : bindState[p] = Nil \/ IsPreFilterState(bindState[p])
  /\ DOMAIN reservedFrom = Pods
  /\ \A p \in Pods : reservedFrom[p] = Nil \/ IsCounters(reservedFrom[p])
  /\ panicked \in {"none", "Reserve", "Unreserve", "AddPod"}

(* What the phase and the status of a pod say about the other variables. *)
InCycle == phase # "idle"
HasState == phase \in {"filter", "reserve"} /\ podRequireTopologyScheduling(pod)
HoldsPlace(p) == status[p] \in {"assumed", "unreserved", "bound"}
InBinding(p) == status[p] \in {"assumed", "unreserved"}

ControlOK ==
  /\ InCycle => pod \in Pods /\ status[pod] = "pending"
  /\ HasState => IsPreFilterState(state)
  /\ phase \in {"idle", "prefilter"} => todo = {} /\ feasible = {}
  /\ \A n \in todo \cup feasible : snapNodes[n] # Nil
  /\ phase = "reserve" => host \in feasible
  /\ \A p \in Pods : HoldsPlace(p) <=> podNode[p] # Nil
  /\ \A p \in terminating : status[p] = "bound"
  /\ \A p \in Pods : InBinding(p) /\ podRequireTopologyScheduling(p) =>
       IsPreFilterState(bindState[p]) /\ IsCounters(reservedFrom[p])

(* Nodes and policies are only ever what the constants allow. *)
VersionsOK ==
  /\ \A n \in Nodes : nodes[n] \in NodeVersions[n]
  /\ \A q \in PolicyNames : policies[q] \in PolicyVersions[q]

(* From PreFilter to Reserve the cycle state counts the snapshot's pods. *)
CountersFromSnapshot ==
  HasState =>
    LET c == state.Constraint IN
    state.TpPairToMatchNum =
      [pair \in PairsOf(pod, c.TopologyKey) |->
         Cardinality(PodsMatchSelector(c.Selector, pair[1], pair[2]))]

-------------------------------------------------------------------------------
(* Properties. *)

(* The pods a topology value really holds in the snapshot: those of the    *)
(* selector, not terminating, on a node that carries the value.            *)
Holds(selector, key, value) ==
  {p \in selector :
     /\ snapPlace[p] # Nil
     /\ p \notin snapTerm
     /\ snapNodes[snapPlace[p]] # Nil
     /\ snapNodes[snapPlace[p]][key] = value}

Justified(n) ==
  LET c == state.Constraint
      short(v) == Cardinality(Holds(c.Selector, c.TopologyKey, v)) < c.SchedulePolicy[v]
      value == snapNodes[n][c.TopologyKey]
  IN /\ pod \in c.Selector
     /\ \/ value \in DOMAIN c.SchedulePolicy /\ short(value)
        \/ value # Nil /\ \A v \in DOMAIN c.SchedulePolicy : ~ short(v)

(* HostJustified: a host that a cycle selects for a pod under a policy,    *)
(* among the nodes that the pod's own selector allows, lies in a topology  *)
(* value that the policy names and that is short of its replicas, unless   *)
(* every value the policy names has them (Filter, with the counters        *)
(* PreFilter made and the policy as PreFilter read it).                    *)
HostJustified ==
  phase = "reserve" /\ podRequireTopologyScheduling(pod) /\ host \in NodeSelector[pod] =>
    Justified(host)

(* NoPanic: no extension point looks up a counter that PreFilter did not   *)
(* create (updateWithPod dereferences the map entry without a test).       *)
NoPanic == panicked = "none"

(* ReservePanicsOffSelectorOnly: Reserve can only fail that way on a host  *)
(* that the pod's own node selector or affinity excludes, which no other   *)
(* filter of the profile kept out.                                         *)
ReservePanicsOffSelectorOnly ==
  panicked = "Reserve" => host \notin NodeSelector[pod]

(* UnreserveRestores: after Unreserve the pod's cycle state counts what it *)
(* counted before Reserve, whatever cycles ran in between.                 *)
UnreserveRestores ==
  \A p \in Pods :
    status[p] = "unreserved" /\ podRequireTopologyScheduling(p) =>
      bindState[p].TpPairToMatchNum = reservedFrom[p]

(* FillFinishesStarted: while a node is feasible in a topology value that   *)
(* has some of its replicas and not all, Fill does not select a host in a  *)
(* value that has none (Score, through the rounding of score).             *)
CountAt(s, n) ==
  LET pair == TopologyPair(s.Constraint.TopologyKey, snapNodes[n][s.Constraint.TopologyKey])
  IN  IF pair \in DOMAIN s.TpPairToMatchNum THEN s.TpPairToMatchNum[pair] ELSE 0

Started(s, n) ==
  LET value == snapNodes[n][s.Constraint.TopologyKey] IN
  /\ value \in DOMAIN s.Constraint.SchedulePolicy
  /\ 0 < CountAt(s, n) /\ CountAt(s, n) < s.Constraint.SchedulePolicy[value]

FillFinishesStarted ==
  /\ phase = "reserve"
  /\ podRequireTopologyScheduling(pod)
  /\ state.ScheduleStrategy = "Fill"
  /\ CountAt(state, host) = 0
  => \A n \in feasible : ~ Started(state, n)

(* OnlyBalanceRefused: whatever pods a value has, too many for its replicas*)
(* included, the framework does not refuse the score of any node that is   *)
(* feasible, and fail the pod with it, but under Balance (Score).          *)
OnlyBalanceRefused ==
  HasState /\ state.ScheduleStrategy # "Balance" =>
    \A n \in feasible : InScoreRange(ScoreOf(pod, state, snapNodes[n]))

(* SnapshotCoversCache: during a cycle every pod that holds a place in the *)
(* cache held it in the snapshot too.  Placements can only be lost after   *)
(* the snapshot, because nothing but the cycle's own Reserve adds one.     *)
SnapshotCoversCache ==
  phase # "idle" =>
    \A p \in Pods : podNode[p] # Nil /\ p \notin terminating =>
      snapPlace[p] = podNode[p] /\ p \notin snapTerm

(* Premises of theorems.  The profile keeps a pod on the nodes that its    *)
(* own selector allows; editing a policy leaves its topology key; no node  *)
(* carries the key with an empty value.                                    *)
SelectorEnforced == \A p \in Pods : OtherFilters[p] \subseteq NodeSelector[p]

KeyKept(q) ==
  \A a, b \in PolicyVersions[q] \ {Nil} : a.topologyKey = b.topologyKey

NoEmptyLabel == EmptyValue \notin Values

(* The feasible nodes are justified one by one, as Filter passes them. *)
FeasibleJustified ==
  HasState /\ KeyKept(PolicyOf[pod]) =>
    /\ \A v \in PolicyVersions[PolicyOf[pod]] \ {Nil} :
         v.topologyKey = state.Constraint.TopologyKey
    /\ \A n \in feasible \cap NodeSelector[pod] : Justified(n)

(* IInv: the inductive invariant behind the safety theorems that need no   *)
(* premise: counters, snapshot and bookkeeping of cycles and bindings fit  *)
(* together after every step of the scheduler and of the cluster.          *)
IInv ==
  /\ TypeOK
  /\ ControlOK
  /\ VersionsOK
  /\ CountersFromSnapshot
  /\ SnapshotCoversCache
  /\ ReservePanicsOffSelectorOnly

-------------------------------------------------------------------------------
(* Liveness. *)

(* Nodes and policies changing, or a healthy process stopped.              *)
Disturbance == Churn \/ (panicked = "none" /\ Restart)

(* The process runs (weak fairness of the steps the framework's own loop   *)
(* takes) and is started again when it panicked, the queue is fair to      *)
(* every pod that keeps returning to it, and a bind that is tried again    *)
(* and again succeeds at last.                                             *)
Fairness ==
  /\ WF_vars(PreFilter \/ PreFilterFails)
  /\ WF_vars(\E n \in Nodes : Filter(n) \/ FilterFails(n))
  /\ WF_vars(SelectFails \/ \E n \in Nodes : SelectHost(n))
  /\ WF_vars(Reserve \/ ReservePanics)
  /\ WF_vars(panicked # "none" /\ Restart)
  /\ \A p \in Pods :
       /\ SF_vars(StartCycle(p))
       /\ SF_vars(Bind(p))
       /\ WF_vars(ForgetPod(p))

FairSpec == Spec /\ Fairness

(* PodsGetBound: once nodes and policies rest and nobody stops the process,*)
(* every pod that waits is bound in the end, or deleted while it waits.    *)
PodsGetBound ==
  <>[][~ Disturbance]_vars =>
    \A p \in Pods : status[p] = "pending" ~> status[p] \in {"bound", "absent"}

===============================================================================
