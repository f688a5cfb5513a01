----------------------------- MODULE Descheduler ------------------------------
(***************************************************************************)
(* The descheduler process: the loop of RunDeschedulerStrategies and the   *)
(* strategy RemovePodsViolatingTopologySchedulingPolicy, against a cluster *)
(* that changes while a pass works on what it has listed.                  *)
(*                                                                         *)
(* A pod is its name: one that is deleted and created again under its name *)
(* is the same element of Pods, because EvictPod asks by name.  The order  *)
(* in which the surplus pods of a value are evicted is EvictionOrder's     *)
(* subject; here it is any order.                                          *)
(*                                                                         *)
(* The cluster, the eviction API and the kubelet that starts the process   *)
(* again are not under src/ and are marked external in the map; the other  *)
(* strategies of a pass are the upstream descheduler's and are left out.   *)
(***************************************************************************)
EXTENDS TopologyPolicy, Sequences

CONSTANTS
  Pods, Nodes, Keys, Values, PolicyNames,
  Nil,            \* no node, no label, no such object
  EmptyValue,     \* the empty string, which a Go map yields for a missing label
  NodeVersions,   \* node -> the label maps it may have (Nil: the node is gone)
  PolicyVersions, \* policy -> the specs it may have (Nil: no such policy)
  MaxPerNode,     \* maxNoOfPodsToEvictPerNode; 0 is no limit
  Periodic,       \* whether a descheduling interval is configured
  FlippingNodes   \* bound: the nodes whose readiness changes

Labels == [Keys -> Values \cup {Nil}]
Entries == [name : Values, replicas : Int]
PolicySpecs ==
  [topologyKey : Keys, deployPlacement : Seq(Entries), labelSelector : SUBSET Pods]

ASSUME FiniteAssumption == IsFiniteSet(Pods) /\ IsFiniteSet(Nodes)

ASSUME NilAssumption ==
  Nil \notin Nodes \cup Values \cup PolicyNames \cup Labels \cup PolicySpecs

ASSUME VersionAssumption ==
  /\ NodeVersions \in [Nodes -> SUBSET (Labels \cup {Nil})]
  /\ PolicyVersions \in [PolicyNames -> SUBSET (PolicySpecs \cup {Nil})]

ASSUME OptionAssumption == MaxPerNode \in Nat /\ Periodic \in BOOLEAN

VARIABLES
  place,       \* spec.nodeName of each pod; Nil while there is no such pod
  terminating, \* pods with a DeletionTimestamp
  nodes,       \* label map of each node, or Nil
  ready,       \* the nodes that are ready
  policies,    \* the policy informer cache
  pc,          \* what the process is doing
  nodeMap,     \* the ready nodes of this pass, with their labels
  tsps,        \* policies of this pass still to come: name -> spec
  nodepodCount,\* the evictor's successful evictions per node
  tsp,         \* the spec of the policy being worked on
  listed,      \* its pods as List returned them: the node each is on
  TpPairToMatchNum, \* pair -> the pods counted there
  todoPairs,   \* pairs that the range loop has not visited
  pair,        \* the pair it is at
  visited,     \* the pods of that pair handed to EvictPod
  astray       \* history: pods that others took from where this pass sees them

clusterVars == <<place, terminating, nodes, ready, policies>>
passVars == <<nodeMap, tsps, nodepodCount>>
policyVars == <<tsp, listed, TpPairToMatchNum, todoPairs, pair, visited>>
vars == <<clusterVars, pc, passVars, policyVars, astray>>

Steps == {"waiting", "policies", "pairs", "evicting", "stopped", "panicked"}

-------------------------------------------------------------------------------
(* The strategy's functions. *)

(* schedulePolicy[value] - count; a missing map entry reads as zero. *)
Desired(policy, value) == IF value \in DOMAIN policy THEN policy[value] ELSE 0

Diff(policy, counters, p) == Desired(policy, p[2]) - Cardinality(counters[p])

(* Slip: a value with too many pods hides those that are short. *)
checkAnyExceeds(policy, counters) ==
  (\E p \in DOMAIN counters : Diff(policy, counters, p) < 0)
    \/ \A p \in DOMAIN counters : Diff(policy, counters, p) <= 0

(* Slip: satisfied is made false when a value has too many. *)
checkExactlyMet(policy, counters) ==
  \A p \in DOMAIN counters : Diff(policy, counters, p) = 0

(* The variable satisfied starts true and is never made false. *)
checkTopoReached(policy, counters) ==
  \A p \in DOMAIN counters : Diff(policy, counters, p) <= 0

(* Slip: a missing label is not the empty string. *)
LabelOrNil(labels, key) == labels[key]

(* node.Labels[key] without the comma-ok form. *)
LabelOf(labels, key) == IF labels[key] = Nil THEN EmptyValue ELSE labels[key]

(* Slip: pods with a DeletionTimestamp are counted. *)
CountableTerminating(spec) ==
  {p \in spec.labelSelector : place[p] \in DOMAIN nodeMap}

(* The pods that List returns and the loop counts: not terminating, on a   *)
(* node of this pass.                                                      *)
Countable(spec) ==
  {p \in spec.labelSelector : place[p] \in DOMAIN nodeMap /\ p \notin terminating}

PairSeen(spec, p) ==
  TopologyPair(spec.topologyKey, LabelOf(nodeMap[place[p]], spec.topologyKey))

CountPods(spec) ==
  [pr \in {PairSeen(spec, p) : p \in Countable(spec)} |->
     {p \in Countable(spec) : PairSeen(spec, p) = pr}]

(* Where a pod would be counted if nodes were read now. *)
SitsIn(p, key, value) ==
  /\ place[p] # Nil
  /\ p \notin terminating
  /\ nodes[place[p]] # Nil
  /\ LabelOf(nodes[place[p]], key) = value

(* Slip: i <= toDeleteCount. *)
toDeleteOneMore == 1 - Diff(CovertPolicy(tsp.deployPlacement), TpPairToMatchNum, pair)

toDeleteCount == - Diff(CovertPolicy(tsp.deployPlacement), TpPairToMatchNum, pair)

-------------------------------------------------------------------------------
NoPolicy ==
  /\ tsp' = Nil /\ listed' = <<>> /\ TpPairToMatchNum' = <<>>
  /\ todoPairs' = {} /\ pair' = Nil /\ visited' = {}

NoPass == nodeMap' = <<>> /\ tsps' = <<>> /\ nodepodCount' = [n \in Nodes |-> 0]

Init ==
  /\ place \in [Pods -> {Nil} \cup Nodes]
  /\ terminating = {}
  /\ nodes \in [Nodes -> UNION {NodeVersions[n] : n \in Nodes}]
  /\ \A n \in Nodes : nodes[n] \in NodeVersions[n]
  /\ \A p \in Pods : place[p] # Nil => nodes[place[p]] # Nil
  /\ ready = {n \in Nodes : nodes[n] # Nil}
  /\ policies \in [PolicyNames -> UNION {PolicyVersions[q] : q \in PolicyNames}]
  /\ \A q \in PolicyNames : policies[q] \in PolicyVersions[q]
  /\ pc = "waiting"
  /\ nodeMap = <<>> /\ tsps = <<>> /\ nodepodCount = [n \in Nodes |-> 0]
  /\ tsp = Nil /\ listed = <<>> /\ TpPairToMatchNum = <<>>
  /\ todoPairs = {} /\ pair = Nil /\ visited = {}
  /\ astray = {}

-------------------------------------------------------------------------------
(* The loop. *)

(* ReadyNodes, a new evictor, and the list of policies from the cache. *)
StartPass ==
  /\ pc = "waiting"
  /\ Cardinality(ready) > 1
  /\ pc' = "policies"
  /\ nodeMap' = [n \in ready |-> nodes[n]]
  /\ tsps' = [q \in {r \in PolicyNames : policies[r] # Nil} |-> policies[q]]
  /\ nodepodCount' = [n \in Nodes |-> 0]
  /\ UNCHANGED <<clusterVars, policyVars, astray>>

(* With fewer than two nodes, or none to be had, the stop channel is       *)
(* closed and the process ends, with an interval or without.               *)
TooFewNodes ==
  /\ pc = "waiting"
  /\ Cardinality(ready) <= 1
  /\ pc' = "stopped"
  /\ UNCHANGED <<clusterVars, passVars, policyVars, astray>>

ReadyNodesFails ==
  /\ pc = "waiting"
  /\ pc' = "stopped"
  /\ UNCHANGED <<clusterVars, passVars, policyVars, astray>>

EndPass ==
  /\ pc = "policies"
  /\ DOMAIN tsps = {}
  /\ pc' = IF Periodic THEN "waiting" ELSE "stopped"
  /\ NoPass
  /\ astray' = {}
  /\ UNCHANGED <<clusterVars, policyVars>>

-------------------------------------------------------------------------------
(* The strategy, one policy after the other. *)

Rest(q) == [r \in DOMAIN tsps \ {q} |-> tsps[r]]

Skips(spec) == checkTopoReached(CovertPolicy(spec.deployPlacement), CountPods(spec))

(* The policy's pods are listed and counted.  When checkTopoReached says   *)
(* so, nothing is done about them.                                         *)
ListPods(q) ==
  /\ pc = "policies"
  /\ q \in DOMAIN tsps
  /\ tsps' = Rest(q)
  /\ IF Skips(tsps[q])
     THEN UNCHANGED <<pc, policyVars, astray>>
     ELSE LET spec == tsps[q]
              counters == CountPods(spec)
          IN /\ pc' = "pairs"
             /\ tsp' = spec
             /\ listed' = [p \in Countable(spec) |-> place[p]]
             /\ TpPairToMatchNum' = counters
             /\ todoPairs' = DOMAIN counters
             /\ astray' = {p \in Countable(spec) \ terminating :
                             ~ SitsIn(p, spec.topologyKey, PairSeen(spec, p)[2])}
             /\ UNCHANGED <<pair, visited>>
  /\ UNCHANGED <<clusterVars, nodeMap, nodepodCount>>

(* The selector does not convert, or the List call fails. *)
ListFails(q) ==
  /\ pc = "policies"
  /\ q \in DOMAIN tsps
  /\ tsps' = Rest(q)
  /\ UNCHANGED <<clusterVars, pc, nodeMap, nodepodCount, policyVars, astray>>

(* The range over the map visits its pairs in any order. *)
VisitPair(pr) ==
  /\ pc = "pairs"
  /\ pr \in todoPairs
  /\ todoPairs' = todoPairs \ {pr}
  /\ IF Diff(CovertPolicy(tsp.deployPlacement), TpPairToMatchNum, pr) >= 0
     THEN UNCHANGED <<pc, pair>>
     ELSE pc' = "evicting" /\ pair' = pr
  /\ UNCHANGED <<clusterVars, passVars, tsp, listed, TpPairToMatchNum, visited, astray>>

EndPairs ==
  /\ pc = "pairs"
  /\ todoPairs = {}
  /\ pc' = "policies"
  /\ NoPolicy
  /\ astray' = {}
  /\ UNCHANGED <<clusterVars, passVars>>

(* counter.pods[i] for the next i < toDeleteCount, after some sort. *)
IsNext(p) ==
  /\ pc = "evicting"
  /\ Cardinality(visited) < toDeleteCount
  /\ p \in TpPairToMatchNum[pair] \ visited

(* The evictor counts for its limit, and reads the count for that only.    *)
LimitReached(n) == MaxPerNode > 0 /\ nodepodCount[n] + 1 > MaxPerNode

(* The API server takes the eviction of whatever pod has that name now.    *)
EvictPod(p) ==
  /\ IsNext(p)
  /\ place[p] # Nil
  /\ ~ LimitReached(listed[p])
  /\ visited' = visited \cup {p}
  /\ terminating' = terminating \cup {p}
  /\ nodepodCount' = IF MaxPerNode = 0 THEN nodepodCount
                     ELSE [nodepodCount EXCEPT ![listed[p]] = @ + 1]
  /\ UNCHANGED <<place, nodes, ready, policies, pc, nodeMap, tsps, tsp, listed,
                 TpPairToMatchNum, todoPairs, pair, astray>>

(* The node's limit is reached, the pod is gone, a disruption budget or    *)
(* any other error refuses: the result is not looked at.                   *)
EvictPodFails(p) ==
  /\ IsNext(p)
  /\ visited' = visited \cup {p}
  /\ UNCHANGED <<clusterVars, pc, passVars, tsp, listed, TpPairToMatchNum, todoPairs,
                 pair, astray>>

EndPair ==
  /\ pc = "evicting"
  /\ Cardinality(visited) >= toDeleteCount
  /\ pc' = "pairs"
  /\ pair' = Nil
  /\ visited' = {}
  /\ UNCHANGED <<clusterVars, passVars, tsp, listed, TpPairToMatchNum, todoPairs, astray>>

(* counter.pods[i] with i = len(counter.pods). *)
IndexOutOfRange ==
  /\ pc = "evicting"
  /\ Cardinality(visited) < toDeleteCount
  /\ TpPairToMatchNum[pair] \subseteq visited
  /\ pc' = "panicked"
  /\ UNCHANGED <<clusterVars, passVars, policyVars, astray>>

(* The kubelet starts the container again, whatever ended it and whenever. *)
Restart ==
  /\ pc' = "waiting"
  /\ NoPass
  /\ NoPolicy
  /\ astray' = {}
  /\ UNCHANGED clusterVars

-------------------------------------------------------------------------------
(* The cluster. *)

(* What others move while a policy's pairs are worked on. *)
Stray(S) == astray' = IF pc \in {"pairs", "evicting"} THEN astray \cup S ELSE {}

(* A pod is created, anew or under an old name, and scheduled. *)
Appear(p, n) ==
  /\ place[p] = Nil
  /\ nodes[n] # Nil
  /\ place' = [place EXCEPT ![p] = n]
  /\ UNCHANGED <<terminating, nodes, ready, policies, pc, passVars, policyVars, astray>>

(* Somebody else deletes it. *)
Delete(p) ==
  /\ place[p] # Nil
  /\ p \notin terminating
  /\ terminating' = terminating \cup {p}
  /\ Stray({p})
  /\ UNCHANGED <<place, nodes, ready, policies, pc, passVars, policyVars>>

Vanish(p) ==
  /\ p \in terminating
  /\ place' = [place EXCEPT ![p] = Nil]
  /\ terminating' = terminating \ {p}
  /\ UNCHANGED <<nodes, ready, policies, pc, passVars, policyVars, astray>>

UpdateNode(n) ==
  /\ \E v \in NodeVersions[n] \ {nodes[n]} :
       /\ nodes' = [nodes EXCEPT ![n] = v]
       /\ ready' = IF v = Nil THEN ready \ {n} ELSE ready
  /\ Stray({p \in Pods : place[p] = n})
  /\ UNCHANGED <<place, terminating, policies, pc, passVars, policyVars>>

FlipReady(n) ==
  /\ n \in FlippingNodes /\ nodes[n] # Nil
  /\ ready' = IF n \in ready THEN ready \ {n} ELSE ready \cup {n}
  /\ UNCHANGED <<place, terminating, nodes, policies, pc, passVars, policyVars, astray>>

UpdatePolicy(q) ==
  /\ \E v \in PolicyVersions[q] \ {policies[q]} : policies' = [policies EXCEPT ![q] = v]
  /\ UNCHANGED <<place, terminating, nodes, ready, pc, passVars, policyVars, astray>>

-------------------------------------------------------------------------------
Pass ==
  \/ StartPass \/ TooFewNodes \/ ReadyNodesFails \/ EndPass
  \/ \E q \in PolicyNames : ListPods(q) \/ ListFails(q)

WorkOnPolicy ==
  \/ \E pr \in todoPairs : VisitPair(pr)
  \/ \E p \in Pods : EvictPod(p) \/ EvictPodFails(p)
  \/ EndPair \/ EndPairs \/ IndexOutOfRange

(* Every change by others that can move a count. *)
Disturbance ==
  \/ \E p \in Pods : Delete(p) \/ \E n \in Nodes : Appear(p, n)
  \/ \E n \in Nodes : UpdateNode(n) \/ FlipReady(n)
  \/ \E q \in PolicyNames : UpdatePolicy(q)
  \/ pc \notin {"stopped", "panicked"} /\ Restart

Next ==
  \/ Pass
  \/ WorkOnPolicy
  \/ Restart
  \/ Disturbance
  \/ \E p \in Pods : Vanish(p)

Spec == Init /\ [][Next]_vars

-------------------------------------------------------------------------------
(* Properties. *)

Pairs == Keys \X (Values \cup {EmptyValue})

TypeOK ==
  /\ place \in [Pods -> Nodes \cup {Nil}]
  /\ terminating \subseteq {p \in Pods : place[p] # Nil}
  /\ nodes \in [Nodes -> Labels \cup {Nil}]
  /\ ready \subseteq {n \in Nodes : nodes[n] # Nil}
  /\ policies \in [PolicyNames -> PolicySpecs \cup {Nil}]
  /\ pc \in Steps
  /\ DOMAIN nodeMap \subseteq Nodes /\ \A n \in DOMAIN nodeMap : nodeMap[n] \in Labels
  /\ DOMAIN tsps \subseteq PolicyNames /\ \A q \in DOMAIN tsps : tsps[q] \in PolicySpecs
  /\ nodepodCount \in [Nodes -> Nat]
  /\ tsp \in PolicySpecs \cup {Nil}
  /\ DOMAIN listed \subseteq Pods /\ \A p \in DOMAIN listed : listed[p] \in DOMAIN nodeMap
  /\ DOMAIN TpPairToMatchNum \subseteq Pairs
  /\ \A pr \in DOMAIN TpPairToMatchNum :
       /\ TpPairToMatchNum[pr] # {}
       /\ TpPairToMatchNum[pr] \subseteq DOMAIN listed
  /\ todoPairs \subseteq DOMAIN TpPairToMatchNum
  /\ pair \in DOMAIN TpPairToMatchNum \cup {Nil}
  /\ visited \subseteq Pods
  /\ astray \subseteq Pods

(* NoUndershoot: of the pods it listed in a topology value, the strategy's *)
(* own evictions leave the policy's replicas there (or all, if it listed   *)
(* fewer), whatever results it ignores, and with evictions by name, a      *)
(* limit and restarts.  A pod that others deleted, or whose node they      *)
(* changed, counts as left: with those together the value may well end up  *)
(* below its replicas.                                                     *)
NoUndershoot ==
  pc \in {"pairs", "evicting"} =>
    \A pr \in DOMAIN TpPairToMatchNum :
      LET counted == TpPairToMatchNum[pr]
          desired == Desired(CovertPolicy(tsp.deployPlacement), pr[2])
          stay    == {p \in counted : p \in astray \/ SitsIn(p, pr[1], pr[2])}
      IN  Cardinality(stay) >= (IF desired < Cardinality(counted) THEN desired
                                ELSE Cardinality(counted))

(* PanicsOnNegativeOnly: the eviction loop indexes past the pods it        *)
(* counted only where the policy names the value with negative replicas.   *)
PanicsOnNegativeOnly ==
  pc = "panicked" => Desired(CovertPolicy(tsp.deployPlacement), pair[2]) < 0

(* SkipsOnlyReached: the strategy passes over a policy only when no value  *)
(* is short of its replicas or none has more ("some keys exceed, some keys *)
(* not exceed => not reached", checkTopoReached).                          *)
Count(spec, value) == Cardinality({p \in Countable(spec) : PairSeen(spec, p)[2] = value})

Mixed(spec) ==
  LET policy == CovertPolicy(spec.deployPlacement)
      values == DOMAIN policy \cup {PairSeen(spec, p)[2] : p \in Countable(spec)}
  IN  /\ \E v \in values : Count(spec, v) < Desired(policy, v)
      /\ \E v \in values : Count(spec, v) > Desired(policy, v)

SkipsOnlyReached ==
  pc = "policies" => \A q \in DOMAIN tsps : Skips(tsps[q]) => ~ Mixed(tsps[q])

-------------------------------------------------------------------------------
(* Liveness. *)

(* The process goes on, is started again when it ended, gets its lists     *)
(* answered when it asks again and again, and no disruption budget refuses *)
(* the same pod for ever.                                                  *)
Fairness ==
  /\ SF_vars(StartPass)
  /\ WF_vars(EndPass \/ EndPairs \/ EndPair \/ IndexOutOfRange)
  /\ \A q \in PolicyNames : SF_vars(ListPods(q)) /\ WF_vars(ListPods(q) \/ ListFails(q))
  /\ WF_vars(\E pr \in todoPairs : VisitPair(pr))
  /\ \A p \in Pods : SF_vars(EvictPod(p))
  /\ WF_vars(\E p \in Pods : EvictPod(p) \/ EvictPodFails(p))
  /\ WF_vars(pc \in {"stopped", "panicked"} /\ Restart)

FairSpec == Spec /\ Fairness

(* The pods of a policy that a pass would find in a value now. *)
Found(q, value) ==
  {p \in policies[q].labelSelector :
     place[p] \in ready /\ SitsIn(p, policies[q].topologyKey, value)}

Exceeds(q, v) ==
  Cardinality(Found(q, v)) > Desired(CovertPolicy(policies[q].deployPlacement), v)
Short(q, v) ==
  Cardinality(Found(q, v)) < Desired(CovertPolicy(policies[q].deployPlacement), v)

CallsForEviction(q, v) ==
  /\ policies[q] # Nil
  /\ Cardinality(ready) > 1
  /\ Exceeds(q, v)
  /\ \E w \in Values : Found(q, w) # {} /\ Short(q, w)

===============================================================================
