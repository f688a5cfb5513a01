----------------------------- MODULE MultiCluster -----------------------------
(***************************************************************************)
(* The MultiClusterScheduling plugin: New builds and starts a scheduler    *)
(* for every configured cluster, and Filter on a virtual node asks the one *)
(* behind it whether the pod would fit there.                              *)
(*                                                                         *)
(* The framework filters the nodes of a pod in parallel and hands every    *)
(* call the same CycleState.  The profile's own plugins have left their    *)
(* PreFilter data in it, and each inner scheduler writes its own over it,  *)
(* under the same keys.  These data are here the zones that the pod must   *)
(* keep out of: by anti-affinity, its own or that of pods that are there,  *)
(* and by its topology spread constraints.  Two virtual nodes of one       *)
(* cluster share that cluster's Algorithm and the one snapshot it has.     *)
(*                                                                         *)
(* The framework, the inner schedulers' Algorithm.Filter and caches, the   *)
(* member clusters, and the virtual kubelets that run there what is bound  *)
(* here are not under src/ and are marked external in the map.             *)
(***************************************************************************)
EXTENDS Integers, FiniteSets

CONSTANTS
  Pods, Nodes, Clusters, InnerNodes, Zones,
  Nil,          \* no cluster ID, no pod, nowhere
  Virtual,      \* the nodes labelled as a virtual kubelet's
  ClusterOf,    \* node -> its clusterID label, or Nil
  Configured,   \* the clusters in ClusterConfiguration
  Home,         \* inner node -> its cluster
  ZoneOf,       \* inner node -> its zone, in whatever cluster
  NodeZone,     \* node -> its zone, or Nil
  Candidates,   \* pod -> the nodes that the profile accepts without such data
  OwnData,      \* pod -> the data that the profile's own PreFilter leaves
  Annotated,    \* the pods with a readable clusterSelector annotation
  Selection,    \* pod -> the inner nodes that its annotation selects
  Avoids,       \* pod -> those its annotation keeps it out of zones with
  Spread,       \* pods that spread over the zones, by their own spec
  Repelling,    \* cluster -> pod -> the zones from which the cluster's
                \* own pods keep it, by their anti-affinity
  Capacity      \* pods an inner node can take

Placement == [Pods -> InnerNodes \cup {Nil}]
Nowhere == [p \in Pods |-> Nil]
CallState == {"none", "waiting", "accepted", "asked", "filtering", "fits", "unfit"}

ASSUME ClusterAssumption ==
  /\ Virtual \subseteq Nodes /\ Configured \subseteq Clusters
  /\ Home \in [InnerNodes -> Clusters] /\ ZoneOf \in [InnerNodes -> Zones]
  /\ ClusterOf \in [Nodes -> Clusters \cup {Nil}]
  /\ Repelling \in [Clusters -> [Pods -> SUBSET Zones]]
  /\ Nil \notin Clusters \cup InnerNodes \cup Nodes \cup Pods \cup Placement

ASSUME PodAssumption ==
  /\ Candidates \in [Pods -> SUBSET Nodes]
  /\ Selection \in [Pods -> SUBSET InnerNodes]
  /\ OwnData \in [Pods -> SUBSET Zones]
  /\ Avoids \in [Pods -> SUBSET Pods]
  /\ Capacity \in Nat /\ IsFiniteSet(Pods)

VARIABLES
  phase,      \* of the plugin
  todo,       \* clusters that New has not come to
  building,   \* the one it is at, or Nil
  step,       \* what it does next for that one
  schedulers, \* clusters that have an inner scheduler
  nodesSeen,  \* of those, the ones whose nodes are in the cache
  seen,       \* their caches: cluster -> pod -> inner node, or Nil
  reachable,  \* clusters whose API server answers
  target,     \* the node a pod is bound to, or Nil
  where,      \* the inner node it really runs on, or Nil
  pod,        \* the pod of this scheduling cycle, or Nil
  call,       \* node -> the state of its Filter call
  snapshot,   \* cluster -> its Algorithm's snapshot, or Nil
  preFilter   \* the PreFilter data in the shared CycleState

newVars == <<phase, todo, building, step>>
pluginVars == <<newVars, schedulers, nodesSeen, seen>>
cycleVars == <<pod, call, snapshot, preFilter>>
worldVars == <<reachable, target, where>>
vars == <<pluginVars, cycleVars, worldVars>>

-------------------------------------------------------------------------------
(* The plugin's functions. *)

(* Slip: any of the schedulers will do for a virtual node. *)
AnyScheduler(n) ==
  IF n \in Virtual /\ schedulers # {} THEN CHOOSE c \in schedulers : TRUE ELSE Nil

IsVirtualNode(n) == n \in Virtual

GetClusterID(n) == ClusterOf[n]

(* The plugin's map of schedulers. *)
SchedulerOf(n) ==
  IF IsVirtualNode(n) /\ GetClusterID(n) \in schedulers THEN GetClusterID(n) ELSE Nil

(* The copy of the pod keeps nothing of its own selector, affinity and     *)
(* tolerations; it has those of the annotation, or none if that cannot be  *)
(* read.                                                                   *)
ConvertAnnotations(p) == IF p \in Annotated THEN Selection[p] ELSE InnerNodes

(* The pods in whose zones, by the one's annotation or the other's, the    *)
(* copy may not be.                                                        *)
Apart(p) == {q \in Pods : (p \in Annotated /\ q \in Avoids[p]) \/ (q \in Annotated /\ p \in Avoids[q])}

(* The copy keeps the pod's topology spread constraints: a zone of nodes   *)
(* it may have is too full if another of them holds fewer pods.            *)
FullZones(c, p, snap) ==
  LET zones == {ZoneOf[i] : i \in {j \in ConvertAnnotations(p) : Home[j] = c}}
      PodsIn(z) == Cardinality({q \in Pods : snap[q] # Nil /\ ZoneOf[snap[q]] = z})
  IN {z \in zones : p \in Spread /\ \E y \in zones : PodsIn(y) < PodsIn(z)}

(* What an inner PreFilter works out for the copy, annotation or not. *)
TakenZones(c, p, snap) ==
  Repelling[c][p] \cup FullZones(c, p, snap)
    \cup {ZoneOf[snap[q]] : q \in {r \in Apart(p) : snap[r] # Nil}}

(* The nodes that an inner scheduler with this snapshot and these data     *)
(* finds feasible.                                                         *)
Feasible(c, p, snap, taken) ==
  {i \in ConvertAnnotations(p) :
     /\ Home[i] = c
     /\ Cardinality({q \in Pods : snap[q] = i}) < Capacity
     /\ ZoneOf[i] \notin taken}

-------------------------------------------------------------------------------
NoCycle ==
  /\ pod' = Nil
  /\ call' = [n \in Nodes |-> "none"]
  /\ snapshot' = [c \in Clusters |-> Nil]
  /\ preFilter' = {}

Init ==
  /\ phase = "new" /\ todo = Configured /\ building = Nil /\ step = "none"
  /\ schedulers = {}
  /\ nodesSeen = {} /\ seen = [c \in Clusters |-> Nowhere]
  /\ reachable \in SUBSET Clusters
  /\ target = [p \in Pods |-> Nil] /\ where = Nowhere
  /\ pod = Nil
  /\ call = [n \in Nodes |-> "none"]
  /\ snapshot = [c \in Clusters |-> Nil]
  /\ preFilter = {}

-------------------------------------------------------------------------------
(* New. *)

(* One cluster of the range over the map, in any order. *)
BuildConfigFromFlags(c) ==
  /\ phase = "new" /\ building = Nil
  /\ c \in todo
  /\ todo' = todo \ {c}
  /\ building' = c
  /\ step' = "NewDefaultComponentConfig"
  /\ UNCHANGED <<phase, schedulers, nodesSeen, seen, cycleVars, worldVars>>

Does(this, then) ==
  /\ phase = "new"
  /\ step = this
  /\ step' = then
  /\ UNCHANGED <<phase, todo, building, schedulers, nodesSeen, seen, cycleVars, worldVars>>

NewDefaultComponentConfig == Does("NewDefaultComponentConfig", "Config")

(* Clients from the cluster's kubeconfig, informer factory, broadcaster. *)
Config == Does("Config", "NewScheduler")

NewScheduler == Does("NewScheduler", "Run")

(* go scheduler.Run: its informers start in a goroutine that nobody waits  *)
(* for; the scheduler goes into the map.                                   *)
Run ==
  /\ phase = "new"
  /\ step = "Run"
  /\ schedulers' = schedulers \cup {building}
  /\ building' = Nil /\ step' = "none"
  /\ UNCHANGED <<phase, todo, nodesSeen, seen, cycleVars, worldVars>>

(* BuildConfigFromFlags fails and New with it, or anything after that and  *)
(* klog.Fatal ends the process.                                            *)
NewFails ==
  /\ phase = "new"
  /\ (building = Nil /\ todo # {}) \/ step \notin {"none", "Run"}
  /\ phase' = "exited"
  /\ UNCHANGED <<todo, building, step, schedulers, nodesSeen, seen, cycleVars, worldVars>>

(* Slip: Run is called, not started. *)
AllBuiltAndSynced == todo = {} /\ building = Nil /\ schedulers \subseteq nodesSeen

(* Slip: return inside the loop. *)
OneBuilt == building = Nil /\ (todo # Configured \/ todo = {})

AllBuilt == todo = {} /\ building = Nil

NewReturns ==
  /\ phase = "new"
  /\ AllBuilt
  /\ phase' = "up"
  /\ UNCHANGED <<todo, building, step, schedulers, nodesSeen, seen, cycleVars, worldVars>>

(* The process ends, at any time, and is started again. *)
Restart ==
  /\ phase' = "new" /\ todo' = Configured /\ building' = Nil /\ step' = "none"
  /\ schedulers' = {}
  /\ nodesSeen' = {} /\ seen' = [c \in Clusters |-> Nowhere]
  /\ NoCycle
  /\ UNCHANGED worldVars

(* The inner informers: nodes and pods by streams of their own, so that a  *)
(* cluster's nodes may be there before the pods that fill them.            *)
SeeNodes(c) ==
  /\ c \in (schedulers \cap reachable) \ nodesSeen
  /\ nodesSeen' = nodesSeen \cup {c}
  /\ UNCHANGED <<newVars, schedulers, seen, cycleVars, worldVars>>

In(c, p) == IF where[p] # Nil /\ Home[where[p]] = c THEN where[p] ELSE Nil

SeePod(c, p) ==
  /\ c \in schedulers \cap reachable
  /\ seen[c][p] # In(c, p)
  /\ seen' = [seen EXCEPT ![c][p] = In(c, p)]
  /\ UNCHANGED <<newVars, schedulers, nodesSeen, cycleVars, worldVars>>

-------------------------------------------------------------------------------
(* A scheduling cycle, one pod at a time, and its parallel Filter calls. *)

(* The framework runs the profile's PreFilter; no inner scheduler reads    *)
(* a snapshot of an earlier cycle.                                         *)
StartCycle(p) ==
  /\ phase = "up"
  /\ pod = Nil
  /\ target[p] = Nil
  /\ pod' = p
  /\ call' = [n \in Nodes |-> IF n \in Candidates[p] THEN "waiting" ELSE "none"]
  /\ preFilter' = OwnData[p]
  /\ UNCHANGED <<pluginVars, snapshot, worldVars>>

(* The profile's other filters of the node come first, and read the data   *)
(* as they are by then.                                                    *)
OtherFilters(n) ==
  /\ call[n] = "waiting"
  /\ call' = [call EXCEPT ![n] = IF NodeZone[n] \in preFilter THEN "unfit" ELSE "accepted"]
  /\ UNCHANGED <<pluginVars, pod, snapshot, preFilter, worldVars>>

(* No virtual node, no cluster ID or no scheduler for it: Success. *)
FilterPasses(n) ==
  /\ call[n] = "accepted"
  /\ SchedulerOf(n) = Nil
  /\ call' = [call EXCEPT ![n] = "fits"]
  /\ UNCHANGED <<pluginVars, pod, snapshot, preFilter, worldVars>>

(* Algorithm.Filter knows no node yet: its error makes Unschedulable. *)
NoInnerNodes(n) ==
  /\ call[n] = "accepted"
  /\ SchedulerOf(n) # Nil /\ SchedulerOf(n) \notin nodesSeen
  /\ call' = [call EXCEPT ![n] = "unfit"]
  /\ UNCHANGED <<pluginVars, pod, snapshot, preFilter, worldVars>>

(* Filter converts a copy of the pod and calls Algorithm.Filter, which     *)
(* brings its snapshot up to its cache, under the feet of other calls,     *)
TakeSnapshot(n) ==
  /\ call[n] = "accepted"
  /\ SchedulerOf(n) \in nodesSeen
  /\ call' = [call EXCEPT ![n] = "asked"]
  /\ snapshot' = [snapshot EXCEPT ![SchedulerOf(n)] = seen[SchedulerOf(n)]]
  /\ UNCHANGED <<pluginVars, pod, preFilter, worldVars>>

(* writes its PreFilter data over whatever is there,                       *)
InnerPreFilter(n) ==
  LET c == SchedulerOf(n) IN
  /\ call[n] = "asked"
  /\ call' = [call EXCEPT ![n] = "filtering"]
  /\ preFilter' = TakenZones(c, pod, snapshot[c])
  /\ UNCHANGED <<pluginVars, pod, snapshot, worldVars>>

(* and reads what is there now.  Success if a node is feasible,            *)
(* Unschedulable if none is or on any error.                               *)
InnerFilter(n) ==
  LET c == SchedulerOf(n) IN
  /\ call[n] = "filtering"
  /\ call' = [call EXCEPT ![n] =
       IF Feasible(c, pod, snapshot[c], preFilter) # {} THEN "fits" ELSE "unfit"]
  /\ UNCHANGED <<pluginVars, pod, snapshot, preFilter, worldVars>>

Answered == \A n \in Candidates[pod] : call[n] \in {"fits", "unfit"}

Bind(n) ==
  /\ pod # Nil /\ Answered
  /\ call[n] = "fits"
  /\ target' = [target EXCEPT ![pod] = n]
  /\ NoCycle
  /\ UNCHANGED <<pluginVars, reachable, where>>

NoNode ==
  /\ pod # Nil /\ Answered
  /\ \A n \in Nodes : call[n] # "fits"
  /\ NoCycle
  /\ UNCHANGED <<pluginVars, worldVars>>

-------------------------------------------------------------------------------
(* The clusters. *)

(* The nodes of a cluster that the pod really fits on. *)
Room(c, p) ==
  LET now == [q \in Pods |-> In(c, q)] IN Feasible(c, p, now, TakenZones(c, p, now))

(* The virtual kubelet creates the pod there, and the cluster places it. *)
Land(p, i) ==
  /\ target[p] \in Virtual /\ where[p] = Nil
  /\ ClusterOf[target[p]] = Home[i] /\ Home[i] \in reachable
  /\ i \in Room(Home[i], p)
  /\ where' = [where EXCEPT ![p] = i]
  /\ UNCHANGED <<pluginVars, cycleVars, reachable, target>>

(* The pod is deleted, and created anew. *)
Leave(p) ==
  /\ target[p] # Nil
  /\ target' = [target EXCEPT ![p] = Nil]
  /\ where' = [where EXCEPT ![p] = Nil]
  /\ UNCHANGED <<pluginVars, cycleVars, reachable>>

FlipReachable(c) ==
  /\ reachable' = IF c \in reachable THEN reachable \ {c} ELSE reachable \cup {c}
  /\ UNCHANGED <<pluginVars, cycleVars, target, where>>

-------------------------------------------------------------------------------
New ==
  \/ \E c \in Clusters : BuildConfigFromFlags(c)
  \/ NewDefaultComponentConfig \/ Config \/ NewScheduler \/ Run
  \/ NewReturns

Informers == \E c \in Clusters : SeeNodes(c) \/ \E p \in Pods : SeePod(c, p)

Filter(n) ==
  \/ OtherFilters(n)
  \/ FilterPasses(n) \/ NoInnerNodes(n)
  \/ TakeSnapshot(n) \/ InnerPreFilter(n) \/ InnerFilter(n)

Cycle ==
  \/ \E p \in Pods : StartCycle(p)
  \/ \E n \in Nodes : Filter(n) \/ Bind(n)
  \/ NoNode

World ==
  \/ \E p \in Pods : Leave(p) \/ \E i \in InnerNodes : Land(p, i)
  \/ \E c \in Clusters : FlipReachable(c)

Next == New \/ NewFails \/ Restart \/ Informers \/ Cycle \/ World

Spec == Init /\ [][Next]_vars

-------------------------------------------------------------------------------
(* Properties. *)

TypeOK ==
  /\ phase \in {"new", "up", "exited"}
  /\ todo \subseteq Configured /\ schedulers \subseteq Configured
  /\ building \in Configured \cup {Nil}
  /\ step \in {"none", "NewDefaultComponentConfig", "Config", "NewScheduler", "Run"}
  /\ phase = "up" => schedulers = Configured
  /\ nodesSeen \subseteq schedulers
  /\ seen \in [Clusters -> Placement]
  /\ reachable \subseteq Clusters
  /\ target \in [Pods -> Nodes \cup {Nil}]
  /\ where \in Placement
  /\ pod \in Pods \cup {Nil}
  /\ call \in [Nodes -> CallState]
  /\ snapshot \in [Clusters -> Placement \cup {Nil}]
  /\ preFilter \subseteq Zones

(* VerdictExact: a call of Filter on a virtual node passes exactly when    *)
(* the cluster behind it, by the snapshot its Algorithm then has, holds a  *)
(* node that is selected, not full and in no zone the pod keeps out of, if *)
(*  - no cluster has data about the pod (no spread constraint, no          *)
(*    anti-affinity of its annotation or of pods that are there), or       *)
(*  - no call on another virtual node has come to its cluster by then.     *)
(* It says nothing else: two calls under way for a pod with such data, in  *)
(* two clusters or in one, may read each other's, and the verdict may be   *)
(* wrong either way.                                                       *)
Neutral(p) == p \notin Spread /\ Apart(p) = {} /\ \A c \in Clusters : Repelling[c][p] = {}

FirstAsked(n) ==
  \A m \in Virtual \ {n} : call[m] \in {"none", "waiting", "accepted"}

Verdict(n) == call[n] = "filtering" /\ call'[n] \in {"fits", "unfit"}

VerdictExact ==
  [][\A n \in Nodes : Verdict(n) /\ (Neutral(pod) \/ FirstAsked(n)) =>
       LET c == ClusterOf[n] IN
       /\ snapshot[c] # Nil
       /\ call'[n] = "fits" <=>
            Feasible(c, pod, snapshot[c], TakenZones(c, pod, snapshot[c])) # {}]_vars

-------------------------------------------------------------------------------
(* Liveness. *)

(* New's own steps, the goroutines and the scheduling loop go on; a pod    *)
(* that found no node is tried again; a process that exited is restarted.  *)
(* Nothing is asked of the clusters.                                       *)
Fairness ==
  /\ WF_vars(New) /\ WF_vars(phase = "exited" /\ Restart)
  /\ \A c \in Clusters : WF_vars(SeeNodes(c)) /\ \A p \in Pods : WF_vars(SeePod(c, p))
  /\ \A p \in Pods : SF_vars(StartCycle(p))
  /\ WF_vars(\E n \in Nodes : Filter(n) \/ Bind(n))
  /\ WF_vars(NoNode)

FairSpec == Spec /\ Fairness

Failure == NewFails \/ (phase # "exited" /\ Restart)

(* FindsItsCluster: a pod that no cluster has data about, and whose        *)
(* cluster stays reachable with room for it, finds a node again and again, *)
(* however long New's informers take, whichever other cluster never        *)
(* answers and whatever other calls write.                                 *)
HasRoomIn(p, n, i) ==
  /\ ClusterOf[n] \in reachable
  /\ \A q \in Pods \ {p} : where[q] # i

FindsItsCluster ==
  \A p \in Pods, i \in InnerNodes : \A n \in Candidates[p] \cap Virtual :
    /\ Neutral(p) /\ NodeZone[n] \notin OwnData[p]
    /\ ClusterOf[n] = Home[i] /\ i \in ConvertAnnotations(p)
    => (<>[][~ Failure]_vars /\ <>[]HasRoomIn(p, n, i) => []<>(target[p] # Nil))

===============================================================================
