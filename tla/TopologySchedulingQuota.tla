----------------------- MODULE TopologySchedulingQuota ------------------------
(***************************************************************************)
(* The scheduler with its plugin implements PlacementQuota, one policy at  *)
(* a time, when that policy and the nodes rest and the profile keeps a pod *)
(* on the nodes its own selector allows.                                   *)
(***************************************************************************)
EXTENDS TopologyScheduling

CONSTANTS
  Watched,    \* the policy under which the pods are counted
  WatchedSpec \* its only version

ASSUME WatchedAssumption ==
  /\ Watched \in PolicyNames
  /\ WatchedSpec \in PolicySpecs
  /\ PolicyVersions[Watched] = {WatchedSpec}

(* Nodes that rest have one version, which is not Nil. *)
ASSUME NodesRest ==
  \A n \in Nodes : \E labels \in Labels : NodeVersions[n] = {labels}

ASSUME ProfileAssumption == SelectorEnforced /\ NoEmptyLabel

WatchedKey == WatchedSpec.topologyKey
WatchedPods == WatchedSpec.labelSelector
WatchedQuota == CovertPolicy(WatchedSpec.deployPlacement)

(* Under the policy's label and in its selector. *)
GovernedPods == {p \in WatchedPods : PolicyOf[p] = Watched}

(* The refinement mapping.  A pod is placed where its node's label says,   *)
(* from the moment the scheduler assumes it; the surplus is open while a   *)
(* cycle works on a snapshot in which every value had its replicas.        *)
PlaceOf(p) == IF podNode[p] = Nil THEN Nil ELSE nodes[podNode[p]][WatchedKey]

WatchedPlace == [p \in WatchedPods |-> PlaceOf(p)]

WatchedLeaving == {p \in WatchedPods \cap terminating : PlaceOf(p) # Nil}

SurplusOpen ==
  /\ phase # "idle"
  /\ \A v \in DOMAIN WatchedQuota :
       Cardinality(Holds(WatchedPods, WatchedKey, v)) >= WatchedQuota[v]

Abstract == INSTANCE PlacementQuota
  WITH Members    <- WatchedPods,
       Governed   <- GovernedPods,
       Topologies <- Values,
       Quota      <- WatchedQuota,
       Unplaced   <- Nil,
       place      <- WatchedPlace,
       leaving    <- WatchedLeaving,
       surplus    <- SurplusOpen

(* ImplementsQuota: whatever cycles, binding failures, deletions and       *)
(* restarts interleave, the placements in the scheduler's cache are ones   *)
(* that PlacementQuota allows.                                             *)
ImplementsQuota == Abstract!QuotaSpec

===============================================================================
