---------------------------- MODULE SuperScheduling ----------------------------
(***************************************************************************)
(* The two programs together: the descheduler takes pods out of topology   *)
(* values that have too many, their controller creates them again, and the *)
(* scheduler plugin places them.                                           *)
(*                                                                         *)
(* The plugin is here what PlacementQuota says of it, which run quota      *)
(* shows TopologyScheduling to implement; one policy governs all pods.     *)
(***************************************************************************)
EXTENDS Descheduler

ASSUME OnePolicyAssumption ==
  \E q \in PolicyNames :
    /\ PolicyNames = {q}
    /\ \E spec \in PolicyVersions[q] : PolicyVersions[q] \ {Nil} = {spec}

VARIABLE surplus \* the scheduler has seen every quota met

superVars == <<vars, surplus>>

Policy == CHOOSE q \in PolicyNames : TRUE
TheSpec == CHOOSE spec \in PolicyVersions[Policy] : spec # Nil
Quota == CovertPolicy(TheSpec.deployPlacement)

(* A node without the topology key passes no Filter, nor does one that is  *)
(* gone.                                                                   *)
ValueOf(n) ==
  IF n = Nil \/ nodes[n] = Nil THEN Nil ELSE nodes[n][TheSpec.topologyKey]

Plugin == INSTANCE PlacementQuota
  WITH Members <- Pods, Governed <- Pods, Topologies <- Values,
       Quota <- Quota, Unplaced <- Nil,
       place <- [p \in Pods |-> ValueOf(place[p])],
       leaving <- terminating

SuperInit == Init /\ surplus = FALSE

Pending == {p \in Pods : place[p] = Nil}

(* PreFilter, for a pod that waits. *)
Look ==
  /\ Pending # {} /\ policies[Policy] # Nil
  /\ UNCHANGED vars
  /\ Plugin!Look

(* A pod that was evicted, or is new, goes where the plugin lets it; nodes *)
(* that are not ready are tainted.                                         *)
Schedule(p, n) ==
  /\ p \in Pending /\ n \in ready
  /\ policies[Policy] # Nil /\ ValueOf(n) # Nil
  /\ place' = [place EXCEPT ![p] = n]
  /\ UNCHANGED <<terminating, nodes, ready, policies, pc, passVars, policyVars, astray>>
  /\ Plugin!PlaceGoverned(p, ValueOf(n))

Scheduler == Look \/ \E p \in Pods, n \in Nodes : Schedule(p, n)

SuperNext == Scheduler \/ (Next /\ UNCHANGED surplus)

SuperSpec == SuperInit /\ [][SuperNext]_superVars

FairSuperSpec == SuperSpec /\ Fairness

-------------------------------------------------------------------------------
(* Properties. *)

(* QuotasStayMet: a topology value that has its replicas, those on nodes   *)
(* that are not ready included, still has them after an eviction, unless   *)
(* others have deleted a pod or changed a node since the list: although    *)
(* the scheduler goes on placing pods, under the old names too, and the    *)
(* pod that is evicted is found by its name only.                          *)
QuotasStayMet ==
  [][(\E p \in Pods : EvictPod(p)) /\ astray = {} =>
       \A v \in DOMAIN Quota :
         Plugin!Tally(v) >= Quota[v] => Plugin!Tally(v)' >= Quota[v]]_superVars

(* What neither program does. *)
Foreign == Disturbance /\ ~ Scheduler

Rests == <>[][~ Foreign]_superVars

(* SurplusIsEvicted: once nobody else moves anything, a topology value     *)
(* with more pods than desired does not stay so while another value that   *)
(* has pods is short of them.                                              *)
SurplusIsEvicted ==
  Rests =>
    \A q \in PolicyNames, v \in Values \cup {EmptyValue} :
      CallsForEviction(q, v) ~> ~ CallsForEviction(q, v)

AllReady == ready = {n \in Nodes : nodes[n] # Nil}

(* Settles: once nobody else moves anything and all nodes are ready, the   *)
(* descheduler and the scheduler come to agree: no pod is evicted and      *)
(* placed and evicted for ever, although passes work on old lists, evict   *)
(* by name whatever was placed since, and ignore every result, and         *)
(* although surplus pods are placed in values of the plugin's choice.      *)
Settles ==
  Rests /\ <>[]AllReady => <>[][~ \E p \in Pods : EvictPod(p)]_superVars

===============================================================================
