---------------------------- MODULE PlacementQuota ----------------------------
(***************************************************************************)
(* What the scheduler plugin promises under one TopologySchedulingPolicy,  *)
(* with no word about snapshots, cycles, caches or counters.               *)
(*                                                                         *)
(* Members are the pods that the policy's selector counts; the governed    *)
(* ones carry its label, so that the plugin decides about them.  A value   *)
(* takes another governed pod only while it is short of its quota.  Once   *)
(* the scheduler has seen every quota met it may place one surplus pod in  *)
(* any value; it has to look again before the next.                        *)
(***************************************************************************)
EXTENDS Integers, FiniteSets

CONSTANTS
  Members,    \* pods that are counted
  Governed,   \* those members whose placement the policy decides
  Topologies, \* topology values
  Quota,      \* value the policy names -> its replicas
  Unplaced    \* no topology value

VARIABLES
  place,      \* where each member is
  leaving,    \* members on their way out, not counted any more
  surplus     \* the scheduler has seen every quota met

quotaVars == <<place, leaving, surplus>>

Tally(v) == Cardinality({p \in Members \ leaving : place[p] = v})

AllMet == \A v \in DOMAIN Quota : Tally(v) >= Quota[v]

Room(v) == v \in DOMAIN Quota /\ Tally(v) < Quota[v]

QuotaInit ==
  /\ place = [p \in Members |-> Unplaced]
  /\ leaving = {}
  /\ surplus = FALSE

-------------------------------------------------------------------------------
(* The scheduler looks at the cluster, or gives the pod up. *)
Look == surplus' = AllMet /\ UNCHANGED <<place, leaving>>
GiveUp == surplus' = FALSE /\ UNCHANGED <<place, leaving>>

PlaceGoverned(p, v) ==
  /\ place[p] = Unplaced
  /\ Room(v) \/ surplus
  /\ place' = [place EXCEPT ![p] = v]
  /\ surplus' = FALSE
  /\ UNCHANGED leaving

(* Another scheduler's rules, or none, decide about the other members. *)
PlaceFree(p, v) ==
  /\ place[p] = Unplaced
  /\ place' = [place EXCEPT ![p] = v]
  /\ surplus' = FALSE
  /\ UNCHANGED leaving

Leave(p) ==
  /\ place[p] # Unplaced
  /\ leaving' = leaving \cup {p}
  /\ UNCHANGED <<place, surplus>>

(* Bindings that fail, pods that are gone. *)
Displace(S) ==
  /\ place' = [p \in Members |-> IF p \in S THEN Unplaced ELSE place[p]]
  /\ leaving' = leaving \ S
  /\ surplus' \in {FALSE, surplus}

QuotaNext ==
  \/ Look
  \/ GiveUp
  \/ \E p \in Governed, v \in Topologies : PlaceGoverned(p, v)
  \/ \E p \in Members \ Governed, v \in Topologies : PlaceFree(p, v)
  \/ \E p \in Members : Leave(p)
  \/ \E S \in SUBSET Members : Displace(S)

QuotaSpec == QuotaInit /\ [][QuotaNext]_quotaVars

===============================================================================
