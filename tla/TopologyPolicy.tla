---------------------------- MODULE TopologyPolicy ----------------------------
(***************************************************************************)
(* The pure functions that the scheduler plugin and the descheduler apply  *)
(* to a TopologySchedulingPolicy.  Pods, nodes, topology keys and topology *)
(* values are opaque; a Go map is a function whose DOMAIN is the set of    *)
(* keys present.                                                           *)
(*                                                                         *)
(* No operator here is RECURSIVE, so that modules with proofs may use it.  *)
(***************************************************************************)
EXTENDS Integers, FiniteSets

(* The key of TpPairToMatchNum. *)
TopologyPair(key, value) == <<key, value>>

(***************************************************************************)
(* util.CovertPolicy: the list of [name, replicas] entries as a map.  The  *)
(* loop assigns in list order, so the last entry with a name wins.         *)
(***************************************************************************)
IsLastOf(dp, name, i) ==
  dp[i].name = name /\ \A j \in DOMAIN dp : j > i => dp[j].name # name

CovertPolicy(dp) ==
  [name \in {dp[i].name : i \in DOMAIN dp} |->
     dp[CHOOSE i \in DOMAIN dp : IsLastOf(dp, name, i)].replicas]

(* Slip: the surplus opens only when every value has one pod too many. *)
checkPolicyExceeded(topoKey, policy, tpPairToMatchNum) ==
  \A value \in DOMAIN policy :
    LET pair == TopologyPair(topoKey, value) IN
    /\ pair \in DOMAIN tpPairToMatchNum
    /\ tpPairToMatchNum[pair] > policy[value]

(***************************************************************************)
(* Every topology value that the policy names has at least its replicas.   *)
(* A value without a counter has not.                                      *)
(***************************************************************************)
checkPolicyRequirementReached(topoKey, policy, tpPairToMatchNum) ==
  \A value \in DOMAIN policy :
    LET pair == TopologyPair(topoKey, value) IN
    /\ pair \in DOMAIN tpPairToMatchNum
    /\ tpPairToMatchNum[pair] >= policy[value]

(* Slip: a value takes one pod more than its replicas. *)
ReachedWhenExceeded(topoKey, topoValue, policy, tpPairToMatchNum) ==
  topoValue \in DOMAIN policy =>
    LET pair == TopologyPair(topoKey, topoValue) IN
    /\ pair \in DOMAIN tpPairToMatchNum
    /\ tpPairToMatchNum[pair] > policy[topoValue]

(***************************************************************************)
(* One topology value has its replicas.  A value that the policy does not  *)
(* name counts as reached; one without a counter does not.                 *)
(***************************************************************************)
checkTopoValueReached(topoKey, topoValue, policy, tpPairToMatchNum) ==
  topoValue \in DOMAIN policy =>
    LET pair == TopologyPair(topoKey, topoValue) IN
    /\ pair \in DOMAIN tpPairToMatchNum
    /\ tpPairToMatchNum[pair] >= policy[topoValue]

(***************************************************************************)
(* The score of a node in a topology value with count < desired pods.      *)
(* Go computes 1 - count/desired*100 for Balance and count/desired*100 for *)
(* Fill in float64 and converts to int64, which drops the fraction.  The   *)
(* integer forms below give the same result for every count < desired when *)
(* desired < 50, and for desired = 101 (a rounding error of count/desired  *)
(* can move the result by one from desired = 50 on: 29/50*100 gives 57).   *)
(***************************************************************************)
Truncate(a, b) == IF a >= 0 THEN a \div b ELSE -((-a) \div b)

(* Slip: Fill prefers the value with the most room. *)
scoreByRoom(count, desired, strategy) ==
  CASE strategy = "Balance" -> Truncate(desired - 100 * count, desired)
    [] strategy = "Fill"    -> Truncate(100 * (desired - count), desired)
    [] OTHER                -> 0

score(count, desired, strategy) ==
  CASE strategy = "Balance" -> Truncate(desired - 100 * count, desired)
    [] strategy = "Fill"    -> Truncate(100 * count, desired)
    [] OTHER                -> 0

===============================================================================
