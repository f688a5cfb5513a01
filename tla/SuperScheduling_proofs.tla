------------------------- MODULE SuperScheduling_proofs ------------------------
(***************************************************************************)
(* Proofs about the two programs together, for any pods, nodes, versions   *)
(* of them and versions of the one policy.  The scheduler only does what   *)
(* the descheduler expects of others anyway, so what is proved of the      *)
(* descheduler holds beside it; and evictions and placements respect the   *)
(* same quotas.                                                            *)
(***************************************************************************)
EXTENDS SuperScheduling, Descheduler_proofs

-------------------------------------------------------------------------------
(* The composition implements Descheduler. *)

(* A placement is a pod that appears; a look changes nothing there. *)
LEMMA SuperStep ==
  ASSUME TypeInv, [SuperNext]_superVars
  PROVE  [Next]_vars
<1>1. CASE Look
  BY <1>1 DEF Look
<1>2. ASSUME NEW p \in Pods, NEW n \in Nodes, Schedule(p, n) PROVE Next
  <2>1. place[p] = Nil /\ nodes[n] # Nil
    BY <1>2 DEF Schedule, Pending, TypeInv, TypeOK
  <2>2. Appear(p, n)
    BY <1>2, <2>1 DEF Schedule, Appear
  <2> QED  BY <2>2 DEF Next, Disturbance
<1>3. CASE UNCHANGED superVars
  BY <1>3 DEF superVars
<1> QED  BY <1>1, <1>2, <1>3 DEF SuperNext, Scheduler

(* The scheduler's steps are steps of the cluster around the descheduler   *)
(* (Schedule against Appear), so every behaviour of the two together is a  *)
(* behaviour of Descheduler.                                               *)
THEOREM SuperImplementsDescheduler == SuperSpec => Spec
<1>1. SuperInit => Init
  BY DEF SuperInit
<1>2. Init => TypeInv
  BY InitTypeInv
<1>3. TypeInv /\ [SuperNext]_superVars => [Next]_vars
  BY SuperStep
<1>4. TypeInv /\ [Next]_vars => TypeInv'
  BY NextTypeInv
<1> QED  BY <1>1, <1>2, <1>3, <1>4, PTL DEF SuperSpec, Spec

-------------------------------------------------------------------------------
(* Quotas. *)

(* The policy and what it says, while there is one. *)
LEMMA ThePolicy ==
  /\ PolicyNames = {Policy}
  /\ TheSpec \in PolicySpecs /\ TheSpec # Nil
  /\ PolicyVersions[Policy] \ {Nil} = {TheSpec}
  /\ TheSpec.topologyKey \in Keys
<1>1. PICK q \in PolicyNames :
        /\ PolicyNames = {q}
        /\ \E spec \in PolicyVersions[q] : PolicyVersions[q] \ {Nil} = {spec}
  BY OnePolicyAssumption
<1>2. Policy = q
  BY <1>1 DEF Policy
<1>3. PICK spec \in PolicyVersions[q] : PolicyVersions[q] \ {Nil} = {spec}
  BY <1>1
<1>4. TheSpec = spec
  BY <1>2, <1>3 DEF TheSpec
<1>5. spec \in PolicySpecs
  BY <1>1, <1>3, VersionAssumption
<1> QED  BY <1>1, <1>2, <1>3, <1>4, <1>5 DEF PolicySpecs

(* A pass works by that policy, and its pairs are of that policy's key. *)
OneSpec ==
  /\ \A q \in PolicyNames : policies[q] \in {Nil, TheSpec}
  /\ \A q \in DOMAIN tsps : tsps[q] = TheSpec
  /\ pc \in {"pairs", "evicting"} =>
       tsp = TheSpec /\ \A pr \in DOMAIN TpPairToMatchNum : pr[1] = TheSpec.topologyKey

(* Every step keeps it so. *)
LEMMA NextOneSpec == TypeInv /\ OneSpec /\ [Next]_vars => OneSpec'
<1> SUFFICES ASSUME TypeInv, OneSpec, [Next]_vars PROVE OneSpec'
  OBVIOUS
<1>1. CASE StartPass
  BY <1>1 DEF StartPass, OneSpec, clusterVars, policyVars
<1>2. ASSUME NEW q \in PolicyNames, ListPods(q) PROVE OneSpec'
  <2>1. /\ \A r \in DOMAIN tsps' : tsps'[r] = TheSpec
        /\ UNCHANGED policies /\ tsps[q] = TheSpec /\ pc = "policies"
    BY <1>2 DEF ListPods, Rest, OneSpec, clusterVars
  <2>2. CASE Skips(tsps[q])
    BY <1>2, <2>1, <2>2 DEF ListPods, OneSpec
  <2>3. CASE ~ Skips(tsps[q])
    <3>1. tsp' = TheSpec /\ TpPairToMatchNum' = CountPods(TheSpec)
      BY <1>2, <2>1, <2>3 DEF ListPods
    <3>2. \A pr \in DOMAIN CountPods(TheSpec) : pr[1] = TheSpec.topologyKey
      BY DEF CountPods, PairSeen, TopologyPair
    <3> QED  BY <2>1, <3>1, <3>2 DEF OneSpec
  <2> QED  BY <2>2, <2>3
<1>3. ASSUME NEW q \in PolicyNames, ListFails(q) PROVE OneSpec'
  BY <1>3 DEF ListFails, Rest, OneSpec, clusterVars, policyVars
<1>4. ASSUME NEW q \in PolicyNames, UpdatePolicy(q) PROVE OneSpec'
  <2>1. \A v \in PolicyVersions[q] : v \in {Nil, TheSpec}
    BY ThePolicy
  <2> QED  BY <1>4, <2>1 DEF UpdatePolicy, OneSpec, passVars, policyVars, TypeInv, TypeOK
<1>5. CASE EndPass \/ Restart
  BY <1>5 DEF EndPass, Restart, NoPass, OneSpec, clusterVars
<1>6. CASE UNCHANGED <<policies, tsps, tsp, TpPairToMatchNum>> /\ (pc' \in {"pairs", "evicting"} => pc \in {"pairs", "evicting"})
  BY <1>6 DEF OneSpec
<1>7. CASE EndPairs
  BY <1>7 DEF EndPairs, OneSpec, clusterVars, passVars
<1> QED
  BY <1>1, <1>2, <1>3, <1>4, <1>5, <1>6, <1>7
  DEF Next, Pass, WorkOnPolicy, Disturbance, vars, clusterVars, passVars, policyVars,
      TooFewNodes, ReadyNodesFails, VisitPair, EvictPod, EvictPodFails, EndPair,
      IndexOutOfRange, Appear, Delete, Vanish, UpdateNode, FlipReady

(* The pods on the nodes of a value, which the scheduler counts. *)
On(v) == {p \in Pods \ terminating : ValueOf(place[p]) = v}

LEMMA TallyIs ==
  ASSUME NEW v
  PROVE  Plugin!Tally(v) = Cardinality(On(v)) /\ Plugin!Tally(v)' = Cardinality(On(v)')
<1>1. \A S : Plugin!Cardinality(S) = Cardinality(S)
  BY DEF Plugin!Cardinality, Cardinality, Plugin!IsFiniteSet, IsFiniteSet
<1>2. {p \in Pods \ terminating : [q \in Pods |-> ValueOf(place[q])][p] = v} = On(v)
  BY DEF On
<1>3. {p \in Pods \ terminating' : [q \in Pods |-> ValueOf(place[q])'][p] = v} = On(v)'
  BY DEF On
<1> QED  BY <1>1, <1>2, <1>3 DEF Plugin!Tally

(* Where the descheduler sees a pod the scheduler counts it, but for nodes *)
(* without a label and labels that are empty.                              *)
LEMMA SitsIsOn ==
  ASSUME NEW p \in Pods, NEW v
  PROVE  /\ SitsIn(p, TheSpec.topologyKey, v) /\ v # EmptyValue => p \in On(v)
         /\ SitsIn(p, TheSpec.topologyKey, v)' /\ v # EmptyValue => p \in On(v)'
         /\ SitsIn(p, TheSpec.topologyKey, v) /\ v = EmptyValue
              => ValueOf(place[p]) \in {Nil, EmptyValue}
BY DEF SitsIn, LabelOf, On, ValueOf

(* An eviction leaves a value that has its replicas enough of them: from   *)
(* the pair that the loop is at it takes no more than the surplus, and the *)
(* pods that it has not handed over yet still sit where it has seen them.  *)
LEMMA EvictionKeepsQuotas ==
  ASSUME EmptyValue \notin Values, TypeInv, StayInv, OneSpec, NoUndershoot',
         NEW p \in Pods, EvictPod(p), astray = {},
         NEW v \in DOMAIN Quota, Plugin!Tally(v) >= Quota[v]
  PROVE  Plugin!Tally(v)' >= Quota[v]
<1> DEFINE key == TheSpec.topologyKey
           counted == TpPairToMatchNum[pair]
           stay == {q \in counted : SitsIn(q, key, v)'}
<1>1. /\ pc = "evicting" /\ pc' = pc /\ tsp' = tsp /\ astray' = {}
      /\ UNCHANGED <<TpPairToMatchNum, place, nodes>> /\ terminating' = terminating \cup {p}
      /\ p \in counted \ visited
      /\ Cardinality(visited) < toDeleteCount
  BY DEF EvictPod, IsNext
<1>2. /\ TypeOK /\ tsp = TheSpec /\ tsp \in PolicySpecs /\ pair[1] = key
      /\ pair \in DOMAIN TpPairToMatchNum /\ visited \subseteq Pods
  BY <1>1 DEF TypeInv, PolicyInv, OneSpec, TypeOK
<1>3. v \in Values /\ Quota[v] \in Int
  BY ThePolicy, CovertPolicyType DEF Quota, PolicySpecs, Entries
<1>4. CASE v = pair[2]
  <2>1. /\ Desired(CovertPolicy(tsp.deployPlacement), pair[2]) = Quota[v]
        /\ Cardinality(counted) \in Nat /\ counted \subseteq Pods
    BY <1>2, <1>4, DiffInt DEF Desired, Quota
  <2>2. Cardinality(visited) \in Nat
    BY <1>2, CountedFinite
  <2>3. Quota[v] < Cardinality(counted)
    BY <1>1, <1>3, <2>1, <2>2 DEF toDeleteCount, Diff
  <2>4. Cardinality(stay) >= Quota[v]
    <3>1. ASSUME NEW pr \in DOMAIN TpPairToMatchNum, pr[1] = key, pr[2] = v
          PROVE  LET all == TpPairToMatchNum[pr]
                     here == {q \in all : SitsIn(q, key, v)'}
                 IN  Cardinality(here) >= (IF Quota[v] < Cardinality(all) THEN Quota[v]
                                           ELSE Cardinality(all))
      <4>1. {q \in TpPairToMatchNum'[pr] : q \in astray' \/ SitsIn(q, pr[1], pr[2])'}
              = {q \in TpPairToMatchNum[pr] : SitsIn(q, key, v)'}
        BY <1>1, <3>1
      <4>2. Desired(CovertPolicy(tsp'.deployPlacement), pr[2]) = Quota[v]
        BY <1>1, <1>2, <3>1 DEF Desired, Quota
      <4> QED  BY <1>1, <4>1, <4>2 DEF NoUndershoot
    <3>2. Cardinality(stay) >= (IF Quota[v] < Cardinality(counted) THEN Quota[v]
                                ELSE Cardinality(counted))
      BY <1>2, <1>4, <3>1
    <3> QED  BY <2>3, <3>2
  <2>5. stay \subseteq On(v)'
    BY <1>3, <1>4, <2>1, SitsIsOn
  <2>6. On(v)' \subseteq Pods
    BY DEF On
  <2>7. IsFiniteSet(On(v)') /\ Cardinality(On(v)') \in Nat /\ Cardinality(stay) \in Nat
        /\ Cardinality(stay) <= Cardinality(On(v)')
    <3> HIDE DEF stay
    <3> QED  BY <2>5, <2>6, CountedFinite, FS_Subset, FS_CardinalityType
  <2> QED  BY <1>3, <2>4, <2>7, TallyIs
<1>5. CASE v # pair[2]
  <2>1. SitsIn(p, key, pair[2])
    <3>1. p \in Stay(pair)
      BY <1>1, <1>2 DEF StayInv
    <3> QED  BY <1>2, <3>1 DEF Stay
  <2>2. p \notin On(v)
    BY <1>3, <1>5, <2>1, SitsIsOn, NilAssumption DEF On
  <2>3. On(v)' = On(v)
    BY <1>1, <2>2 DEF On, ValueOf
  <2> QED  BY <2>3, TallyIs
<1> QED  BY <1>4, <1>5

(* QuotasStayMet, when no label is empty: the descheduler evicts from a    *)
(* value that has its replicas only what it has beyond them, for any pods  *)
(* and nodes, whatever the scheduler places meanwhile under which names,   *)
(* and whatever appears, vanishes, fails or is refused.                    *)
THEOREM SuperSpecQuotasStayMet ==
  ASSUME EmptyValue \notin Values
  PROVE  SuperSpec => QuotasStayMet
<1> DEFINE Inv == TypeInv /\ StayInv /\ OneSpec
           Keeps == (\E p \in Pods : EvictPod(p)) /\ astray = {} =>
                      \A v \in DOMAIN Quota :
                        Plugin!Tally(v) >= Quota[v] => Plugin!Tally(v)' >= Quota[v]
<1>1. Init => Inv
  <2>1. Init => StayInv
    BY DEF Init, StayInv
  <2>2. Init => OneSpec
    BY ThePolicy DEF Init, OneSpec
  <2> QED  BY <2>1, <2>2, InitTypeInv
<1>2. Inv /\ [Next]_vars => Inv'
  BY NextTypeInv, NextStayInv, NextOneSpec
<1>3. Inv /\ NoUndershoot' => Keeps
  BY EvictionKeepsQuotas
<1>4. Spec => [][Keeps]_superVars
  <2> HIDE DEF Inv, Keeps
  <2> QED  BY <1>1, <1>2, <1>3, SpecNoUndershoot, PTL DEF Spec
<1> QED  BY <1>4, SuperImplementsDescheduler, PTL DEF QuotasStayMet
===============================================================================
