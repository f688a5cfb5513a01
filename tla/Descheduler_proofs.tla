-------------------------- MODULE Descheduler_proofs ---------------------------
(***************************************************************************)
(* Proofs about Descheduler for any pods, nodes, policies and versions of  *)
(* them, any limit and whichever nodes lose their readiness, and about     *)
(* EvictionOrder for any list.                                             *)
(***************************************************************************)
EXTENDS Descheduler, EvictionOrder, TopologyPolicy_proofs

(* Between policies nothing is left of the last one; while one is worked   *)
(* on, its pairs hold different pods and no more of the pair that the loop *)
(* is at have been handed to EvictPod than are to be.                      *)
PolicyInv ==
  /\ pc \in {"waiting", "policies", "stopped"} =>
       /\ tsp = Nil /\ listed = <<>> /\ TpPairToMatchNum = <<>>
       /\ todoPairs = {} /\ pair = Nil /\ visited = {}
  /\ pc \in {"pairs", "evicting", "panicked"} => tsp \in PolicySpecs
  /\ pc = "pairs" => pair = Nil /\ visited = {}
  /\ pc \in {"evicting", "panicked"} =>
       /\ pair \in DOMAIN TpPairToMatchNum \ todoPairs
       /\ visited \subseteq TpPairToMatchNum[pair]
       /\ Cardinality(visited) <= toDeleteCount
  /\ \A p, q \in DOMAIN TpPairToMatchNum :
       p # q => TpPairToMatchNum[p] \cap TpPairToMatchNum[q] = {}

TypeInv == TypeOK /\ PolicyInv

-------------------------------------------------------------------------------
(* What the counters are. *)

(* A topology value that the policy does not name has no replicas. *)
LEMMA DesiredInt ==
  ASSUME NEW spec \in PolicySpecs, NEW v
  PROVE  Desired(CovertPolicy(spec.deployPlacement), v) \in Int
  BY CovertPolicyType DEF PolicySpecs, Entries, Desired

(* Only finitely many pods are counted in a pair. *)
LEMMA CountedFinite ==
  ASSUME NEW S, S \subseteq Pods
  PROVE  IsFiniteSet(S) /\ Cardinality(S) \in Nat
  BY FiniteAssumption, FS_Subset, FS_CardinalityType

(* diff is an integer. *)
LEMMA DiffInt ==
  ASSUME TypeOK, tsp \in PolicySpecs, NEW pr \in DOMAIN TpPairToMatchNum
  PROVE  /\ Diff(CovertPolicy(tsp.deployPlacement), TpPairToMatchNum, pr) \in Int
         /\ Desired(CovertPolicy(tsp.deployPlacement), pr[2]) \in Int
         /\ Cardinality(TpPairToMatchNum[pr]) \in Nat
         /\ IsFiniteSet(TpPairToMatchNum[pr])
         /\ TpPairToMatchNum[pr] \subseteq Pods
<1>1. TpPairToMatchNum[pr] \subseteq Pods
  BY DEF TypeOK
<1> QED  BY <1>1, DesiredInt, CountedFinite DEF Diff

(* The pods that are counted are on nodes of the pass, whose labels give   *)
(* the pair; the pairs that are counted have pods.                         *)
LEMMA CountPodsType ==
  ASSUME TypeOK, NEW spec \in PolicySpecs
  PROVE  /\ Countable(spec) \subseteq Pods
         /\ \A p \in Countable(spec) : place[p] \in DOMAIN nodeMap /\ p \notin terminating
         /\ DOMAIN CountPods(spec) \subseteq Pairs
         /\ \A pr \in DOMAIN CountPods(spec) :
              /\ CountPods(spec)[pr] # {}
              /\ CountPods(spec)[pr] = {p \in Countable(spec) : PairSeen(spec, p) = pr}
         /\ \A p, q \in DOMAIN CountPods(spec) :
              p # q => CountPods(spec)[p] \cap CountPods(spec)[q] = {}
<1>1. spec.labelSelector \subseteq Pods /\ spec.topologyKey \in Keys
  BY DEF PolicySpecs
<1>2. \A p \in Countable(spec) :
        p \in Pods /\ place[p] \in DOMAIN nodeMap /\ p \notin terminating
  BY <1>1 DEF Countable
<1>3. ASSUME NEW p \in Countable(spec) PROVE PairSeen(spec, p) \in Pairs
  <2>1. nodeMap[place[p]] \in Labels
    BY <1>2 DEF TypeOK
  <2>2. LabelOf(nodeMap[place[p]], spec.topologyKey) \in Values \cup {EmptyValue}
    BY <1>1, <2>1 DEF LabelOf, Labels
  <2> QED  BY <1>1, <2>2 DEF PairSeen, TopologyPair, Pairs
<1> QED  BY <1>2, <1>3 DEF CountPods

-------------------------------------------------------------------------------
(* The process starts well typed. *)
LEMMA InitTypeInv == Init => TypeInv
<1> SUFFICES ASSUME Init PROVE TypeInv
  OBVIOUS
<1> USE NilAssumption, VersionAssumption
<1>1. nodes \in [Nodes -> Labels \cup {Nil}]
  BY DEF Init
<1>2. policies \in [PolicyNames -> PolicySpecs \cup {Nil}]
  BY DEF Init
<1> QED  BY <1>1, <1>2 DEF Init, TypeInv, TypeOK, PolicyInv, Steps

(* Steps of others leave what the pass works on alone. *)
LEMMA OthersType ==
  ASSUME TypeInv, UNCHANGED <<pc, passVars, policyVars>>,
         place' \in [Pods -> Nodes \cup {Nil}],
         terminating' \subseteq {p \in Pods : place'[p] # Nil},
         nodes' \in [Nodes -> Labels \cup {Nil}],
         ready' \subseteq {n \in Nodes : nodes'[n] # Nil},
         policies' \in [PolicyNames -> PolicySpecs \cup {Nil}],
         astray' \subseteq Pods
  PROVE  TypeInv'
<1>1. TypeOK'
  BY DEF TypeInv, TypeOK, passVars, policyVars
<1>2. toDeleteCount' = toDeleteCount
  BY DEF toDeleteCount, Diff, policyVars
<1>3. PolicyInv'
  BY <1>2 DEF TypeInv, PolicyInv, policyVars
<1> QED  BY <1>1, <1>3 DEF TypeInv

(* All steps keep types and the policies in hand: one case per action. *)
LEMMA NextTypeInv == TypeInv /\ [Next]_vars => TypeInv'
<1> SUFFICES ASSUME TypeInv, [Next]_vars PROVE TypeInv'
  OBVIOUS
<1> USE NilAssumption
<1>a. TypeOK /\ PolicyInv
  BY DEF TypeInv
<1>1. CASE StartPass
  BY <1>1, <1>a DEF StartPass, TypeInv, TypeOK, PolicyInv, Steps, clusterVars, policyVars
<1>2. CASE TooFewNodes \/ ReadyNodesFails
  BY <1>2, <1>a DEF TooFewNodes, ReadyNodesFails, TypeInv, TypeOK, PolicyInv, Steps,
     clusterVars, passVars, policyVars
<1>3. CASE EndPass
  BY <1>3, <1>a DEF EndPass, NoPass, TypeInv, TypeOK, PolicyInv, Steps, clusterVars,
     policyVars
<1>4. ASSUME NEW q \in PolicyNames, ListPods(q) PROVE TypeInv'
  <2> DEFINE spec == tsps[q]
  <2>1. spec \in PolicySpecs /\ pc = "policies"
    BY <1>4, <1>a DEF ListPods, TypeOK
  <2>2. /\ DOMAIN tsps' \subseteq PolicyNames
        /\ \A r \in DOMAIN tsps' : tsps'[r] \in PolicySpecs
    BY <1>4, <1>a DEF ListPods, Rest, TypeOK
  <2>3. CASE Skips(spec)
    BY <1>4, <1>a, <2>2, <2>3 DEF ListPods, TypeInv, TypeOK, PolicyInv, Steps, clusterVars,
       policyVars
  <2>4. CASE ~ Skips(spec)
    <3>1. /\ pc' = "pairs" /\ tsp' = spec
          /\ listed' = [p \in Countable(spec) |-> place[p]]
          /\ TpPairToMatchNum' = CountPods(spec)
          /\ todoPairs' = DOMAIN CountPods(spec)
          /\ astray' \subseteq Pods
          /\ pair' = Nil /\ visited' = {}
      BY <1>4, <1>a, <2>1, <2>4, CountPodsType DEF ListPods, PolicyInv
    <3>2. UNCHANGED <<clusterVars, nodeMap, nodepodCount>>
      BY <1>4 DEF ListPods
    <3> HIDE DEF spec
    <3>3. TypeOK'
      BY <1>a, <2>1, <2>2, <3>1, <3>2, CountPodsType DEF TypeOK, Steps, clusterVars
    <3>4. PolicyInv'
      BY <1>a, <2>1, <3>1, CountPodsType DEF PolicyInv
    <3> QED  BY <3>3, <3>4 DEF TypeInv
  <2> QED  BY <2>3, <2>4
<1>5. ASSUME NEW q \in PolicyNames, ListFails(q) PROVE TypeInv'
  <2>1. /\ DOMAIN tsps' \subseteq PolicyNames
        /\ \A r \in DOMAIN tsps' : tsps'[r] \in PolicySpecs
    BY <1>5, <1>a DEF ListFails, Rest, TypeOK
  <2> QED  BY <1>5, <1>a, <2>1 DEF ListFails, TypeInv, TypeOK, PolicyInv, clusterVars,
              policyVars
<1>6. ASSUME NEW pr \in todoPairs, VisitPair(pr) PROVE TypeInv'
  <2> DEFINE diff == Diff(CovertPolicy(tsp.deployPlacement), TpPairToMatchNum, pr)
  <2>1. /\ UNCHANGED <<clusterVars, passVars, tsp, listed, TpPairToMatchNum, visited, astray>>
        /\ pc = "pairs" /\ todoPairs' = todoPairs \ {pr}
        /\ diff >= 0 => UNCHANGED <<pc, pair>>
        /\ ~ diff >= 0 => pc' = "evicting" /\ pair' = pr
    BY <1>6 DEF VisitPair
  <2>2. pr \in DOMAIN TpPairToMatchNum /\ tsp \in PolicySpecs /\ visited = {} /\ pair = Nil
    BY <1>a, <2>1 DEF TypeOK, PolicyInv
  <2>3. diff \in Int
    BY <1>a, <2>2, DiffInt
  <2>4. TypeOK'
    BY <1>a, <2>1, <2>2 DEF TypeOK, Steps, clusterVars, passVars
  <2>5. CASE diff >= 0
    BY <1>a, <2>1, <2>4, <2>5 DEF TypeInv, PolicyInv
  <2>6. CASE ~ diff >= 0
    <3>1. toDeleteCount' = - diff
      BY <2>1, <2>6 DEF toDeleteCount, Diff
    <3>2. Cardinality(visited') = 0
      BY <2>1, <2>2, FS_EmptySet
    <3>3. Cardinality(visited') <= toDeleteCount'
      BY <2>3, <2>6, <3>1, <3>2
    <3> QED  BY <1>a, <2>1, <2>2, <2>4, <2>6, <3>3 DEF TypeInv, PolicyInv
  <2> QED  BY <2>5, <2>6
<1>7. ASSUME NEW p \in Pods, EvictPod(p) \/ EvictPodFails(p) PROVE TypeInv'
  <2>1. /\ IsNext(p) /\ visited' = visited \cup {p}
        /\ UNCHANGED <<place, nodes, ready, policies, pc, nodeMap, tsps, tsp, listed,
                       TpPairToMatchNum, todoPairs, pair, astray>>
    BY <1>7 DEF EvictPod, EvictPodFails, clusterVars, passVars
  <2>2. /\ pc = "evicting" /\ tsp \in PolicySpecs /\ pair \in DOMAIN TpPairToMatchNum
        /\ visited \subseteq TpPairToMatchNum[pair] /\ p \in TpPairToMatchNum[pair]
        /\ visited \subseteq Pods
        /\ Cardinality(visited) < toDeleteCount /\ p \notin visited
    BY <1>a, <2>1 DEF IsNext, PolicyInv, TypeOK
  <2>3. Cardinality(visited') = Cardinality(visited) + 1 /\ Cardinality(visited) \in Nat
    BY <1>a, <2>1, <2>2, CountedFinite, FS_AddElement
  <2>4. toDeleteCount' = toDeleteCount /\ toDeleteCount \in Int
    BY <1>a, <2>1, <2>2, DiffInt DEF toDeleteCount, Diff
  <2>5. PolicyInv'
    BY <1>a, <2>1, <2>2, <2>3, <2>4 DEF PolicyInv
  <2>6. listed[p] \in DOMAIN nodeMap /\ listed[p] \in Nodes
    BY <1>a, <2>2 DEF TypeOK
  <2>7. /\ terminating' \subseteq {r \in Pods : place'[r] # Nil}
        /\ nodepodCount' \in [Nodes -> Nat]
    BY <1>7, <1>a, <2>6 DEF EvictPod, EvictPodFails, TypeOK, clusterVars, passVars
  <2>8. TypeOK'
    BY <1>a, <2>1, <2>7 DEF TypeOK
  <2> QED  BY <2>5, <2>8 DEF TypeInv
<1>8. CASE EndPair
  BY <1>8, <1>a DEF EndPair, TypeInv, TypeOK, PolicyInv, Steps, clusterVars, passVars
<1>9. CASE EndPairs
  BY <1>9, <1>a DEF EndPairs, NoPolicy, TypeInv, TypeOK, PolicyInv, Steps, clusterVars, passVars
<1>10. CASE IndexOutOfRange
  <2>1. toDeleteCount' = toDeleteCount
    BY <1>10 DEF IndexOutOfRange, toDeleteCount, Diff, policyVars
  <2> QED  BY <1>10, <1>a, <2>1 DEF IndexOutOfRange, TypeInv, TypeOK, PolicyInv, Steps,
              clusterVars, passVars, policyVars
<1>11. CASE Restart
  BY <1>11, <1>a DEF Restart, NoPass, NoPolicy, TypeInv, TypeOK, PolicyInv, Steps, clusterVars
<1>12. ASSUME NEW p \in Pods, NEW n \in Nodes, Appear(p, n) PROVE TypeInv'
  BY <1>12, <1>a, OthersType DEF Appear, TypeOK
<1>13. ASSUME NEW p \in Pods, Delete(p) PROVE TypeInv'
  BY <1>13, <1>a, OthersType DEF Delete, Stray, TypeOK
<1>14. ASSUME NEW p \in Pods, Vanish(p) PROVE TypeInv'
  BY <1>14, <1>a, OthersType DEF Vanish, TypeOK
<1>15. ASSUME NEW n \in Nodes, UpdateNode(n) PROVE TypeInv'
  BY <1>15, <1>a, OthersType, VersionAssumption DEF UpdateNode, Stray, TypeOK
<1>16. ASSUME NEW n \in Nodes, FlipReady(n) PROVE TypeInv'
  BY <1>16, <1>a, OthersType DEF FlipReady, TypeOK
<1>17. ASSUME NEW q \in PolicyNames, UpdatePolicy(q) PROVE TypeInv'
  BY <1>17, <1>a, OthersType, VersionAssumption DEF UpdatePolicy, TypeOK
<1>18. CASE UNCHANGED vars
  BY <1>18, <1>a, OthersType DEF vars, clusterVars, TypeOK
<1> QED
  BY <1>1, <1>2, <1>3, <1>4, <1>5, <1>6, <1>7, <1>8, <1>9, <1>10, <1>11, <1>12, <1>13,
     <1>14, <1>15, <1>16, <1>17, <1>18 DEF Next, Pass, WorkOnPolicy, Disturbance

(* TypeOK holds in every reachable state (the variables of the loop, the   *)
(* strategy and the cluster keep their types).                             *)
THEOREM SpecTypeOK == Spec => []TypeOK
<1>1. Spec => []TypeInv
  BY InitTypeInv, NextTypeInv, PTL DEF Spec
<1>2. TypeInv => TypeOK
  BY DEF TypeInv
<1> QED  BY <1>1, <1>2, PTL

-------------------------------------------------------------------------------
(* The loop's index. *)

(* More are to be deleted than were counted only where fewer than none are *)
(* desired.                                                                *)
PanicInv ==
  pc = "panicked" => Desired(CovertPolicy(tsp.deployPlacement), pair[2]) < 0

(* All steps keep it: only a desired count below zero makes the number to  *)
(* evict exceed the list that it is counted from.                          *)
LEMMA NextPanicInv == TypeInv /\ PanicInv /\ [Next]_vars => PanicInv'
<1> SUFFICES ASSUME TypeInv, PanicInv, [Next]_vars, pc' = "panicked"
             PROVE  Desired(CovertPolicy(tsp'.deployPlacement), pair'[2]) < 0
  BY DEF PanicInv
<1>1. CASE IndexOutOfRange
  <2> DEFINE desired == Desired(CovertPolicy(tsp.deployPlacement), pair[2])
             counted == TpPairToMatchNum[pair]
  <2>1. /\ pc = "evicting" /\ counted \subseteq visited
        /\ Cardinality(visited) < toDeleteCount
        /\ tsp' = tsp /\ pair' = pair
    BY <1>1 DEF IndexOutOfRange, policyVars
  <2>2. /\ tsp \in PolicySpecs /\ pair \in DOMAIN TpPairToMatchNum
        /\ visited \subseteq counted /\ TypeOK
    BY <2>1 DEF TypeInv, PolicyInv
  <2>3. visited = counted
    BY <2>1, <2>2
  <2>4. /\ Cardinality(counted) \in Nat /\ desired \in Int
        /\ toDeleteCount = Cardinality(counted) - desired
    BY <2>2, DiffInt DEF toDeleteCount, Diff
  <2> HIDE DEF desired, counted
  <2>5. desired < 0
    BY <2>1, <2>3, <2>4
  <2> QED  BY <2>1, <2>5 DEF desired
<1>2. CASE ~ IndexOutOfRange
  <2>1. pc = "panicked" /\ tsp' = tsp /\ pair' = pair
    BY <1>2 DEF Next, Pass, WorkOnPolicy, Disturbance, StartPass, TooFewNodes, ReadyNodesFails,
       EndPass, ListPods, ListFails, VisitPair, EvictPod, EvictPodFails, IsNext, EndPair, EndPairs,
       Restart, Appear, Delete, Vanish, UpdateNode, FlipReady, UpdatePolicy, vars, policyVars
  <2> QED  BY <2>1 DEF PanicInv
<1> QED  BY <1>1, <1>2

(* PanicsOnNegativeOnly holds in every reachable state (the eviction loop  *)
(* indexes past the pods it counted only where a policy names the value    *)
(* with negative replicas, whatever was evicted or failed before).         *)
THEOREM SpecPanicsOnNegativeOnly == Spec => []PanicsOnNegativeOnly
<1>1. Init => PanicInv
  BY DEF Init, PanicInv
<1>2. Spec => []TypeInv
  BY InitTypeInv, NextTypeInv, PTL DEF Spec
<1>3. PanicInv => PanicsOnNegativeOnly
  BY DEF PanicInv, PanicsOnNegativeOnly
<1> QED  BY <1>1, <1>2, <1>3, NextPanicInv, PTL DEF Spec

-------------------------------------------------------------------------------
(* What stays. *)

Stay(pr) == {p \in TpPairToMatchNum[pr] : p \in astray \/ SitsIn(p, pr[1], pr[2])}

(* As many of a pair's pods as the policy desires, or as were counted. *)
Enough(pr, S) ==
  LET desired == Desired(CovertPolicy(tsp.deployPlacement), pr[2])
      counted == TpPairToMatchNum[pr]
  IN  Cardinality(S) >= (IF desired < Cardinality(counted) THEN desired
                         ELSE Cardinality(counted))

(* All pods stay in the pairs that the loop has not come to, all but the   *)
(* visited ones in the one it is at, and enough in the ones it has left.   *)
StayInv ==
  pc \in {"pairs", "evicting"} =>
    \A pr \in DOMAIN TpPairToMatchNum :
      /\ pr \in todoPairs => TpPairToMatchNum[pr] \subseteq Stay(pr)
      /\ pc = "evicting" /\ pr = pair => TpPairToMatchNum[pr] \ visited \subseteq Stay(pr)
      /\ pr \notin todoPairs /\ ~ (pc = "evicting" /\ pr = pair) => Enough(pr, Stay(pr))

(* More pods are enough as well. *)
LEMMA EnoughMonotonic ==
  ASSUME TypeOK, tsp \in PolicySpecs, NEW pr \in DOMAIN TpPairToMatchNum,
         NEW S, NEW T, S \subseteq T, T \subseteq TpPairToMatchNum[pr], Enough(pr, S)
  PROVE  Enough(pr, T)
<1>1. /\ IsFiniteSet(TpPairToMatchNum[pr]) /\ Cardinality(TpPairToMatchNum[pr]) \in Nat
      /\ Desired(CovertPolicy(tsp.deployPlacement), pr[2]) \in Int
  BY DiffInt
<1>2. IsFiniteSet(T) /\ Cardinality(T) \in Nat
  BY <1>1, FS_Subset, FS_CardinalityType
<1>3. Cardinality(S) <= Cardinality(T) /\ Cardinality(S) \in Nat
  BY <1>2, FS_Subset, FS_CardinalityType
<1> QED  BY <1>1, <1>2, <1>3 DEF Enough

(* All the pods that were counted are enough. *)
LEMMA AllIsEnough ==
  ASSUME TypeOK, tsp \in PolicySpecs, NEW pr \in DOMAIN TpPairToMatchNum
  PROVE  Enough(pr, TpPairToMatchNum[pr])
  BY DiffInt DEF Enough

(* The loop visits no more of a pair than its surplus. *)
LEMMA VisitedLeaveEnough ==
  ASSUME TypeInv, pc = "evicting"
  PROVE  Enough(pair, TpPairToMatchNum[pair] \ visited)
<1> DEFINE desired == Desired(CovertPolicy(tsp.deployPlacement), pair[2])
           counted == TpPairToMatchNum[pair]
<1>1. /\ tsp \in PolicySpecs /\ pair \in DOMAIN TpPairToMatchNum /\ TypeOK
      /\ visited \subseteq counted /\ Cardinality(visited) <= toDeleteCount
  BY DEF TypeInv, PolicyInv
<1>2. /\ IsFiniteSet(counted) /\ Cardinality(counted) \in Nat /\ desired \in Int
      /\ toDeleteCount = Cardinality(counted) - desired
  BY <1>1, DiffInt DEF toDeleteCount, Diff
<1>3. Cardinality(counted \ visited) = Cardinality(counted) - Cardinality(visited)
  <2>1. counted \cap visited = visited
    BY <1>1
  <2> QED  BY <1>2, <2>1, FS_Difference
<1>4. Cardinality(visited) \in Nat
  BY <1>1, <1>2, FS_Subset, FS_CardinalityType
<1> HIDE DEF desired, counted
<1>5. Cardinality(counted \ visited) >= desired
  BY <1>1, <1>2, <1>3, <1>4
<1> QED  BY <1>2, <1>3, <1>4, <1>5 DEF Enough, desired, counted

(* A step that leaves the work as it is and takes no counted pod away, or  *)
(* only one that is visited, keeps what stays.                             *)
LEMMA StayKept ==
  ASSUME TypeInv, StayInv,
         pc' = pc, UNCHANGED <<tsp, TpPairToMatchNum, todoPairs, pair>>,
         visited \subseteq visited',
         pc \in {"pairs", "evicting"} =>
           \A pr \in DOMAIN TpPairToMatchNum : \A p \in Stay(pr) :
             p \in Stay(pr)' \/ (pc = "evicting" /\ pr = pair /\ p \in visited')
  PROVE  StayInv'
<1> SUFFICES ASSUME pc \in {"pairs", "evicting"}, NEW pr \in DOMAIN TpPairToMatchNum
             PROVE  /\ pr \in todoPairs => TpPairToMatchNum[pr] \subseteq Stay(pr)'
                    /\ pc = "evicting" /\ pr = pair =>
                         TpPairToMatchNum[pr] \ visited' \subseteq Stay(pr)'
                    /\ pr \notin todoPairs /\ ~ (pc = "evicting" /\ pr = pair) =>
                         Enough(pr, Stay(pr)')
  BY DEF StayInv, Enough
<1>1. /\ TypeOK /\ tsp \in PolicySpecs
      /\ pc = "evicting" => pair \notin todoPairs
  BY DEF TypeInv, PolicyInv
<1>2. /\ pr \in todoPairs => TpPairToMatchNum[pr] \subseteq Stay(pr)
      /\ pc = "evicting" /\ pr = pair => TpPairToMatchNum[pr] \ visited \subseteq Stay(pr)
      /\ pr \notin todoPairs /\ ~ (pc = "evicting" /\ pr = pair) => Enough(pr, Stay(pr))
  BY DEF StayInv
<1>3. ~ (pc = "evicting" /\ pr = pair) => Stay(pr) \subseteq Stay(pr)'
  OBVIOUS
<1>4. pc = "evicting" /\ pr = pair =>
        TpPairToMatchNum[pr] \ visited' \subseteq Stay(pr)'
  BY <1>2
<1>5. Stay(pr)' \subseteq TpPairToMatchNum[pr]
  BY DEF Stay
<1>6. pr \notin todoPairs /\ ~ (pc = "evicting" /\ pr = pair) => Enough(pr, Stay(pr)')
  <2> SUFFICES ASSUME pr \notin todoPairs, ~ (pc = "evicting" /\ pr = pair)
               PROVE  Enough(pr, Stay(pr)')
    OBVIOUS
  <2>1. Enough(pr, Stay(pr)) /\ Stay(pr) \subseteq Stay(pr)'
    BY <1>2, <1>3
  <2> QED  BY <1>1, <1>5, <2>1, EnoughMonotonic
<1>7. pr \in todoPairs => TpPairToMatchNum[pr] \subseteq Stay(pr)'
  BY <1>1, <1>2, <1>3
<1> QED  BY <1>4, <1>6, <1>7

(* Steps of others: a pod that stops sitting where the pass sees it goes   *)
(* astray.                                                                 *)
LEMMA OthersStay ==
  ASSUME TypeInv, StayInv, UNCHANGED <<pc, passVars, policyVars>>,
         pc \in {"pairs", "evicting"} => astray \subseteq astray',
         pc \in {"pairs", "evicting"} =>
           \A p \in Pods, k \in Keys, v \in Values \cup {EmptyValue} :
             SitsIn(p, k, v) => SitsIn(p, k, v)' \/ p \in astray'
  PROVE  StayInv'
<1>1. TypeOK
  BY DEF TypeInv
<1>2. ASSUME pc \in {"pairs", "evicting"}, NEW pr \in DOMAIN TpPairToMatchNum,
             NEW p \in Stay(pr)
      PROVE  p \in Stay(pr)'
  <2>1. p \in Pods /\ pr[1] \in Keys /\ pr[2] \in Values \cup {EmptyValue}
    BY <1>1, <1>2 DEF TypeOK, Pairs, Stay
  <2>2. TpPairToMatchNum' = TpPairToMatchNum
    BY DEF policyVars
  <2> QED  BY <1>2, <2>1, <2>2 DEF Stay
<1> QED  BY <1>2, StayKept DEF policyVars

(* All steps keep it: an eviction moves one pod from those that are still  *)
(* to visit, and the loop ends when as many are left as desired.           *)
LEMMA NextStayInv == TypeInv /\ StayInv /\ [Next]_vars => StayInv'
<1> SUFFICES ASSUME TypeInv, StayInv, [Next]_vars PROVE StayInv'
  OBVIOUS
<1>a. TypeOK /\ PolicyInv
  BY DEF TypeInv
<1>1. CASE StartPass \/ TooFewNodes \/ ReadyNodesFails \/ EndPass
  BY <1>1 DEF StartPass, TooFewNodes, ReadyNodesFails, EndPass, StayInv
<1>2. ASSUME NEW q \in PolicyNames, ListFails(q) PROVE StayInv'
  BY <1>2 DEF ListFails, StayInv
<1>3. ASSUME NEW q \in PolicyNames, ListPods(q) PROVE StayInv'
  <2> DEFINE spec == tsps[q]
  <2>1. spec \in PolicySpecs /\ pc = "policies"
    BY <1>3, <1>a DEF ListPods, TypeOK
  <2>2. CASE Skips(spec)
    BY <1>3, <2>1, <2>2 DEF ListPods, StayInv
  <2>3. CASE ~ Skips(spec)
    <3>1. /\ pc' = "pairs" /\ tsp' = spec
          /\ TpPairToMatchNum' = CountPods(spec)
          /\ todoPairs' = DOMAIN CountPods(spec)
          /\ astray' = {p \in Countable(spec) \ terminating :
                          ~ SitsIn(p, spec.topologyKey, PairSeen(spec, p)[2])}
          /\ UNCHANGED clusterVars
      BY <1>3, <2>3 DEF ListPods
    <3>2. ASSUME NEW pr \in DOMAIN CountPods(spec), NEW p \in CountPods(spec)[pr]
          PROVE  p \in Stay(pr)'
      <4>1. p \in Countable(spec) /\ p \notin terminating /\ PairSeen(spec, p) = pr
        BY <1>a, <2>1, CountPodsType
      <4>2. pr[1] = spec.topologyKey
        BY <4>1 DEF PairSeen, TopologyPair
      <4>3. SitsIn(p, pr[1], pr[2])' <=> SitsIn(p, pr[1], pr[2])
        BY <3>1 DEF SitsIn, clusterVars
      <4> HIDE DEF spec
      <4> QED  BY <3>1, <4>1, <4>2, <4>3 DEF Stay
    <3> HIDE DEF spec
    <3> QED  BY <3>1, <3>2 DEF StayInv
  <2> QED  BY <2>2, <2>3
<1>4. ASSUME NEW pr \in todoPairs, VisitPair(pr) PROVE StayInv'
  <2> DEFINE diff == Diff(CovertPolicy(tsp.deployPlacement), TpPairToMatchNum, pr)
  <2>1. /\ UNCHANGED <<clusterVars, passVars, tsp, listed, TpPairToMatchNum, visited, astray>>
        /\ pc = "pairs" /\ todoPairs' = todoPairs \ {pr}
        /\ \/ UNCHANGED <<pc, pair>>
           \/ pc' = "evicting" /\ pair' = pr
    BY <1>4 DEF VisitPair
  <2>2. tsp \in PolicySpecs /\ pr \in DOMAIN TpPairToMatchNum /\ visited = {}
    BY <1>a, <2>1 DEF TypeOK, PolicyInv
  <2>3. \A p \in DOMAIN TpPairToMatchNum : Stay(p)' = Stay(p) /\ (Enough(p, Stay(p))' <=> Enough(p, Stay(p)))
    BY <2>1 DEF Stay, SitsIn, Enough, clusterVars
  <2>4. Stay(pr) = TpPairToMatchNum[pr]
    BY <2>1, <2>2 DEF StayInv, Stay
  <2>5. Enough(pr, Stay(pr))
    BY <1>a, <2>2, <2>4, AllIsEnough
  <2>6. \A p \in DOMAIN TpPairToMatchNum :
          /\ p \in todoPairs => TpPairToMatchNum[p] \subseteq Stay(p)
          /\ p \notin todoPairs => Enough(p, Stay(p))
    BY <2>1 DEF StayInv
  <2>7. CASE UNCHANGED <<pc, pair>>
    BY <2>1, <2>2, <2>3, <2>5, <2>6, <2>7 DEF StayInv
  <2>8. CASE pc' = "evicting" /\ pair' = pr
    BY <2>1, <2>2, <2>3, <2>4, <2>6, <2>8 DEF StayInv
  <2> QED  BY <2>1, <2>7, <2>8
<1>5. ASSUME NEW q \in Pods, EvictPod(q) \/ EvictPodFails(q) PROVE StayInv'
  <2>1. /\ IsNext(q) /\ visited' = visited \cup {q}
        /\ UNCHANGED <<place, nodes, pc, tsp, TpPairToMatchNum, todoPairs, pair, astray>>
        /\ terminating' \in {terminating, terminating \cup {q}}
    BY <1>5 DEF EvictPod, EvictPodFails, clusterVars
  <2>2. /\ pc = "evicting" /\ q \in TpPairToMatchNum[pair]
        /\ pair \in DOMAIN TpPairToMatchNum
    BY <1>a, <2>1 DEF IsNext, PolicyInv
  <2>3. ASSUME NEW pr \in DOMAIN TpPairToMatchNum, NEW p \in Stay(pr)
        PROVE  p \in Stay(pr)' \/ (pr = pair /\ p \in visited')
    <3>1. CASE p = q
      <4>1. p \in TpPairToMatchNum[pr]
        BY <2>3 DEF Stay
      <4>2. pr = pair
        BY <1>a, <2>2, <3>1, <4>1 DEF PolicyInv
      <4> QED  BY <2>1, <3>1, <4>2
    <3>2. CASE p # q
      BY <2>1, <2>3, <3>2 DEF Stay, SitsIn
    <3> QED  BY <3>1, <3>2
  <2> QED  BY <2>1, <2>2, <2>3, StayKept
<1>6. CASE EndPair
  <2>1. /\ pc = "evicting" /\ pc' = "pairs"
        /\ UNCHANGED <<clusterVars, passVars, tsp, listed, TpPairToMatchNum, todoPairs, astray>>
    BY <1>6 DEF EndPair
  <2>2. /\ tsp \in PolicySpecs /\ pair \in DOMAIN TpPairToMatchNum /\ pair \notin todoPairs
    BY <1>a, <2>1 DEF PolicyInv
  <2>3. \A p \in DOMAIN TpPairToMatchNum : Stay(p)' = Stay(p) /\ (Enough(p, Stay(p))' <=> Enough(p, Stay(p)))
    BY <2>1 DEF Stay, SitsIn, Enough, clusterVars
  <2>4. Enough(pair, Stay(pair))
    <3>1. TpPairToMatchNum[pair] \ visited \subseteq Stay(pair)
      BY <2>1, <2>2 DEF StayInv
    <3>2. Stay(pair) \subseteq TpPairToMatchNum[pair]
      BY DEF Stay
    <3> QED  BY <1>a, <2>1, <2>2, <3>1, <3>2, VisitedLeaveEnough, EnoughMonotonic
  <2> QED  BY <2>1, <2>2, <2>3, <2>4 DEF StayInv
<1>7. CASE EndPairs \/ IndexOutOfRange \/ Restart
  BY <1>7 DEF EndPairs, IndexOutOfRange, Restart, StayInv
<1>8. ASSUME NEW p \in Pods, NEW n \in Nodes, Appear(p, n) PROVE StayInv'
  BY <1>8, <1>a, OthersStay DEF Appear, SitsIn
<1>9. ASSUME NEW p \in Pods, Delete(p) PROVE StayInv'
  BY <1>9, <1>a, OthersStay DEF Delete, Stray, SitsIn
<1>10. ASSUME NEW p \in Pods, Vanish(p) PROVE StayInv'
  BY <1>10, <1>a, OthersStay DEF Vanish, SitsIn, TypeOK
<1>11. ASSUME NEW n \in Nodes, UpdateNode(n) PROVE StayInv'
  BY <1>11, <1>a, OthersStay DEF UpdateNode, Stray, SitsIn, TypeOK
<1>12. ASSUME NEW n \in Nodes, FlipReady(n) PROVE StayInv'
  BY <1>12, OthersStay DEF FlipReady, SitsIn
<1>13. ASSUME NEW q \in PolicyNames, UpdatePolicy(q) PROVE StayInv'
  BY <1>13, OthersStay DEF UpdatePolicy, SitsIn
<1>14. CASE UNCHANGED vars
  BY <1>14, OthersStay DEF vars, clusterVars, SitsIn
<1> QED
  BY <1>1, <1>2, <1>3, <1>4, <1>5, <1>6, <1>7, <1>8, <1>9, <1>10, <1>11, <1>12, <1>13, <1>14
     DEF Next, Pass, WorkOnPolicy, Disturbance

(* With StayInv enough pods stay in every pair. *)
LEMMA StayInvImpliesNoUndershoot == TypeInv /\ StayInv => NoUndershoot
<1> SUFFICES ASSUME TypeInv, StayInv, pc \in {"pairs", "evicting"},
                    NEW pr \in DOMAIN TpPairToMatchNum
             PROVE  Enough(pr, Stay(pr))
  BY DEF NoUndershoot, Enough, Stay
<1>1. TypeOK /\ tsp \in PolicySpecs
  BY DEF TypeInv, PolicyInv
<1>2. Stay(pr) \subseteq TpPairToMatchNum[pr]
  BY DEF Stay
<1>3. CASE pr \in todoPairs
  <2>1. Stay(pr) = TpPairToMatchNum[pr]
    BY <1>2, <1>3 DEF StayInv
  <2> QED  BY <1>1, <2>1, AllIsEnough
<1>4. CASE pc = "evicting" /\ pr = pair
  <2>1. TpPairToMatchNum[pr] \ visited \subseteq Stay(pr)
    BY <1>4 DEF StayInv
  <2>2. Enough(pr, TpPairToMatchNum[pr] \ visited)
    BY <1>1, <1>4, VisitedLeaveEnough
  <2> QED  BY <1>1, <1>2, <2>1, <2>2, EnoughMonotonic
<1>5. CASE pr \notin todoPairs /\ ~ (pc = "evicting" /\ pr = pair)
  BY <1>5 DEF StayInv
<1> QED  BY <1>3, <1>4, <1>5

(* NoUndershoot holds in every reachable state: of the pods it listed in a *)
(* value the strategy's evictions leave the policy's replicas, or all, if  *)
(* the pods that others deleted or moved since the list count as left.  It *)
(* bounds what the loop evicts, not what others take away besides.         *)
THEOREM SpecNoUndershoot == Spec => []NoUndershoot
<1>1. Init => StayInv
  BY DEF Init, StayInv
<1>2. Spec => []TypeInv
  BY InitTypeInv, NextTypeInv, PTL DEF Spec
<1> QED  BY <1>1, <1>2, NextStayInv, StayInvImpliesNoUndershoot, PTL DEF Spec

-------------------------------------------------------------------------------
(* The order of eviction: EvictionOrder. *)

(* What has been inserted is in order, but for the pod that still moves,   *)
(* which is less than those it has passed.                                 *)
InsertedInOrder ==
  /\ stage = "gaps" => front > Gap
  /\ stage # "gaps" =>
       /\ moving \in 1..front
       /\ front > PodCount => moving = front
       /\ \A k, l \in Names : k < l /\ l <= front /\ moving \notin {k, l} => LessAt(k, l)
       /\ \A l \in Names : moving < l /\ l <= front => LessAt(moving, l)
  /\ stage = "sorted" => front > PodCount

SortInv == SortTypeOK /\ InsertedInOrder

(* Less on different names is total and transitive. *)
LEMMA LessOrders ==
  ASSUME NEW f \in [Names -> Phases], NEW p \in Names, NEW q \in Names, NEW r \in Names
  PROVE  /\ p # q => Less(f, p, q) \/ Less(f, q, p)
         /\ Less(f, p, q) /\ Less(f, q, r) => Less(f, p, r)
BY PodCountAssumption DEF Less, Names

(* Swap exchanges two places and loses no pod. *)
LEMMA SwapListing ==
  ASSUME SortTypeOK, NEW k \in Names, NEW l \in Names
  PROVE  /\ Swap(k, l) \in Listings
         /\ \A m \in Names : Swap(k, l)[m] = IF m = l THEN pods[k] ELSE IF m = k THEN pods[l] ELSE pods[m]
BY DEF SortTypeOK, Listings, Swap

(* Nothing has been inserted at first. *)
LEMMA SortInvInit == SortInit => SortInv
BY PodCountAssumption, GapAssumption DEF SortInit, SortInv, SortTypeOK, InsertedInOrder

(* The first pass only has to keep every pod in the list. *)
LEMMA CompareGapKeeps == SortInv /\ CompareGap => SortInv'
<1> SUFFICES ASSUME SortInv, CompareGap PROVE SortInv'
  OBVIOUS
<1> USE PodCountAssumption, GapAssumption
<1>1. front \in Names /\ front - Gap \in Names
  BY DEF SortInv, SortTypeOK, InsertedInOrder, CompareGap, Names
<1>2. pods' \in Listings
  BY <1>1, SwapListing DEF SortInv, SortTypeOK, CompareGap
<1> QED
  BY <1>2 DEF SortInv, SortTypeOK, InsertedInOrder, CompareGap

(* Insertion starts with one pod in order and the second moving. *)
LEMMA StartInsertionKeeps == SortInv /\ StartInsertion => SortInv'
<1> SUFFICES ASSUME SortInv, StartInsertion PROVE SortInv'
  OBVIOUS
<1>1. SortTypeOK'
  BY DEF SortInv, SortTypeOK, StartInsertion
<1>2. InsertedInOrder'
  BY PodCountAssumption DEF InsertedInOrder, StartInsertion, Names
<1> QED
  BY <1>1, <1>2 DEF SortInv

(* The moving pod passes one that it is less than. *)
LEMMA MoveLeftKeeps == SortInv /\ MoveLeft => SortInv'
<1> SUFFICES ASSUME SortInv, MoveLeft PROVE SortInv'
  OBVIOUS
<1> USE PodCountAssumption
<1>1. moving \in Names /\ moving - 1 \in Names /\ moving <= front
  BY DEF SortInv, SortTypeOK, InsertedInOrder, MoveLeft, MovesLeft, Names
<1>2. pods' \in Listings
  BY <1>1, SwapListing DEF SortInv, MoveLeft
<1>3. \A m \in Names : pods'[m] = IF m = moving THEN pods[moving - 1]
                                  ELSE IF m = moving - 1 THEN pods[moving] ELSE pods[m]
  BY <1>1, SwapListing DEF SortInv, MoveLeft
<1>4. SortTypeOK'
  BY <1>1, <1>2 DEF SortInv, SortTypeOK, MoveLeft, Names
<1>5. ASSUME NEW k \in Names, NEW l \in Names, k < l, l <= front, k # moving - 1, l # moving - 1
      PROVE  Less(phases, pods'[k], pods'[l])
  BY <1>1, <1>3, <1>5 DEF SortInv, SortTypeOK, InsertedInOrder, MoveLeft, LessAt, Names
<1>6. ASSUME NEW l \in Names, moving - 1 < l, l <= front
      PROVE  Less(phases, pods'[moving - 1], pods'[l])
  BY <1>1, <1>3, <1>6 DEF SortInv, SortTypeOK, InsertedInOrder, MoveLeft, MovesLeft, LessAt, Names
<1>7. InsertedInOrder'
  BY <1>1, <1>5, <1>6 DEF SortInv, SortTypeOK, InsertedInOrder, MoveLeft, LessAt, Names
<1> QED
  BY <1>4, <1>7 DEF SortInv

(* A pod that stops is not less than the one before it, so that one and    *)
(* all those before it are less than the pod.                              *)
LEMMA TakeNextKeeps == SortInv /\ TakeNext => SortInv'
<1> SUFFICES ASSUME SortInv, TakeNext PROVE SortInv'
  OBVIOUS
<1> USE PodCountAssumption
<1>1. SortTypeOK'
  BY DEF SortInv, SortTypeOK, TakeNext
<1>2. moving \in Names /\ front \in Names /\ moving <= front
  BY DEF SortInv, SortTypeOK, InsertedInOrder, TakeNext, Names
<1>3. \A m \in Names : pods[m] \in Names /\ \A n \in Names : m # n => pods[m] # pods[n]
  BY DEF SortInv, SortTypeOK, Listings
<1>4. \A k \in Names : k < moving => LessAt(k, moving)
  <2> SUFFICES ASSUME NEW k \in Names, k < moving PROVE LessAt(k, moving)
    OBVIOUS
  <2>1. moving - 1 \in Names /\ ~ LessAt(moving, moving - 1)
    BY <1>2 DEF TakeNext, MovesLeft, Names
  <2>2. LessAt(moving - 1, moving)
    BY <1>2, <1>3, <2>1, LessOrders DEF SortInv, SortTypeOK, LessAt, Names
  <2>3. k = moving - 1 \/ LessAt(k, moving - 1)
    BY <1>2, <2>1 DEF SortInv, SortTypeOK, InsertedInOrder, TakeNext, Names
  <2> QED
    BY <1>2, <1>3, <2>1, <2>2, <2>3, LessOrders DEF SortInv, SortTypeOK, LessAt
<1>5. ASSUME NEW k \in Names, NEW l \in Names, k < l, l <= front
      PROVE  LessAt(k, l)
  BY <1>2, <1>4, <1>5 DEF SortInv, InsertedInOrder, TakeNext
<1>6. InsertedInOrder'
  BY <1>2, <1>5 DEF SortInv, SortTypeOK, InsertedInOrder, TakeNext, LessAt, Names
<1> QED
  BY <1>1, <1>6 DEF SortInv

(* Every step of the sort keeps what has been inserted in order. *)
LEMMA SortInvNext == SortInv /\ [SortNext]_sortVars => SortInv'
<1> SUFFICES ASSUME SortInv, [SortNext]_sortVars PROVE SortInv'
  OBVIOUS
<1>1. CASE CompareGap
  BY <1>1, CompareGapKeeps
<1>2. CASE StartInsertion
  BY <1>2, StartInsertionKeeps
<1>3. CASE MoveLeft
  BY <1>3, MoveLeftKeeps
<1>4. CASE TakeNext
  BY <1>4, TakeNextKeeps
<1>5. CASE EndSort
  BY <1>5 DEF EndSort, SortInv, SortTypeOK, InsertedInOrder, LessAt
<1>6. CASE UNCHANGED sortVars
  BY <1>6 DEF sortVars, SortInv, SortTypeOK, InsertedInOrder, LessAt
<1> QED
  BY <1>1, <1>2, <1>3, <1>4, <1>5, <1>6 DEF SortNext

(* A pod less than all those after it is evicted before them. *)
LEMMA SortedIdleFirst == SortInv => IdleGoFirst
<1> SUFFICES ASSUME SortInv, stage = "sorted", NEW k \in Names
             PROVE  pods[k] \in FirstOf(phases, {pods[l] : l \in k..PodCount})
  BY DEF IdleGoFirst
<1> USE PodCountAssumption
<1>1. \A l \in Names : k < l => LessAt(k, l)
  BY DEF SortInv, SortTypeOK, InsertedInOrder, Names
<1>2. \A q \in {pods[l] : l \in k..PodCount} \ {pods[k]} : Less(phases, pods[k], q)
  BY <1>1 DEF LessAt, Names
<1>3. pods[k] \in {pods[l] : l \in k..PodCount}
  BY DEF Names
<1> QED
  BY <1>2, <1>3 DEF FirstOf, Less

(* The list holds every pod of the value once while it is sorted (Swap),   *)
(* whatever its order and the first pass.                                  *)
THEOREM SpecSortTypeOK == SortSpec => []SortTypeOK
<1>1. SortInv => SortTypeOK
  BY DEF SortInv
<1> QED
  BY <1>1, SortInvInit, SortInvNext, PTL DEF SortSpec

(* The sorted list begins, at any place, with a pod that is evicted before *)
(* all those after it (ByCostom.Less, for which idle pods are less than    *)
(* each other, under the library's swaps).                                 *)
THEOREM SpecIdleGoFirst == SortSpec => []IdleGoFirst
BY SortInvInit, SortInvNext, SortedIdleFirst, PTL DEF SortSpec

===============================================================================
