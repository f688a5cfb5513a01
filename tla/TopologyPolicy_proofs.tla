------------------------ MODULE TopologyPolicy_proofs -------------------------
(***************************************************************************)
(* Lemmas about the pure functions of TopologyPolicy.                      *)
(***************************************************************************)
EXTENDS TopologyPolicy, Sequences, FiniteSetTheorems, TLAPS

(* A name that the placement lists has a last entry: take an entry whose   *)
(* set of later entries with that name is minimal under strict inclusion.  *)
LEMMA LastEntryExists ==
  ASSUME NEW T, NEW dp \in Seq(T), NEW i \in DOMAIN dp
  PROVE  \E k \in DOMAIN dp : IsLastOf(dp, dp[i].name, k)
<1> DEFINE Named == {j \in DOMAIN dp : dp[j].name = dp[i].name}
           Later(j) == {k \in Named : k > j}
           Laters == {Later(j) : j \in Named}
<1>1. DOMAIN dp = 1..Len(dp) /\ Len(dp) \in Nat
  OBVIOUS
<1>2. IsFiniteSet(Named)
  <2>1. IsFiniteSet(DOMAIN dp)
    BY <1>1, FS_Interval
  <2>2. Named \in SUBSET DOMAIN dp
    OBVIOUS
  <2> HIDE DEF Named
  <2> QED  BY <2>1, <2>2, FS_Subset
<1>3. IsWellFoundedOn(StrictSubsetOrdering(Named), FiniteSubsetsOf(Named))
  BY FS_StrictSubsetOrderingWellFounded
<1>4. Laters \subseteq FiniteSubsetsOf(Named)
  <2>1. \A j \in Named : Later(j) \in SUBSET Named
    OBVIOUS
  <2> HIDE DEF Named, Later
  <2> QED  BY <1>2, <2>1, FS_Subset DEF FiniteSubsetsOf
<1>5. Laters # {}
  OBVIOUS
<1>6. PICK X \in Laters : \A Y \in Laters : ~ (<<Y, X>> \in StrictSubsetOrdering(Named))
  <2> HIDE DEF Laters, Named
  <2> QED  BY <1>3, <1>4, <1>5, WFMin
<1>7. PICK k \in Named : X = Later(k)
  OBVIOUS
<1>8. ASSUME NEW j \in Later(k) PROVE FALSE
  <2>1. Later(j) \subseteq Later(k) /\ j \notin Later(j)
    BY <1>1
  <2>2. <<Later(j), Later(k)>> \in StrictSubsetOrdering(Named)
    BY <1>8, <2>1 DEF StrictSubsetOrdering
  <2> QED  BY <1>6, <1>7, <1>8, <2>2
<1> QED  BY <1>1, <1>7, <1>8 DEF IsLastOf

(* The policy map has integer replicas under the names of the placement. *)
LEMMA CovertPolicyType ==
  ASSUME NEW Names, NEW dp \in Seq([name : Names, replicas : Int])
  PROVE  /\ DOMAIN CovertPolicy(dp) \subseteq Names
         /\ CovertPolicy(dp) \in [DOMAIN CovertPolicy(dp) -> Int]
<1> DEFINE Listed == {dp[i].name : i \in DOMAIN dp}
           Last(name) == CHOOSE i \in DOMAIN dp : IsLastOf(dp, name, i)
<1>1. \A i \in DOMAIN dp : dp[i].name \in Names /\ dp[i].replicas \in Int
  <2> DEFINE Listing == [name : Names, replicas : Int]
  <2>1. dp \in Seq(Listing)
    OBVIOUS
  <2>2. \A i \in DOMAIN dp : dp[i] \in Listing
    <3> HIDE DEF Listing
    <3> QED  BY <2>1
  <2> QED  BY <2>2
<1>2. \A name \in Listed : Last(name) \in DOMAIN dp
  BY LastEntryExists
<1>3. CovertPolicy(dp) = [name \in Listed |-> dp[Last(name)].replicas]
  BY DEF CovertPolicy
<1>4. Listed \subseteq Names
  BY <1>1
<1>5. \A name \in Listed : dp[Last(name)].replicas \in Int
  <2> HIDE DEF Listed, Last
  <2> QED  BY <1>1, <1>2
<1> HIDE DEF Listed, Last
<1> QED  BY <1>3, <1>4, <1>5

===============================================================================
