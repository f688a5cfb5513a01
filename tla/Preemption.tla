------------------------------ MODULE Preemption -------------------------------
(***************************************************************************)
(* The scheduler with the plugin when a pod that fits nowhere may preempt  *)
(* pods of lower priority: Clone, AddPod and RemovePod, which the dry runs *)
(* and the filtering beside nominated pods call.                           *)
(*                                                                         *)
(* The dry runs of the candidate nodes run in parallel, each on a clone of *)
(* the cycle's state.  A clone that would share the cycle's counters is    *)
(* written Shared, so that what one dry run does to them is seen by all.   *)
(*                                                                         *)
(* The framework's preemption and its nominator are not under src/; they   *)
(* are modelled from how AddPod and RemovePod are to be called and are     *)
(* marked external.                                                        *)
(***************************************************************************)
EXTENDS TopologyScheduling

PreFilterStates ==
  [Constraint : [TopologyKey : Keys, Selector : SUBSET Pods,
                 SchedulePolicy : UNION {[S -> Int] : S \in SUBSET Values}],
   TpPairToMatchNum : UNION {[S -> Int] : S \in SUBSET Pairs},
   ScheduleStrategy : STRING]

CONSTANTS
  Priority, \* pod -> its priority
  Shared    \* "the counters of the cycle's own state"

ASSUME PriorityAssumption == Priority \in [Pods -> Int]

ASSUME SharedAssumption == Shared # Nil /\ Shared \notin PreFilterStates

(* The profile keeps a pod on the nodes its own selector allows.  Without  *)
(* this Reserve may dereference a missing counter, which is the subject of *)
(* TopologyScheduling, and so may the dry runs.                            *)
ASSUME SelectorAssumption == SelectorEnforced

VARIABLES
  dry,      \* candidate node -> how far its dry run is; empty outside preemption
  chosen,   \* the node whose victims are being deleted, or Nil
  victims,  \* those still to delete
  nominated \* pod -> the node nominated for it, or Nil

preemptVars == <<dry, chosen, victims, nominated>>
allVars == <<vars, preemptVars>>

Preempting == DOMAIN dry # {} \/ chosen # Nil

-------------------------------------------------------------------------------
(* The plugin's functions. *)

(* updateWithPod for several pods of one node. *)
updateWithPods(s, S, labels, delta) ==
  IF \E p \in S : updatesPair(s, p, labels)
  THEN [s EXCEPT !.TpPairToMatchNum[PairOn(s, labels)] =
          @ + delta * Cardinality(S \cap s.Constraint.Selector)]
  ELSE s

(* Slip: the label is looked for on the pod that is added. *)
AddLabelled(s, S, n) ==
  updateWithPods(s, {q \in S : podRequireTopologyScheduling(q)}, snapNodes[n], 1)

AddPods(s, S, n) ==
  IF podRequireTopologyScheduling(pod) THEN updateWithPods(s, S, snapNodes[n], 1) ELSE s

(* Slip: pods that are not counted because they terminate already are left *)
(* alone when they are removed, but not when they are added.               *)
RemoveCounted(s, S, n) ==
  IF podRequireTopologyScheduling(pod)
  THEN updateWithPods(s, S \ snapTerm, snapNodes[n], -1)
  ELSE s

RemovePods(s, S, n) ==
  IF podRequireTopologyScheduling(pod) THEN updateWithPods(s, S, snapNodes[n], -1) ELSE s

(* Slip: the map is copied, the counters it points to are not. *)
CloneMapOnly(s) == Shared

Clone(s) == s

(* The state that the dry run on n works on. *)
StateOf(n) == IF dry[n].state = Shared THEN state ELSE dry[n].state

(* Filter on n, beside the nominated pods and without them. *)
NominatedTo(n) ==
  {q \in Pods \ {pod} : /\ nominated[q] = n
                        /\ status[q] = "pending"
                        /\ Priority[q] >= Priority[pod]}

Accepted(n, s) ==
  /\ n \in OtherFilters[pod]
  /\ podRequireTopologyScheduling(pod) =>
       /\ policies[PolicyOf[pod]] # Nil
       /\ FilterAccepts(pod, s, policies[PolicyOf[pod]], snapNodes[n])

PassesOnNode(n, s) == Accepted(n, AddPods(s, NominatedTo(n), n)) /\ Accepted(n, s)

-------------------------------------------------------------------------------
(* The scheduling cycle, as TopologyScheduling has it but for Filter, the  *)
(* step that would end it without a feasible node, and the nominator.      *)

(* The nominated pods are added before any plugin looks at the node, to a  *)
(* counter that is not there when no node of the pod's selector has n's    *)
(* value.                                                                  *)
AddPanics(n) ==
  /\ podRequireTopologyScheduling(pod)
  /\ \E q \in NominatedTo(n) : updatePanics(state, q, snapNodes[n])

AddPodPanics(n) ==
  /\ panicked = "none"
  /\ phase = "filter"
  /\ n \in todo
  /\ AddPanics(n)
  /\ panicked' = "AddPod"
  /\ UNCHANGED <<podVars, worldVars, snapVars, cycleVars, bindVars>>

FilterBeside(n) ==
  /\ panicked = "none"
  /\ phase = "filter"
  /\ n \in todo
  /\ NominatedTo(n) # {}
  /\ ~ AddPanics(n)
  /\ n \in OtherFilters[pod] /\ podRequireTopologyScheduling(pod)
       => policies[PolicyOf[pod]] # Nil
  /\ todo' = todo \ {n}
  /\ feasible' = IF PassesOnNode(n, state) THEN feasible \cup {n} ELSE feasible
  /\ UNCHANGED <<podVars, worldVars, snapVars, phase, pod, state, host, bindVars, panicked>>

FilterAlone(n) ==
  /\ phase = "filter"
  /\ NominatedTo(n) = {}
  /\ Filter(n)

(* Pods of lower priority on n, and whether one of them leaves already.    *)
Lower(n) == {q \in Pods : snapPlace[q] = n /\ Priority[q] < Priority[pod]}

(* A pod that has preempted waits for its victims to go. *)
Eligible ==
  nominated[pod] # Nil => Lower(nominated[pod]) \cap snapTerm = {}

(* Filter's verdict was one that removing pods might change. *)
Candidates ==
  {n \in Nodes : /\ snapNodes[n] # Nil
                 /\ n \in OtherFilters[pod]
                 /\ podRequireTopologyScheduling(pod) =>
                      snapNodes[n][state.Constraint.TopologyKey] # Nil}

MayPreempt == feasible = {} /\ Eligible /\ Candidates # {}

(* SelectFails where there is nothing to preempt. *)
SelectFailsAtOnce ==
  /\ phase = "filter"
  /\ todo = {}
  /\ ~ Preempting
  /\ ~ MayPreempt
  /\ SelectFails

Untried == [state |-> Nil, at |-> "untried", left |-> {}, removed |-> {}]
Rejected == [Untried EXCEPT !.at = "rejected"]

StartPreemption ==
  /\ panicked = "none"
  /\ phase = "filter"
  /\ todo = {}
  /\ ~ Preempting
  /\ MayPreempt
  /\ dry' = [n \in Candidates |-> Untried]
  /\ UNCHANGED <<vars, chosen, victims, nominated>>

(* What a dry run made of its state. *)
Leaves(n, result, after) ==
  IF result.state = Shared
  THEN state' = after /\ dry' = [dry EXCEPT ![n] = result]
  ELSE state' = state /\ dry' = [dry EXCEPT ![n] = [result EXCEPT !.state = after]]

(* All lower pods of n are taken out of a clone. *)
RemoveLower(n) ==
  /\ panicked = "none"
  /\ n \in DOMAIN dry
  /\ dry[n].at = "untried"
  /\ LET without == RemovePods(state, Lower(n), n)
         helps   == Lower(n) # {} /\ PassesOnNode(n, without)
     IN Leaves(n, [state   |-> Clone(state),
                   at      |-> IF helps THEN "reprieve" ELSE "rejected",
                   left    |-> IF helps THEN Lower(n) ELSE {},
                   removed |-> Lower(n)],
               without)
  /\ UNCHANGED <<podVars, worldVars, snapVars, phase, pod, todo, feasible, host, bindVars,
                 panicked, chosen, victims, nominated>>

(* The most important of those left is put back, to stay if the preemptor  *)
(* still passes.                                                           *)
Reprieve(n, q) ==
  /\ panicked = "none"
  /\ n \in DOMAIN dry
  /\ q \in dry[n].left
  /\ \A r \in dry[n].left : Priority[r] <= Priority[q]
  /\ LET d     == dry[n]
         with  == AddPods(StateOf(n), {q}, n)
         stays == PassesOnNode(n, with)
     IN Leaves(n, [state   |-> d.state,
                   at      |-> d.at,
                   left    |-> d.left \ {q},
                   removed |-> IF stays THEN d.removed \ {q} ELSE d.removed],
               IF stays THEN with ELSE RemovePods(with, {q}, n))
  /\ UNCHANGED <<podVars, worldVars, snapVars, phase, pod, todo, feasible, host, bindVars,
                 panicked, chosen, victims, nominated>>

DryRunsDone ==
  Preempting /\ \A n \in DOMAIN dry : dry[n].at # "untried" /\ dry[n].left = {}

(* Some node where preemption helps. *)
Choose(n) ==
  /\ panicked = "none"
  /\ DryRunsDone
  /\ n \in DOMAIN dry
  /\ dry[n].at = "reprieve"
  /\ chosen' = n
  /\ victims' = dry[n].removed
  /\ dry' = <<>>
  /\ UNCHANGED <<vars, nominated>>

(* A bound victim is deleted.  One in its binding cycle is deleted when it *)
(* is bound, which TerminatePod may do at any time.                        *)
DeleteVictim(q) ==
  /\ panicked = "none"
  /\ q \in victims
  /\ victims' = victims \ {q}
  /\ IF status[q] = "bound"
     THEN TerminatePod(q)
     ELSE UNCHANGED vars
  /\ UNCHANGED <<dry, chosen, nominated>>

(* The cycle ends.  Lower pods nominated to the node lose it. *)
Nominate ==
  /\ panicked = "none"
  /\ chosen # Nil
  /\ victims = {}
  /\ FailCycle
  /\ nominated' = [q \in Pods |->
       IF q = pod THEN chosen
       ELSE IF nominated[q] = chosen /\ Priority[q] < Priority[pod] THEN Nil
       ELSE nominated[q]]
  /\ chosen' = Nil
  /\ UNCHANGED <<dry, victims>>

(* A deletion is refused, or no candidate helps. *)
PreemptionFails ==
  /\ panicked = "none"
  /\ \/ victims # {}
     \/ DOMAIN dry # {} /\ DryRunsDone /\ \A n \in DOMAIN dry : dry[n].at = "rejected"
  /\ FailCycle
  /\ dry' = <<>>
  /\ chosen' = Nil
  /\ victims' = {}
  /\ nominated' \in {nominated, [nominated EXCEPT ![pod] = Nil]}

-------------------------------------------------------------------------------
PreemptInit == Init /\ dry = <<>> /\ chosen = Nil /\ victims = {} /\ nominated = Nowhere

Preempt ==
  \/ StartPreemption
  \/ \E n \in Nodes : RemoveLower(n) \/ Choose(n)
  \/ \E n \in DOMAIN dry : \E q \in dry[n].left : Reprieve(n, q)
  \/ \E q \in Pods : DeleteVictim(q)
  \/ Nominate
  \/ PreemptionFails

(* Steps of TopologyScheduling that the nominator does not notice. *)
Unnoticed ==
  \/ \E p \in Pods : StartCycle(p)
  \/ PreFilter
  \/ PreFilterFails
  \/ \E n \in Nodes : FilterAlone(n) \/ FilterBeside(n) \/ AddPodPanics(n) \/ FilterFails(n)
  \/ \E n \in Nodes : SelectHost(n)
  \/ SelectFailsAtOnce
  \/ BindingCycle
  \/ \E p \in Pods : CreatePod(p) \/ TerminatePod(p)
  \/ Churn

PreemptNext ==
  \/ Preempt
  \/ Unnoticed /\ UNCHANGED preemptVars
  \/ /\ Reserve
     /\ nominated' = [nominated EXCEPT ![pod] = Nil]
     /\ UNCHANGED <<dry, chosen, victims>>
  \/ \E p \in Pods :
       /\ DeletePod(p)
       /\ nominated' = [nominated EXCEPT ![p] = Nil]
       /\ UNCHANGED <<dry, chosen, victims>>
  \/ /\ Restart
     /\ dry' = <<>> /\ chosen' = Nil /\ victims' = {}
     /\ UNCHANGED nominated

PreemptSpec == PreemptInit /\ [][PreemptNext]_allVars

-------------------------------------------------------------------------------
(* Properties. *)

PreemptTypeOK ==
  /\ DOMAIN dry \subseteq Nodes
  /\ \A n \in DOMAIN dry :
       /\ dry[n].at \in {"untried", "reprieve", "rejected"}
       /\ dry[n].state # Shared
       /\ dry[n].state = Nil \/ IsPreFilterState(dry[n].state)
       /\ dry[n].left \subseteq dry[n].removed
       /\ dry[n].removed \subseteq Lower(n)
  /\ chosen \in Nodes \cup {Nil}
  /\ victims \subseteq Pods
  /\ nominated \in [Pods -> Nodes \cup {Nil}]
  /\ Preempting => phase = "filter" /\ todo = {} /\ feasible = {}

(* CycleStateUntouched: whatever the dry runs add and remove, the cycle's  *)
(* own counters stay those that PreFilter made (Clone copies the counters, *)
(* not the pointers to them).                                              *)
CycleStateUntouched == CountersFromSnapshot

(* DryRunExact: in a dry run every counter is the number of pods that would*)
(* be counted without the removed ones, less the removed ones that were    *)
(* never counted because they terminate already (AddPod and RemovePod,     *)
(* which do not look at the DeletionTimestamp, against                     *)
(* countPodsMatchSelector, which does).                                    *)
DryRunExact ==
  \A n \in DOMAIN dry :
    dry[n].at = "reprieve" /\ podRequireTopologyScheduling(pod) =>
      LET s == StateOf(n)
          c == s.Constraint
      IN \A pair \in DOMAIN s.TpPairToMatchNum :
           s.TpPairToMatchNum[pair] =
             Cardinality(PodsMatchSelector(c.Selector, pair[1], pair[2]) \ dry[n].removed)
             - Cardinality({q \in c.Selector \cap snapTerm \cap dry[n].removed :
                              PairOn(s, snapNodes[n]) = pair})

(* VictimsMakeRoom: the pods that a finished dry run would take from a     *)
(* node are enough: without them the node's value is short of its replicas *)
(* or every value has them, unless one of them is on its way out anyway.   *)
JustifiedWithout(n, gone) ==
  LET c == state.Constraint
      short(v) == Cardinality(Holds(c.Selector, c.TopologyKey, v) \ gone) < c.SchedulePolicy[v]
      value == snapNodes[n][c.TopologyKey]
  IN (value \in DOMAIN c.SchedulePolicy /\ short(value))
       \/ \A v \in DOMAIN c.SchedulePolicy : ~ short(v)

VictimsMakeRoom ==
  \A n \in DOMAIN dry :
    /\ dry[n].at = "reprieve"
    /\ dry[n].left = {}
    /\ podRequireTopologyScheduling(pod)
    /\ dry[n].removed \cap snapTerm = {}
    => JustifiedWithout(n, dry[n].removed)

(* NoLostCounter: in a dry run AddPod and RemovePod never look up a counter*)
(* that PreFilter did not create (updateWithPod dereferences without a     *)
(* test); AddPod does so for a nominated pod only when the value it is     *)
(* nominated to is on no node that the incoming pod's own selector allows. *)
NoLostCounter ==
  /\ HasState =>
       \A n \in Candidates, q \in Pods : ~ updatePanics(state, q, snapNodes[n])
  /\ panicked = "AddPod" =>
       \E n \in Nodes :
         /\ snapNodes[n] # Nil
         /\ PairOn(state, snapNodes[n]) \notin PairsOf(pod, state.Constraint.TopologyKey)

===============================================================================
