-------------------------- MODULE MultiCluster_proofs --------------------------
(***************************************************************************)
(* Proofs about MultiCluster for any clusters, nodes, pods and number of   *)
(* parallel Filter calls, in any order.                                    *)
(***************************************************************************)
EXTENDS MultiCluster, TLAPS

(* New has come to every cluster that has a scheduler, and to no other. *)
NewInv ==
  /\ building # Nil <=> step # "none"
  /\ phase = "new" => schedulers \cup todo \cup ({building} \ {Nil}) = Configured

(* Filter is called for a pod of a cycle only, once New has returned; a    *)
(* call that has come to its cluster is on a virtual node of a configured  *)
(* one, and that cluster's Algorithm has a snapshot.                       *)
CycleInv ==
  \A n \in Nodes :
    /\ call[n] # "none" => pod \in Pods /\ phase = "up"
    /\ call[n] \in {"asked", "filtering"} =>
         n \in Virtual /\ ClusterOf[n] \in Configured /\ snapshot[ClusterOf[n]] # Nil

TypeInv == TypeOK /\ NewInv /\ CycleInv

USE DEF Placement, Nowhere, CallState

(* The process starts well typed. *)
LEMMA InitTypeInv == Init => TypeInv
  BY ClusterAssumption, PodAssumption DEF Init, TypeInv, TypeOK, NewInv, CycleInv

(* What ends or clears a cycle leaves its variables well typed. *)
LEMMA NoCycleTyped ==
  ASSUME NoCycle
  PROVE  /\ pod' \in Pods \cup {Nil}
         /\ call' \in [Nodes -> CallState]
         /\ snapshot' \in [Clusters -> Placement \cup {Nil}]
         /\ preFilter' \subseteq Zones
         /\ \A n \in Nodes : call'[n] = "none"
  BY DEF NoCycle

(* The data that an inner PreFilter writes are zones. *)
LEMMA TakenZonesTyped ==
  ASSUME NEW c \in Clusters, NEW p \in Pods, NEW snap \in Placement
  PROVE  TakenZones(c, p, snap) \subseteq Zones
<1>1. Repelling[c][p] \subseteq Zones
  BY ClusterAssumption
<1>2. {ZoneOf[snap[q]] : q \in {r \in Apart(p) : snap[r] # Nil}} \subseteq Zones
  BY ClusterAssumption DEF Apart
<1>3. ConvertAnnotations(p) \subseteq InnerNodes
  BY PodAssumption DEF ConvertAnnotations
<1>4. FullZones(c, p, snap) \subseteq {ZoneOf[i] : i \in ConvertAnnotations(p)}
  BY DEF FullZones
<1>5. FullZones(c, p, snap) \subseteq Zones
  BY <1>3, <1>4, ClusterAssumption
<1> QED  BY <1>1, <1>2, <1>5 DEF TakenZones

(* Which scheduler a virtual node of a configured cluster has. *)
LEMMA SchedulerIs ==
  ASSUME TypeInv, NEW n \in Nodes, call[n] # "none"
  PROVE  /\ SchedulerOf(n) # Nil => n \in Virtual /\ SchedulerOf(n) = ClusterOf[n]
         /\ n \in Virtual /\ ClusterOf[n] \in Configured => SchedulerOf(n) = ClusterOf[n]
         /\ SchedulerOf(n) # Nil => ClusterOf[n] \in Configured
  BY DEF TypeInv, TypeOK, CycleInv, SchedulerOf, IsVirtualNode, GetClusterID

(* What the steps of a call do that write nothing but its own state. *)
CallMoves(n) == OtherFilters(n) \/ FilterPasses(n) \/ NoInnerNodes(n) \/ InnerFilter(n)

LEMMA CallMovesTo ==
  ASSUME NEW n \in Nodes, CallMoves(n)
  PROVE  /\ call[n] \in {"waiting", "accepted", "filtering"}
         /\ UNCHANGED <<pluginVars, pod, snapshot, preFilter, worldVars>>
         /\ \E to \in {"accepted", "fits", "unfit"} :
              /\ call' = [call EXCEPT ![n] = to]
              /\ call[n] = "filtering" => to # "accepted"
  BY DEF CallMoves, OtherFilters, FilterPasses, NoInnerNodes, InnerFilter

(* All steps keep types: one case per action. *)
LEMMA NextTypeInv == TypeInv /\ [Next]_vars => TypeInv'
<1> SUFFICES ASSUME TypeInv, [Next]_vars PROVE TypeInv'
  OBVIOUS
<1> USE ClusterAssumption, PodAssumption DEF TypeInv, TypeOK, NewInv, CycleInv
<1>1. ASSUME NEW c \in Clusters, BuildConfigFromFlags(c) PROVE TypeInv'
  BY <1>1 DEF BuildConfigFromFlags, cycleVars, worldVars
<1>2. CASE NewDefaultComponentConfig \/ Config \/ NewScheduler
  BY <1>2 DEF NewDefaultComponentConfig, Config, NewScheduler, Does, cycleVars, worldVars
<1>3. CASE Run
  BY <1>3 DEF Run, cycleVars, worldVars
<1>4. CASE NewReturns
  BY <1>4 DEF NewReturns, AllBuilt, cycleVars, worldVars
<1>5. CASE NewFails
  BY <1>5 DEF NewFails, cycleVars, worldVars
<1>6. CASE Restart
  BY <1>6, NoCycleTyped DEF Restart, worldVars
<1>7. ASSUME NEW c \in Clusters, SeeNodes(c) PROVE TypeInv'
  BY <1>7 DEF SeeNodes, newVars, cycleVars, worldVars
<1>8. ASSUME NEW c \in Clusters, NEW p \in Pods, SeePod(c, p) PROVE TypeInv'
  <2>1. In(c, p) \in InnerNodes \cup {Nil}
    BY <1>8 DEF In
  <2> QED  BY <1>8, <2>1 DEF SeePod, newVars, cycleVars, worldVars
<1>9. ASSUME NEW p \in Pods, StartCycle(p) PROVE TypeInv'
  BY <1>9 DEF StartCycle, pluginVars, newVars, worldVars
<1>10. ASSUME NEW n \in Nodes, CallMoves(n) PROVE TypeInv'
  <2>1. PICK to \in {"accepted", "fits", "unfit"} : call' = [call EXCEPT ![n] = to]
    BY <1>10, CallMovesTo
  <2>2. call[n] # "none" /\ UNCHANGED <<pluginVars, pod, snapshot, preFilter, worldVars>>
    BY <1>10, CallMovesTo
  <2>3. CycleInv'
    BY <2>1, <2>2 DEF pluginVars, newVars
  <2> HIDE DEF CycleInv
  <2> QED  BY <2>1, <2>2, <2>3 DEF pluginVars, newVars, worldVars
<1>11. ASSUME NEW n \in Nodes, TakeSnapshot(n) \/ InnerPreFilter(n) PROVE TypeInv'
  <2> DEFINE c == SchedulerOf(n)
  <2>1. call[n] # "none" /\ pod \in Pods
    BY <1>11 DEF TakeSnapshot, InnerPreFilter
  <2>2. CASE TakeSnapshot(n)
    <3>1. c \in Configured /\ c # Nil
      BY <2>2 DEF TakeSnapshot
    <3>2. n \in Virtual /\ c = ClusterOf[n]
      BY <2>1, <3>1, SchedulerIs
    <3>3. seen[c] \in Placement /\ seen[c] # Nil
      BY <3>1
    <3>4. snapshot' \in [Clusters -> Placement \cup {Nil}]
      BY <2>2, <3>1, <3>3 DEF TakeSnapshot
    <3>5. \A d \in Clusters : snapshot[d] # Nil => snapshot'[d] # Nil
      BY <2>2, <3>3 DEF TakeSnapshot
    <3>6. snapshot'[c] # Nil
      BY <2>2, <3>1, <3>3 DEF TakeSnapshot
    <3>7. CycleInv'
      BY <2>1, <2>2, <3>1, <3>2, <3>5, <3>6 DEF TakeSnapshot, pluginVars, newVars
    <3> HIDE DEF CycleInv
    <3> QED  BY <2>2, <3>4, <3>7 DEF TakeSnapshot, pluginVars, newVars, worldVars
  <2>3. CASE InnerPreFilter(n)
    <3>1. c \in Clusters /\ snapshot[c] \in Placement
      BY <2>1, <2>3, SchedulerIs DEF InnerPreFilter
    <3>2. TakenZones(c, pod, snapshot[c]) \subseteq Zones
      BY <2>1, <3>1, TakenZonesTyped
    <3> QED  BY <2>3, <3>2 DEF InnerPreFilter, pluginVars, newVars, worldVars
  <2> QED  BY <1>11, <2>2, <2>3
<1>12. ASSUME NEW n \in Nodes, Bind(n) PROVE TypeInv'
  BY <1>12, NoCycleTyped DEF Bind, pluginVars, newVars
<1>13. CASE NoNode
  BY <1>13, NoCycleTyped DEF NoNode, pluginVars, newVars, worldVars
<1>14. ASSUME NEW p \in Pods, NEW i \in InnerNodes, Land(p, i) PROVE TypeInv'
  BY <1>14 DEF Land, pluginVars, newVars, cycleVars
<1>15. ASSUME NEW p \in Pods, Leave(p) PROVE TypeInv'
  BY <1>15 DEF Leave, pluginVars, newVars, cycleVars
<1>16. ASSUME NEW c \in Clusters, FlipReachable(c) PROVE TypeInv'
  BY <1>16 DEF FlipReachable, pluginVars, newVars, cycleVars
<1>17. CASE UNCHANGED vars
  BY <1>17 DEF vars, pluginVars, newVars, cycleVars, worldVars
<1> QED
  BY <1>1, <1>2, <1>3, <1>4, <1>5, <1>6, <1>7, <1>8, <1>9, <1>10, <1>11, <1>12, <1>13,
     <1>14, <1>15, <1>16, <1>17
     DEF Next, New, Informers, Cycle, Filter, CallMoves, World

(* TypeOK holds in every reachable state (the plugin's and the framework's *)
(* variables keep their types, and New returns with every cluster built).  *)
THEOREM SpecTypeOK == Spec => []TypeOK
<1>1. Spec => []TypeInv
  BY InitTypeInv, NextTypeInv, PTL DEF Spec
<1>2. TypeInv => TypeOK
  BY DEF TypeInv
<1> QED  BY <1>1, <1>2, PTL

-------------------------------------------------------------------------------
(* Verdicts. *)

(* The data that a call will read: its own, if no other call has come to   *)
(* its cluster, and none if no cluster has any about the pod.              *)
DataOf(n) ==
  /\ FirstAsked(n) => preFilter = TakenZones(ClusterOf[n], pod, snapshot[ClusterOf[n]])
  /\ Neutral(pod) => preFilter = {}

DataInv == \A n \in Nodes : call[n] = "filtering" => DataOf(n)

IInv == TypeInv /\ DataInv

(* No call is under way in the beginning. *)
LEMMA InitIInv == Init => IInv
<1> SUFFICES ASSUME Init PROVE DataInv
  BY InitTypeInv DEF IInv
<1> QED  BY DEF Init, DataInv

(* No cluster has data about a neutral pod, whatever its snapshot shows. *)
LEMMA NeutralData ==
  ASSUME NEW c \in Clusters, NEW p, Neutral(p), NEW snap PROVE TakenZones(c, p, snap) = {}
<1>1. FullZones(c, p, snap) = {}
  BY DEF FullZones, Neutral
<1> QED  BY <1>1 DEF TakenZones, Neutral

(* A call that reads the same data, and that was the first before, keeps   *)
(* what is said of it.                                                     *)
LEMMA DataKept ==
  ASSUME NEW n \in Nodes, DataOf(n), UNCHANGED <<pod, snapshot, preFilter>>,
         FirstAsked(n)' => FirstAsked(n)
  PROVE  DataOf(n)'
<1> DEFINE own == TakenZones(ClusterOf[n], pod, snapshot[ClusterOf[n]])
<1>1. Neutral(pod)' <=> Neutral(pod)
  BY DEF Neutral, Apart
<1>2. own' = own
  BY DEF TakenZones, FullZones, Apart
<1> QED  BY <1>1, <1>2 DEF DataOf

(* A step that moves one call changes no data and makes no other call the  *)
(* first.                                                                  *)
LEMMA CallMovesData ==
  ASSUME IInv, NEW m \in Nodes, CallMoves(m) PROVE DataInv'
<1> SUFFICES ASSUME NEW n \in Nodes, call'[n] = "filtering" PROVE DataOf(n)'
  BY DEF DataInv
<1> PICK to \in {"accepted", "fits", "unfit"} :
      call' = [call EXCEPT ![m] = to] /\ (call[m] = "filtering" => to # "accepted")
  BY CallMovesTo
<1>1. call[n] = "filtering" /\ n # m
  BY DEF IInv, TypeInv, TypeOK
<1>2. DataOf(n)
  BY <1>1 DEF IInv, DataInv
<1>3. FirstAsked(n)' => FirstAsked(n)
  BY CallMovesTo, ClusterAssumption DEF FirstAsked, IInv, TypeInv, TypeOK
<1> QED  BY <1>2, <1>3, DataKept, CallMovesTo

(* A new snapshot is written by a call that is then not the only one to    *)
(* have come to its cluster.                                               *)
LEMMA TakeSnapshotData ==
  ASSUME IInv, NEW m \in Nodes, TakeSnapshot(m) PROVE DataInv'
<1> SUFFICES ASSUME NEW n \in Nodes, call'[n] = "filtering" PROVE DataOf(n)'
  BY DEF DataInv
<1>1. call[n] = "filtering" /\ n # m /\ pod' = pod /\ preFilter' = preFilter
  BY DEF TakeSnapshot, IInv, TypeInv, TypeOK
<1>2. SchedulerOf(m) # Nil
  BY ClusterAssumption DEF TakeSnapshot, IInv, TypeInv, TypeOK
<1>3. m \in Virtual
  BY <1>2, SchedulerIs DEF TakeSnapshot, IInv
<1>4. call'[m] = "asked"
  BY DEF TakeSnapshot, IInv, TypeInv, TypeOK
<1>5. ~ FirstAsked(n)'
  BY <1>1, <1>3, <1>4 DEF FirstAsked
<1>6. Neutral(pod)' <=> Neutral(pod)
  BY <1>1 DEF Neutral, Apart
<1>7. DataOf(n)
  BY <1>1 DEF IInv, DataInv
<1> QED  BY <1>1, <1>5, <1>6, <1>7 DEF DataOf

(* The call that writes the data finds them, and any other call is then    *)
(* not the first.                                                          *)
LEMMA InnerPreFilterData ==
  ASSUME IInv, NEW m \in Nodes, InnerPreFilter(m) PROVE DataInv'
<1> SUFFICES ASSUME NEW n \in Nodes, call'[n] = "filtering" PROVE DataOf(n)'
  BY DEF DataInv
<1> DEFINE c == ClusterOf[m]
<1>1. m \in Virtual /\ c \in Configured /\ SchedulerOf(m) = c
  BY SchedulerIs DEF InnerPreFilter, IInv, TypeInv, CycleInv
<1>2. preFilter' = TakenZones(c, pod, snapshot[c]) /\ UNCHANGED <<pod, snapshot>>
  BY <1>1 DEF InnerPreFilter
<1>3. Neutral(pod)' <=> Neutral(pod)
  BY <1>2 DEF Neutral, Apart
<1>4. Neutral(pod)' => preFilter' = {}
  BY <1>1, <1>2, <1>3, NeutralData, ClusterAssumption
<1>5. CASE n = m
  <2>1. preFilter' = TakenZones(c, pod, snapshot[c])'
    BY <1>2 DEF TakenZones, FullZones, Apart
  <2> QED  BY <1>4, <1>5, <2>1 DEF DataOf
<1>6. CASE n # m
  <2>1. call'[m] = "filtering"
    BY DEF InnerPreFilter, IInv, TypeInv, TypeOK
  <2>2. ~ FirstAsked(n)'
    BY <1>1, <1>6, <2>1 DEF FirstAsked
  <2> QED  BY <1>4, <2>2 DEF DataOf
<1> QED  BY <1>5, <1>6

(* A step outside the cycle changes no data and no call. *)
LEMMA CycleKept ==
  ASSUME IInv, UNCHANGED cycleVars PROVE DataInv'
<1> SUFFICES ASSUME NEW n \in Nodes, call'[n] = "filtering" PROVE DataOf(n)'
  BY DEF DataInv
<1>1. DataOf(n) /\ UNCHANGED <<pod, snapshot, preFilter>>
  BY DEF IInv, DataInv, cycleVars
<1>2. FirstAsked(n)' => FirstAsked(n)
  BY DEF FirstAsked, cycleVars
<1> QED  BY <1>1, <1>2, DataKept

(* All steps keep the invariant: one case per kind of step. *)
LEMMA NextIInv == IInv /\ [Next]_vars => IInv'
<1> SUFFICES ASSUME IInv, [Next]_vars PROVE DataInv'
  BY NextTypeInv DEF IInv
<1>1. CASE NoCycle
  BY <1>1 DEF NoCycle, DataInv
<1>2. ASSUME NEW p \in Pods, StartCycle(p) PROVE DataInv'
  BY <1>2 DEF StartCycle, DataInv
<1>3. ASSUME NEW n \in Nodes, Filter(n) PROVE DataInv'
  BY <1>3, CallMovesData, TakeSnapshotData, InnerPreFilterData DEF Filter, CallMoves
<1>4. CASE New \/ NewFails \/ Informers \/ World
  BY <1>4, CycleKept
     DEF New, NewFails, Informers, World, BuildConfigFromFlags, NewDefaultComponentConfig,
         Config, NewScheduler, Does, Run, NewReturns, SeeNodes, SeePod, Land, Leave,
         FlipReachable
<1>5. CASE Restart
  BY <1>1, <1>5 DEF Restart
<1>6. CASE Cycle
  BY <1>1, <1>2, <1>3, <1>6 DEF Cycle, Bind, NoNode
<1>7. CASE UNCHANGED vars
  BY <1>7, CycleKept DEF vars
<1> QED  BY <1>4, <1>5, <1>6, <1>7 DEF Next

(* Only the call's own last step answers after it has filtered. *)
LEMMA AnswersItself ==
  ASSUME IInv, [Next]_vars, NEW n \in Nodes, Verdict(n) PROVE InnerFilter(n)
<1> USE DEF Verdict, IInv, TypeInv, TypeOK
<1>1. CASE UNCHANGED cycleVars
  BY <1>1 DEF cycleVars
<1>2. CASE NoCycle
  BY <1>2 DEF NoCycle
<1>3. ASSUME NEW p \in Pods, StartCycle(p) PROVE FALSE
  BY <1>3 DEF StartCycle
<1>4. ASSUME NEW m \in Nodes, Filter(m) PROVE InnerFilter(n)
  BY <1>4 DEF Filter, OtherFilters, FilterPasses, NoInnerNodes, TakeSnapshot,
              InnerPreFilter, InnerFilter
<1>5. CASE New \/ NewFails \/ Informers \/ World
  BY <1>1, <1>5
     DEF New, NewFails, Informers, World, BuildConfigFromFlags, NewDefaultComponentConfig,
         Config, NewScheduler, Does, Run, NewReturns, SeeNodes, SeePod, Land, Leave,
         FlipReachable
<1>6. CASE Restart
  BY <1>2, <1>6 DEF Restart
<1>7. CASE Cycle
  BY <1>2, <1>3, <1>4, <1>7 DEF Cycle, Bind, NoNode
<1>8. CASE UNCHANGED vars
  BY <1>1, <1>8 DEF vars
<1> QED  BY <1>5, <1>6, <1>7, <1>8 DEF Next

(* VerdictExact holds at every step (MultiSchedulingPlugin.Filter): a      *)
(* verdict about a pod that no cluster has data about, or by the first     *)
(* call to come to its cluster, is that of this cluster's snapshot, for    *)
(* any nodes, clusters, pods, data and interleaving of the calls.          *)
THEOREM SpecVerdictExact == Spec => VerdictExact
<1>1. Spec => []IInv
  BY InitIInv, NextIInv, PTL DEF Spec
<1> DEFINE Exactly(n) ==
      LET c == ClusterOf[n] IN
      /\ snapshot[c] # Nil
      /\ call'[n] = "fits" <=>
           Feasible(c, pod, snapshot[c], TakenZones(c, pod, snapshot[c])) # {}
    Step == \A n \in Nodes : Verdict(n) /\ (Neutral(pod) \/ FirstAsked(n)) => Exactly(n)
<1>2. IInv /\ [Next]_vars => Step
  <2> SUFFICES ASSUME IInv, [Next]_vars, NEW n \in Nodes, Verdict(n),
                      Neutral(pod) \/ FirstAsked(n)
               PROVE  Exactly(n)
    OBVIOUS
  <2> DEFINE c == ClusterOf[n]
  <2>1. InnerFilter(n) /\ call[n] = "filtering"
    BY AnswersItself DEF Verdict
  <2>2. c \in Configured /\ snapshot[c] # Nil /\ SchedulerOf(n) = c
    BY <2>1, SchedulerIs DEF IInv, TypeInv, CycleInv
  <2>3. DataOf(n)
    BY <2>1 DEF IInv, DataInv
  <2>4. Neutral(pod) => TakenZones(c, pod, snapshot[c]) = {}
    BY <2>2, NeutralData, ClusterAssumption
  <2>5. preFilter = TakenZones(c, pod, snapshot[c])
    BY <2>3, <2>4 DEF DataOf
  <2>6. call'[n] = IF Feasible(c, pod, snapshot[c], preFilter) # {} THEN "fits" ELSE "unfit"
    BY <2>1, <2>2 DEF InnerFilter, IInv, TypeInv, TypeOK
  <2> QED  BY <2>2, <2>5, <2>6
<1> QED  BY <1>1, <1>2, PTL DEF Spec, VerdictExact

===============================================================================
