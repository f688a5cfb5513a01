------------------------------ MODULE MCEviction -------------------------------
(***************************************************************************)
(* The descheduler's strategy beside the scheduler plugin, and the library *)
(* that sorts the pods for it.  The two have nothing to do with each other *)
(* but the list: a behaviour is one of the cluster, or one of a call of    *)
(* sort.Sort, with the cluster at rest.                                    *)
(***************************************************************************)
EXTENDS MCSuperScheduling, EvictionOrder

CONSTANT zc

(* n1 is in zb; n2 moves between za and zc, loses its label or is removed. *)
MovingN2 ==
  [n \in Nodes |-> IF n = n1 THEN {[k \in Keys |-> zb]}
                   ELSE {[k \in Keys |-> v] : v \in {za, zc, Nil}} \cup {Nil}]

(* More pods are to be deleted from zc than it can have. *)
OneTwoNegative ==
  [q \in PolicyNames |->
     {Nil,
      [topologyKey     |-> zone,
       deployPlacement |-> <<[name |-> za, replicas |-> 1], [name |-> zb, replicas |-> 2],
                             [name |-> zc, replicas |-> -1]>>,
       labelSelector   |-> Pods]}]

(* No call goes on. *)
Unsorted == [k \in Names |-> k]
AllRun == [k \in Names |-> "Running"]

NoCall == front = 0

NotCalled ==
  /\ phases = AllRun /\ pods = Unsorted
  /\ stage = "sorted" /\ front = 0 /\ moving = 0

Return ==
  /\ stage = "sorted" /\ ~ NoCall
  /\ phases' = AllRun /\ pods' = Unsorted
  /\ front' = 0 /\ moving' = 0
  /\ UNCHANGED stage

NothingThere ==
  /\ \A p \in Pods : place[p] = Nil
  /\ \A q \in PolicyNames : policies[q] = Nil
  /\ nodes[n2] = Nil

EvictionInit == SuperInit /\ (NotCalled \/ (NothingThere /\ SortInit))

EvictionNext ==
  \/ NoCall /\ SuperNext /\ UNCHANGED sortVars
  \/ (SortNext \/ Return) /\ UNCHANGED superVars

EvictionSpec == EvictionInit /\ [][EvictionNext]_<<superVars, sortVars>>
===============================================================================
