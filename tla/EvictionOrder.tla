----------------------------- MODULE EvictionOrder -----------------------------
(***************************************************************************)
(* sort.Sort(ByCostom(counter.pods)): the Go library swaps the surplus     *)
(* pods of one topology value until it takes them for sorted.  Less is no  *)
(* strict weak order (two idle pods are each less than the other), so the  *)
(* library promises nothing about the result; this module follows its      *)
(* comparisons and swaps.                                                  *)
(*                                                                         *)
(* The library is not under src/: go 1.15, with which the repository is    *)
(* built, sorts at most twelve elements by one pass that compares those    *)
(* six apart and then by insertion.  Longer lists are not modelled.        *)
(***************************************************************************)
EXTENDS ByCostom

CONSTANTS
  PodCount, \* pods of the topology value; their names are 1..PodCount
  Gap       \* how far apart the first pass compares (six in the library)

ASSUME PodCountAssumption == PodCount \in 0..12

ASSUME GapAssumption == Gap \in Nat \ {0}

Names == 1..PodCount

VARIABLES
  phases, \* status.phase of each pod
  pods,   \* the list: its pod at each place
  stage,  \* what the library is doing
  front,  \* the place up to which it has come
  moving  \* the place of the pod that moves left

sortVars == <<phases, pods, stage, front, moving>>

Listings == {f \in [Names -> Names] : \A k, l \in Names : f[k] = f[l] => k = l}

(* The API server has listed the pods in any order. *)
SortInit ==
  /\ phases \in [Names -> Phases]
  /\ pods \in Listings
  /\ stage = "gaps" /\ front = Gap + 1 /\ moving = 0

(* Slip: the second assignment reads what the first has written. *)
SwapInTurn(k, l) == [pods EXCEPT ![k] = pods[l], ![l] = pods[l]]

Swap(k, l) == [pods EXCEPT ![k] = pods[l], ![l] = pods[k]]

LessAt(k, l) == Less(phases, pods[k], pods[l])

(* One comparison of the first pass, and the swap it leads to. *)
CompareGap ==
  /\ stage = "gaps" /\ front <= PodCount
  /\ pods' = IF LessAt(front, front - Gap) THEN Swap(front, front - Gap) ELSE pods
  /\ front' = front + 1
  /\ UNCHANGED <<phases, stage, moving>>

StartInsertion ==
  /\ stage = "gaps" /\ front > PodCount
  /\ stage' = "inserting" /\ front' = 2 /\ moving' = 2
  /\ UNCHANGED <<phases, pods>>

MovesLeft == moving > 1 /\ LessAt(moving, moving - 1)

MoveLeft ==
  /\ stage = "inserting" /\ front <= PodCount /\ MovesLeft
  /\ pods' = Swap(moving, moving - 1)
  /\ moving' = moving - 1
  /\ UNCHANGED <<phases, stage, front>>

TakeNext ==
  /\ stage = "inserting" /\ front <= PodCount /\ ~ MovesLeft
  /\ front' = front + 1 /\ moving' = front + 1
  /\ UNCHANGED <<phases, pods, stage>>

EndSort ==
  /\ stage = "inserting" /\ front > PodCount
  /\ stage' = "sorted"
  /\ UNCHANGED <<phases, pods, front, moving>>

SortNext == CompareGap \/ StartInsertion \/ MoveLeft \/ TakeNext \/ EndSort

SortSpec == SortInit /\ [][SortNext]_sortVars

-------------------------------------------------------------------------------
(* Types, and no pod is lost from the list or in it twice (Swap). *)
SortTypeOK ==
  /\ phases \in [Names -> Phases]
  /\ pods \in Listings
  /\ stage \in {"gaps", "inserting", "sorted"}
  /\ front \in Nat /\ moving \in Nat

(* IdleGoFirst: however the API server has listed the pods, at any place   *)
(* of the sorted list is one that is evicted before all those after it:    *)
(* pending, failed and succeeded ones before any that runs, and those that *)
(* run in name order, although idle pods are less than each other          *)
(* (ByCostom.Less under sort.Sort).                                        *)
IdleGoFirst ==
  stage = "sorted" =>
    \A k \in Names : pods[k] \in FirstOf(phases, {pods[l] : l \in k..PodCount})

===============================================================================
