------------------------------- MODULE ByCostom --------------------------------
(***************************************************************************)
(* The order in which the descheduler evicts the surplus pods of one       *)
(* topology value.  A pod is a number, which stands for its name; phases   *)
(* gives the status.phase of each.                                         *)
(***************************************************************************)
EXTENDS Integers

Phases == {"Pending", "Running", "Succeeded", "Failed"}

(* Slip: the phase of the second pod is not looked at. *)
LessByOwnPhase(phases, p, q) ==
  phases[p] \in {"Failed", "Succeeded", "Pending"} \/ p < q

Idle(phases, p) == phases[p] \in {"Failed", "Succeeded", "Pending"}

(* ByCostom.Less: an idle pod is less than any pod, another idle one       *)
(* included; running pods go by name.                                      *)
Less(phases, p, q) == Idle(phases, p) \/ (~ Idle(phases, q) /\ p < q)

(* Which pod of S is evicted next: an idle one if there is any, otherwise  *)
(* the running one with the first name.  EvictionOrder checks that sorting *)
(* by Less comes to this.                                                  *)
FirstOf(phases, S) ==
  {p \in S : Idle(phases, p) \/ \A q \in S \ {p} : ~ Idle(phases, q) /\ p < q}

===============================================================================
