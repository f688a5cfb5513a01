----------------------------- MODULE MCPreemption ------------------------------
(***************************************************************************)
(* p1 may preempt p2 and p3, p2 may preempt p3; p2 may use n2 only.        *)
(***************************************************************************)
EXTENDS Preemption, MCTopologyScheduling

InOrder == [p \in Pods |-> CASE p = p1 -> 2 [] p = p2 -> 1 [] OTHER -> 0]

P2OnN2 == [p \in Pods |-> IF p = p2 THEN {n2} ELSE Nodes]

(* n2 moves between the zones: while it is in za nothing is in zb. *)
SwingingN2 == [n \in Nodes |-> IF n = n1 THEN {At(za)} ELSE {At(za), At(zb)}]

(* Two pods in za, one in zb. *)
Fill21 == Policy(zone, <<Entry(za, 2), Entry(zb, 1)>>, "Fill", Pods)
Fill21or12 == OneOf({Fill21, Fill12})
===============================================================================
