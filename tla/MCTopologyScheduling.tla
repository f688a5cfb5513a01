------------------------ MODULE MCTopologyScheduling --------------------------
(***************************************************************************)
(* Small clusters for TLC: pods p1 to p4, nodes n1 to n3, the zones za and *)
(* zb, one or two policies.  Each .cfg picks one of the                    *)
(* definitions below for every constant.                                   *)
(***************************************************************************)
EXTENDS TopologyScheduling

CONSTANTS p1, p2, p3, p4, n1, n2, n3, zone, oldzone, za, zb, pa, pb

At(v) == [k \in Keys |-> v]
Entry(name, replicas) == [name |-> name, replicas |-> replicas]
Policy(key, placement, strategy, selector) ==
  [topologyKey |-> key, deployPlacement |-> placement,
   scheduleStrategy |-> strategy, labelSelector |-> selector]

(* Which policy a pod names. *)
AllUnderPa == [p \in Pods |-> pa]
P3UnderPb == [p \in Pods |-> IF p = p3 THEN pb ELSE pa]
P3Free == [p \in Pods |-> IF p = p3 THEN Nil ELSE pa]

(* Node selectors, and what the rest of the profile accepts. *)
AnyNode == [p \in Pods |-> Nodes]
P1OnN1 == [p \in Pods |-> IF p = p1 THEN {n1} ELSE Nodes]

(* Nodes that stay as they are: n1 in za, n2 in zb, n3 (if any) unlabelled. *)
FixedNodes == [n \in Nodes |-> CASE n = n1 -> {At(za)} [] n = n2 -> {At(zb)}
                                 [] OTHER -> {At(Nil)}]
(* n2 moves from zone to zone, loses its label, or is removed. *)
MovingN2 == [n \in Nodes |-> CASE n = n1 -> {At(za)}
                               [] n = n2 -> {At(za), At(zb), At(Nil), Nil}
                               [] OTHER -> {At(zb)}]

Fill12 == Policy(zone, <<Entry(za, 1), Entry(zb, 2)>>, "Fill", Pods)
(* za is listed twice; its last entry counts. *)
Repeated == Policy(zone, <<Entry(za, 3), Entry(zb, 1), Entry(za, 1)>>, "Fill", Pods)
(* One pod in zb, then a surplus that may go anywhere. *)
NoneInZa == Policy(zone, <<Entry(za, 0), Entry(zb, 1)>>, "Fill", Pods)
(* The selector leaves p2 out. *)
Balance22Less == Policy(zone, <<Entry(za, 2), Entry(zb, 2)>>, "Balance", Pods \ {p2})
Balance22 == Policy(zone, <<Entry(za, 2), Entry(zb, 2)>>, "Balance", Pods)

(* The topology key itself is edited, from one zone label to another that  *)
(* every node carries with the same value, as the deprecated zone label.   *)
UnderKey(k) == Policy(k, <<Entry(za, 1), Entry(zb, 2)>>, "Fill", Pods)

OneOf(S) == [q \in PolicyNames |-> S]
OnlyNoneInZa == OneOf({NoneInZa})
EitherKey == OneOf({UnderKey(k) : k \in Keys})
OnlyFill12 == OneOf({Fill12})
OnlyBalance22 == OneOf({Balance22})
(* Two policies that count the same pods. *)
SamePods == [q \in PolicyNames |-> IF q = pa THEN {Fill12} ELSE {Repeated}]
EditedPolicy == OneOf({Fill12, Balance22Less, Nil})
===============================================================================
