---------------------------- MODULE MCMultiCluster ----------------------------
(***************************************************************************)
(* Cluster a with inner nodes a1 and a2, cluster b with b1; a1, b1 and the *)
(* real node vr are in the same zone.  va and va2 lead to a, vb to b.  The *)
(* profile's own data keep p1 from vr; no cluster has data about p1.  p2   *)
(* selects all inner nodes, spreads, avoids an earlier self that a cache   *)
(* may still show, and is kept from a zone by a pod of cluster b.          *)
(***************************************************************************)
EXTENDS MultiCluster

CONSTANTS p1, p2, va, va2, vb, vr, a, b, a1, a2, b1, z1, z2

ClusterOfNode == [n \in Nodes |-> CASE n \in {va, va2} -> a [] n = vb -> b [] OTHER -> Nil]
ZoneOfNode == [n \in Nodes |-> IF n = vr THEN z1 ELSE Nil]
HomeOf == [i \in InnerNodes |-> IF i = b1 THEN b ELSE a]
InZone == [i \in InnerNodes |-> IF i = a2 THEN z2 ELSE z1]
CandidatesOf == [p \in Pods |-> IF p = p2 THEN {va, va2, vb} ELSE {va, vr}]
OwnDataOf == [p \in Pods |-> IF p = p1 THEN {z1} ELSE {}]
SelectionOf == [p \in Pods |-> InnerNodes]
AvoidsSelf == [p \in Pods |-> {p}]
RepelledBy == [c \in Clusters |-> [p \in Pods |-> IF c = b /\ p = p2 THEN {z1} ELSE {}]]
===============================================================================
