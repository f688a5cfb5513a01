---------------------------- MODULE MCDescheduler -----------------------------
(***************************************************************************)
(* A small cluster for TLC: three pods; n1 is in zone za, n2 in zb.        *)
(***************************************************************************)
EXTENDS Descheduler

CONSTANTS p1, p2, p3, n1, n2, zone, za, zb, pa

Zones == [n \in Nodes |-> {[k \in Keys |-> IF n = n1 THEN za ELSE zb]}]

Quotas(a, b) ==
  [topologyKey     |-> zone,
   deployPlacement |-> <<[name |-> za, replicas |-> a], [name |-> zb, replicas |-> b]>>,
   labelSelector   |-> Pods]

OneTwo == [q \in PolicyNames |-> {Quotas(1, 2)}]
===============================================================================
