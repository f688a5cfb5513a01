--------------------------- MODULE MCSuperScheduling ---------------------------
(***************************************************************************)
(* The cluster of MCDescheduler with the scheduler plugin.                 *)
(***************************************************************************)
EXTENDS SuperScheduling, MCDescheduler

(* With three pods one is a surplus pod. *)
NoneTwo == [q \in PolicyNames |-> {Quotas(0, 2)}]
===============================================================================
