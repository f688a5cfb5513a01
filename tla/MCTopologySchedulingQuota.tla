---------------------- MODULE MCTopologySchedulingQuota -----------------------
(***************************************************************************)
(* The instances of MCTopologyScheduling, watched under one policy.        *)
(***************************************************************************)
EXTENDS MCTopologyScheduling, TopologySchedulingQuota
===============================================================================
