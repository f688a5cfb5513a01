--------------------------- MODULE MCPolicyInformer ---------------------------
(***************************************************************************)
(* One policy in each of two namespaces.                                   *)
(***************************************************************************)
EXTENDS PolicyInformer
===============================================================================
