--------------------------- MODULE MCNodesHistory ---------------------------
(* NodesHistory on the instances of MCNodesManagement. *)
EXTENDS NodesHistory, MCNodesManagement
=============================================================================
