------------------------------- MODULE Cluster -------------------------------
(* The nodes of a cluster, by their ids (NODE_ID). *)
CONSTANT Node
=============================================================================
