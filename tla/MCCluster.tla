------------------------------ MODULE MCCluster ------------------------------
(* The cluster controller for TLC: the ports on both sides of the webhook's  *)
(* bounds, and its limit of admitted lists.                                  *)
EXTENDS ClusterController

MCPorts == {0, 6443, 65536}
=============================================================================
