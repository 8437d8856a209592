----------------------------- MODULE InfraCluster -----------------------------
(***************************************************************************)
(* What the machine controller sees of its AlibabaCloudCluster, and all it *)
(* may rely on: Status.Ready and whether the failure domain of a Machine   *)
(* is published.  MachineController takes these steps as its environment;  *)
(* ClusterController implements them.                                      *)
(***************************************************************************)
VARIABLE infra

Init == infra = "notReady"

BecomesReady == infra = "notReady" /\ infra' \in {"noDomain", "ready"}

DomainAppears == infra = "noDomain" /\ infra' = "ready"

\* An administrator takes the zone off the list.
DomainGoes == infra = "ready" /\ infra' = "noDomain"

Next == BecomesReady \/ DomainAppears \/ DomainGoes

Spec == Init /\ [][Next]_infra
=============================================================================
