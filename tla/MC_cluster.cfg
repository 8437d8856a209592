SPECIFICATION FairSpec
CONSTANTS
  Zones = {z1, z2}
  VSwitches = {v1}
  Hosts = {h1}
  Blank = Blank
  Ports <- MCPorts
  WorkerZone = z1
  MaxDomains = 2
  MaxEdits = 1
  MaxFaults = 1
INVARIANTS
  ClusterTypeOK
  ReadyIsReachable
  DomainsUnambiguous
PROPERTIES
  DomainsPublished
  ReadyReached
  ClusterDeletionCompletes
  ImplementsInfraCluster
\* At rest: nothing to reconcile, or the cluster is gone.
CHECK_DEADLOCK FALSE
