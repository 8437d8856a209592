SPECIFICATION FairSpec
CONSTANTS
  Machines = {m1}
  Foreign = {f1}
  Legacy = {m1}
  Addresses = {a1}
  None = None
  MaxFaults = 1
INVARIANTS
  CSRTypeOK
  BootstrapHasMachine
  ServingMatchesNode
PROPERTIES
  BootstrapIsAwaited
  NodesJoin
  NodesServe
  DecidedIsLeft
\* At rest: every Node has its certificates.
CHECK_DEADLOCK FALSE
