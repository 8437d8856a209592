SPECIFICATION Spec
CONSTANTS
  Machines = {m1, m2}
  Instances = {i1, i2}
  Workers = {w1}
  None = None
  OwnerName <- SameName
  InfraName <- SameName
  Specs <- PlainSpec
  Ripe = TRUE
  TokensExpire = FALSE
  MaxFaults = 0
  MaxPauses = 0
INVARIANTS
  OwnHandles
  DeletesOwnInstance
\* At rest: nothing to reconcile, or the machine is gone.
CHECK_DEADLOCK FALSE
