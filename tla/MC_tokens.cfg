SPECIFICATION Spec
CONSTANTS
  Machines = {m1}
  Instances = {i1, i2}
  Workers = {w1}
  None = None
  OwnerName <- SameName
  InfraName <- SameName
  Specs <- PlainSpec
  Ripe = TRUE
  TokensExpire = TRUE
  MaxFaults = 4
  MaxPauses = 0
SYMMETRY Symmetric
INVARIANTS
  OneLiveInstance
  ReadyAtRestBinds
PROPERTIES
  IdentityIsStable
  ImplementsInfraMachine
\* At rest: nothing to reconcile, or the machine is gone.
CHECK_DEADLOCK FALSE
