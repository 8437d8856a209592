SPECIFICATION Spec
CONSTANTS
  Machines = {m1}
  Instances = {i1}
  Workers = {w1}
  None = None
  OwnerName <- SameName
  InfraName <- SameName
  Specs <- MixedSpecs
  Ripe = FALSE
  TokensExpire = FALSE
  MaxFaults = 1
  MaxPauses = 1
INVARIANTS
  TypeOK
  GuardedNotStranded
  HardenAfterJoin
\* At rest: nothing to reconcile, or the machine is gone.
CHECK_DEADLOCK FALSE
