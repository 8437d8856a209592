SPECIFICATION Spec
CONSTANTS
  Machines = {m1}
  Instances = {i1}
  Workers = {w1}
  None = None
  OwnerName <- SameName
  InfraName <- SameName
  Specs <- NoRegionSpec
  Ripe = FALSE
  TokensExpire = FALSE
  MaxFaults = 0
  MaxPauses = 0
PROPERTIES
  ShortcutIsSound
\* At rest: nothing to reconcile, or the machine is gone.
CHECK_DEADLOCK FALSE
