SPECIFICATION Spec
CONSTANTS
  Machines = {m1}
  Instances = {i1, i2}
  Workers = {w1, w2}
  None = None
  OwnerName <- SameName
  InfraName <- SameName
  Specs <- PlainSpec
  Ripe = TRUE
  TokensExpire = FALSE
  MaxFaults = 0
  MaxPauses = 0
SYMMETRY Symmetric
INVARIANTS
  AtMostOneInstance
  HandlesAgree
\* At rest: nothing to reconcile, or the machine is gone.
CHECK_DEADLOCK FALSE
