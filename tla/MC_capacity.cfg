SPECIFICATION FairSpec
CONSTANTS
  Callers = {w1, w2}
  throttleMaxRetries = 2
  throttleBaseDelay = 2
  throttleMaxDelay = 3
  Templates = {t1, t2}
  Types = {"g6", "r6"}
  CpuCoreCount <- Cores
  MemorySize <- GiB
  NewTemplates <- Pools
  MaxEdits = 1
  MaxFaults = 1
  None = None
INVARIANTS
  TemplateTypeOK
  KnownIsStatic
  RetryBudget
PROPERTIES
  RetriedIfThrottled
  BackoffGrows
  CapacityFollows
\* At rest: every capacity is published.
CHECK_DEADLOCK FALSE
