SPECIFICATION FairSpec
CONSTANTS
  UserSpecs <- Submitted
  FailureDomain = "zone-a"
  DomainVSwitch = "vsw-a"
  Region = "region"
  None = None
  Gone = Gone
  MaxEdits = 3
  MaxFaults = 3
INVARIANTS
  StoredIsReadmissible
  LaunchedIsValid
  SpecDefinesInstance
PROPERTIES
  ProviderIDPersists
  FinalizerGoes
\* At rest: the machine is provisioned or gone.
CHECK_DEADLOCK FALSE
