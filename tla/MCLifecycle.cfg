SPECIFICATION Spec
CONSTANTS
  MaxLen = 4
  UpgradeConfigs <- MCUpgradeConfigs
  MigDaemons = {"d"}
  Users = {"u"}
  Born = {15, 16, 17}
  Requests <- MCMigRequests
  TornWrites = TRUE
  MaxMigFaults = 2
  Latest = 18
  EmbeddedMin = 16
  Embedded = {16, 17}
  MigConfigs <- MCMigConfigs
  Convert <- MCConvert
  ApiListeners <- MCApiListeners
  GwListeners = {"g"}
  CorePlugins = {"p", "q"}
  Programs = {"p1", "p2"}
  Setters = {"t"}
  Sweepers = {"g"}
  Procs <- MCProcs
INVARIANTS UpgradeSafe OpenSeesMigrated DaemonSafe LocksProgress
PROPERTIES RevertRestores EventuallyOpen ShutdownEnds
CHECK_DEADLOCK FALSE
