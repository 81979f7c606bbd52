SPECIFICATION Spec
CONSTANTS
  Procs = {"p1", "p2", "p3"}
  Inits = {"init", "init2"}
  Daemons = {"node"}
  KeySetters = {"set", "set2"}
  Cloners = {"other"}
  InPlace = {"edit"}
  Keys = {"k1", "k2"}
  ClosesTwice = TRUE
  RefMod = 8
  MaxOpens = 3
  Faults = {"crash", "write", "dsclose"}
  MaxFaults = 1
  ProcOf <- MCProcOf
  Edit <- MCEdit
  InitProcs = {"i", "j"}
  NoIdentity = "none"
  CHandlers = {"a", "b"}
  CRequests <- MCConfigRequests
  MaxRequests = 3
  CWriteFaults = {"open", "encode", "close"}
  JNums <- MCNums
  JStrings = {"", "null", "default", "1h", "0s", "-1ns", "1ns", "5ns", "5GiB", "x"}
  Durations <- MCDurations
  Sizes <- MCSizes
  Domains = {".", "eth."}
  AutoData <- MCData
  MaxList = 2
  Fanouts = {0, 7, 8, 12, 512, 1024, 2048}
  FNeeded = {"m", "n"}
  Gateways = {1, 2}
  FullLoops = 2
  FUsers = {"u", "v"}
  Updaters = {"u", "v"}
  MaxVersion = 3
  MaxUpdates = 3
INVARIANTS
  UsableWhileHeld  InitSafe   FetchSafe UpdateSafe
CHECK_DEADLOCK FALSE
