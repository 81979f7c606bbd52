SPECIFICATION Spec
CONSTANTS
  AArgs = 2
  AEvents = 3
  AChanSize = 2
  PinArgs = 2
  MaxTicks = 1
  PinRoots = 3
  LNodes = {"a", "b", "c"}
  LLinks <- MCChain
  MaxRepins = 2
  Dags <- MCDags
  RootSeqs <- MCRoots
  Gone = {{}, {4}}
  MaxFile = 3
  PipeChunks = 2
  LsEntries = 2
  INodes = {"a", "b", "c"}
  ILinks <- MCChain
  MaxCarBlocks = 4
  MaxCars = 2
  BatchMax = 2
  StreamItems = 2
  FileSize = 4
  ForwardLimit = 3
  BBlocks = {"a", "b"}
  BBig = {"b"}
  BMaxArgs = 2
  BMaxOthers = 1
  VBlocks = {"x", "y"}
  VNet = {"x"}
  VWorkers = {"v", "w"}
  GcEvents = 2
INVARIANTS    DagExact StreamsWhole 
PROPERTIES CommandsEnd
CHECK_DEADLOCK FALSE
