SPECIFICATION Spec
CONSTANTS
  RBlocks = 3
  RProviders = 3
  REvents = 2
  Stale = {1, 2, 3}
  PurgeBatch = 2
  MaxStarts = 3
  RNames = {"a", "b", "c"}
  REndpoints <- MCEndpoints
  Locals = {"l1", "l2"}
  Remotes = {"r1", "r2"}
  Ins = {"in"}
  Outs = {"out"}
  Users = {"u"}
  Key <- MCKey
  ListenerOf <- MCListenerOf
  PeerOf <- MCPeerOf
  Forwards = {"f"}
  Services = {"s", "t"}
  FwdAddrs = {"a"}
  SvcProtos = {"x"}
  SwarmArgs = 2
  SwarmPeers = {"p", "q"}
  FilterArgs <- MCFilterArgs
  FilterJunk = {"j"}
  FilterCmds = {1, 2}
  MaxFilterCmds = 2
  AnnIps = {"x"}
  AnnTransports = {"t", "u"}
  MaxAddrChanges = 2
  AnnLists <- MCAnnLists
  PinServices = {"s1"}
  SvcConfigs <- MCSvcConfigs
  NewConfig <- Off
  Roots = {"a", "b"}
  InitConfigs <- MCInitConfigs
  InitRoot = "a"
  AddCids = {"a"}
  Waiters = {"w"}
  Removals = {"rm"}
  Filter <- MCFilter
  RequestIDs = {1, 2, 3, 4, 5, 6}
  MaxEdits = 1
  MaxFaults = 1
INVARIANTS StreamsSafe RemoteSafe P2PSafe  
PROPERTIES NetworkProgress RootPinned
CHECK_DEADLOCK FALSE
