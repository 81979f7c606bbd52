CONSTANTS
  TreePaths <- MCPaths
  StartTrees <- MCStart
  Texts = {"", "x"}
  Fds = {"d1"}
  Fids = {1, 2, 3, 4, 5}
  MaxNamespace = 2
  MaxMfsFaults = 1
  Callers = {"c1", "c2"}
  FileDirs = {"a", "b"}
  FileNames <- MCFileNames
  NoFlushLimit = 1
  MaxFileOps = 2
  Kinds = {"ipns", "mfs"}
  MountCalls = {"m1", "m2"}
  MaxMounts = 2
  MaxMountFaults = 1
SPECIFICATION Spec
CHECK_DEADLOCK FALSE
INVARIANTS  FilesSafe MountsSafe
