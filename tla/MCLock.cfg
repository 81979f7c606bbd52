SPECIFICATION FairSpec
CONSTANTS
  e = e
  k1 = k1
  f1 = f1
  f2 = f2
  d1 = d1
  d2 = d2
  raw = raw
  m = m
  l = l
  Cids <- LockCids
  Blocks <- MCBlocks
  Links <- MCLinks
  Mh <- MCMh
  Procs <- MCProcs
  Collectors = {g1}
  Removers = {r1}
  Adders = {a1}
  Clients = {c1}
  Plan <- MCPlan
  EmptyDir = e
  Jobs <- LockJobs
  RmTargets = {{f2}}
  Fetchable = {}
  Unreadable = {"files"}
  Trees <- FilesOnly
  FilesRoot = "files"
  InitTree <- MCInitTree
  InitStore <- StoreEmptyDir
PROPERTIES LocksGranted
