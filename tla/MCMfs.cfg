SPECIFICATION Spec
CONSTANTS
  e = e
  k1 = k1
  f1 = f1
  f2 = f2
  d1 = d1
  d2 = d2
  raw = raw
  m = m
  l = l
  Cids <- MfsCids
  Blocks <- MCBlocks
  Links <- MCLinks
  Mh <- MCMh
  Procs <- MCProcs
  Collectors = {g1}
  Removers = {}
  Adders = {}
  Clients = {c1}
  Plan <- MCPlan
  EmptyDir = e
  Jobs <- MfsJobs
  RmTargets = {}
  Fetchable = {l}
  Unreadable = {"files", "ipns"}
  Trees <- FilesAndIpns
  FilesRoot = "files"
  InitTree <- MCInitTree
  InitStore <- StoreEmptyDir
INVARIANTS GCExact FilesKept
