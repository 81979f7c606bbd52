SPECIFICATION Spec
CONSTANTS
  PStrategies = {"s", "t"}
  MaxInterval = 1
  MaxOrphans = 1
  AlertAfter = 3
  MaxRegions = 2
  OnceLinks <- MCOnceLinks
  KNames = {"a", "b"}
  KCallers = {"c", "d"}
  MaxKeys = 2
  MaxHops = 2
  DefaultTtl = 2
  Callers = {"c", "d"}
  FRepos = {"r"}
  Crates = {"x"}
  RefWrap = 16
  MaxFCalls = 3
  MaxOthers = 1
  MaxHandles = 2
  MaxServes = 1
  Collectors = {"A", "B"}
  MaxUuids = 2
INVARIANTS  KeysSafe  
CHECK_DEADLOCK FALSE
