CONSTANTS
  u1 = u1  u2 = u2  t = t
  Executions = {u1, u2, t}
  Kind <- TwoUnits
  Asks <- TwoAsk
  Uses <- TwoUse
  Cores = 2
  Memory = 2
  Bypass = 1
  CapFloor = 1
  MaxLows = 1
SPECIFICATION FairSpec
INVARIANTS Capacity OneAtATime
PROPERTIES NotPassed Drains
