SPECIFICATION MCFairSpec
CHECK_DEADLOCK FALSE
CONSTANTS
  Racks = {r1, r2}
  Sessions = {s1, s2}
  Leases = {l1}
  NoRack = NoRack
  NoSession = NoSession
  NoLease = NoLease
  MaxAttempts = 2
  MaxFaults = 2

PROPERTIES QuietRackLetsGo DeadLeaves
