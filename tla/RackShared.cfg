SPECIFICATION MCSpec
CHECK_DEADLOCK FALSE
CONSTANTS
  Racks = {r1, r2}
  Sessions = {s1, s2}
  Leases = {l1, l2}
  NoRack = NoRack
  NoSession = NoSession
  NoLease = NoLease
  MaxAttempts = 2
  MaxFaults = 2
INVARIANTS TypeOK OutcomeOfAttempt ToldTheEnd NobodyWaits Attended
PROPERTIES Delegates
SYMMETRY Alike
