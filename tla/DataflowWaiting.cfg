\* A fair run filtered to g, its inputs perhaps unassigned until it is under way.
CONSTANTS
  a = a  b = b  e = e  f = f  g = g  h = h  p1 = p1  p2 = p2  none = none
  Tasks = {e, f, g, h}
  Inputs = {a, b}
  Reads <- Waits
  Filter = g
  NoFilter = none
  MaxValue = 2
  Forced = {f}
  Procs = {p1}
  Starters = {p1}
  NoProc = none
  Width = 2
  MaxSets = 2
  Reuse = FALSE
  CanFail = {}
  CanThrow = FALSE
  CanYield = FALSE
  CanCancel = FALSE
  CanCrash = FALSE
SPECIFICATION FairSpec
INVARIANTS
  WaitingHasCause
  FilterHolds
PROPERTIES
  RunsEnd
\* A workspace whose runs have ended is at rest.
CHECK_DEADLOCK FALSE
