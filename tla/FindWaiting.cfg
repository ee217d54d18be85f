\* A waiting task misses the assignment it waits for.
CONSTANTS
  a = a  b = b  e = e  f = f  g = g  h = h  p1 = p1  p2 = p2  none = none
  Tasks = {e, f, g, h}
  Inputs = {a, b}
  Reads <- Waits
  Filter = none
  NoFilter = none
  MaxValue = 2
  Forced = {}
  Procs = {p1}
  Starters = {p1}
  NoProc = none
  Width = 2
  MaxSets = 1
  Reuse = FALSE
  CanFail = {}
  CanThrow = FALSE
  CanYield = FALSE
  CanCancel = FALSE
  CanCrash = FALSE
SPECIFICATION Spec
INVARIANTS
  WaitsForUnassigned
\* A workspace whose runs have ended is at rest.
CHECK_DEADLOCK FALSE
