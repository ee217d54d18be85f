\* Fair loops of two processes: runs that yield, fail or throw, and their ends.
CONSTANTS
  a = a  b = b  e = e  f = f  g = g  h = h  p1 = p1  p2 = p2  none = none
  Tasks = {f, g}
  Inputs = {a}
  Reads <- Join
  Filter = none
  NoFilter = none
  MaxValue = 2
  Forced = {}
  Procs = {p1, p2}
  Starters = {p1}
  NoProc = none
  Width = 2
  MaxSets = 0
  Reuse = FALSE
  CanFail = {f}
  CanThrow = TRUE
  CanYield = TRUE
  CanCancel = TRUE
  CanCrash = FALSE
SPECIFICATION FairSpec
PROPERTIES
  RunsEnd
  StoreByHolder
  FollowsLifecycle
\* A workspace whose runs have ended is at rest.
CHECK_DEADLOCK FALSE
