\* A process dies at any step, or its store refuses, and another resumes its run.
CONSTANTS
  a = a  b = b  e = e  f = f  g = g  h = h  p1 = p1  p2 = p2  none = none
  Tasks = {f, g}
  Inputs = {a}
  Reads <- Join
  Filter = none
  NoFilter = none
  MaxValue = 2
  Forced = {}
  Procs = {p1, p2}
  Starters = {p1, p2}
  NoProc = none
  Width = 2
  MaxSets = 2
  Reuse = FALSE
  CanFail = {f}
  CanThrow = TRUE
  CanYield = FALSE
  CanCancel = TRUE
  CanCrash = TRUE
SPECIFICATION Spec
INVARIANTS
  StoreNeverAhead
  Settled
  ActiveOwnsStore
  EndRecorded
\* A workspace whose runs have ended is at rest.
CHECK_DEADLOCK FALSE
