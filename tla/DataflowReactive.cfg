\* One run, its input set twice while tasks read, run, fail and complete.
CONSTANTS
  a = a  b = b  e = e  f = f  g = g  h = h  p1 = p1  p2 = p2  none = none
  Tasks = {e, f, g, h}
  Inputs = {a}
  Reads <- Side
  Filter = none
  NoFilter = none
  MaxValue = 3
  Forced = {}
  Procs = {p1}
  Starters = {p1}
  NoProc = none
  Width = 2
  MaxSets = 2
  Reuse = FALSE
  CanFail = {f, g}
  CanThrow = FALSE
  CanYield = FALSE
  CanCancel = FALSE
  CanCrash = FALSE
SPECIFICATION Spec
INVARIANTS
  TypeOK
  Fixpoint
  SlotsAgree
  CountersAgree
  NeverStuck
  FailureBlocks
\* A workspace whose runs have ended is at rest.
CHECK_DEADLOCK FALSE
