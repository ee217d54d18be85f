\* Two calls of one key and one of none, an operator, and deploys.
CONSTANTS
  m1 = m1  m2 = m2  m3 = m3  k = k  r1 = r1  o1 = o1
  Calls = {m1, m2, m3}
  Keepers = {r1}
  Operators = {o1}
  KeyOf <- RetryAndOther
  NoKey = NoKey
  NoPackage = NoPackage
  NoIndex = NoIndex
  Packages <- ThreePackages
  TypeAt <- SameType
  MaxDeploys = 2
SPECIFICATION Spec
INVARIANTS
  AppliedOnce
  SlotsInChain
  IndexAgrees
  AtItsSchema
PROPERTIES
  NotOverUnseen
  ActsAtomically
\* Every call ends, and so do the deploys.
CHECK_DEADLOCK FALSE
SYMMETRY Alike
