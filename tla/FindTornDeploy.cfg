\* A deploy that dies between its wipe and the commit of the record it keeps.
CONSTANTS
  m1 = m1  m2 = m2  m3 = m3  k = k  r1 = r1  o1 = o1
  Calls = {m1, m2, m3}
  Keepers = {}
  Operators = {}
  KeyOf <- RetryAndOther
  NoKey = NoKey
  NoPackage = NoPackage
  NoIndex = NoIndex
  Packages <- ThreePackages
  TypeAt <- SameType
  MaxDeploys = 3
SPECIFICATION TornSpec
PROPERTIES
  NeverReminted
\* Every call ends, and so do the deploys.
CHECK_DEADLOCK FALSE
