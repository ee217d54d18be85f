\* Three processes that come, wait, hold, back out, give up and go.
CONSTANTS
  h1 = h1  h2 = h2  h3 = h3  none = none
  Holders = {h1, h2, h3}
  NoHolder = none
  Modes <- TwoAndOne
SPECIFICATION FairSpec
INVARIANTS
  ExclusionWhileAlive
  NoOrphan
PROPERTIES
  AloneServed
\* Every process may have gone.
CHECK_DEADLOCK FALSE
