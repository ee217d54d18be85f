\* Two refs, a writer and a run that may die once, and the gc that holds the
\* repository. The window is as short as it may be for a write and a run of a
\* unit each.
CONSTANTS
  Manifest = Manifest
  Segment = Segment
  Objects = {Manifest, Segment}
  Names <- NamesOf
  Refs = {r1, r2}
  Targets = {Manifest}
  NoObject = NoObject
  Writers = {w1}
  Collectors = {g1}
  Window = 4
  MinAge = 1
  WriteTime = 1
  RunTime = 1
  MaxDeaths = 1
SPECIFICATION Spec
INVARIANTS FoundKept 
 
SYMMETRY Alike
