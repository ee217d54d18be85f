------------------------------ MODULE MCCollector ------------------------------
(***************************************************************************)
(* Instances of Collector for TLC.                                         *)
(***************************************************************************)
EXTENDS Collector, TLC

CONSTANTS Manifest, Segment

\* A collection of one segment.
NamesOf == [o \in Objects |-> IF o = Manifest THEN {Segment} ELSE {}]

\* The refs do alike, and so do the writers and the collectors.
Alike == Permutations(Refs) \union Permutations(Writers) \union Permutations(Collectors)

=============================================================================
