------------------------------ MODULE MCRecords ------------------------------
(* Instances of Records and RecordsTorn. *)
EXTENDS RecordsTorn, TLC

CONSTANTS m1, m2, m3, k, r1, o1

\* m2 repeats m1 under its key; m3 has none.
RetryAndOther == (m1 :> k) @@ (m2 :> k) @@ (m3 :> NoKey)

\* The migrations keep the type, as a rekey may.
SameType == [n \in 0..3 |-> "orders"]

\* A package, one that migrates and indexes the record, and one that goes as far
\* as the first under another index and declares no initial value.
Plain == [chain |-> 1, index |-> NoIndex, initial |-> TRUE]
Migrated == [chain |-> 3, index |-> "byName", initial |-> TRUE]
Unset == [chain |-> 1, index |-> "byDate", initial |-> FALSE]
ThreePackages == {Plain, Migrated, Unset}

Alike == Permutations({m1, m2}) \union Permutations(Keepers) \union Permutations(Operators)
=============================================================================
