-------------------------------- MODULE MCRack --------------------------------
(***************************************************************************)
(* Two sessions that ask for the same work, two racks that may run it, the *)
(* lease they share and the one that follows it.                           *)
(***************************************************************************)
EXTENDS Rack, TLC

CONSTANT MaxFaults \* bound on the racks deregistered, the processes dead and
                   \* the leases there are

Alike == Permutations(Racks) \union Permutations(Sessions) \union Permutations(Leases)

Faults == Cardinality(Racks \ registered) + Cardinality({s \in Sessions : ~session[s].alive})
            + Cardinality({l \in Leases : lease[l].status # "none"})

MCSpec == Init /\ [][Next /\ Faults' <= MaxFaults]_vars
MCFairSpec == MCSpec /\ Fairness
=============================================================================
