-------------------------------- MODULE MCBudget --------------------------------
(***************************************************************************)
(* Instances of Budget for TLC: two units of a split task, and a task or a  *)
(* detached call, which reserves nothing.                                  *)
(***************************************************************************)
EXTENDS Budget

CONSTANTS u1, u2, t

TwoUnits == [c \in Executions |-> IF c = t THEN "call" ELSE "unit"]
TwoAsk == [c \in Executions |-> IF c = t THEN {0} ELSE {1}]
TwoUse == [c \in Executions |-> IF c = u1 THEN {2} ELSE IF c = u2 THEN {3} ELSE {0}]

=============================================================================
