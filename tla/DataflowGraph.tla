--------------------------- MODULE DataflowGraph ---------------------------
(***************************************************************************)
(* The dependency graph of a workspace's dataflow, and the graph queries   *)
(* the orchestrators share (e3-core/src/dataflow.ts).                      *)
(*                                                                         *)
(* A task's output dataset is identified with the task, so a dataset is a  *)
(* root input or a task, and Reads says which datasets a task is given.    *)
(* The queries are worklist traversals in the code; here each is the least *)
(* set the traversal computes.                                             *)
(***************************************************************************)
EXTENDS Integers, FiniteSets

CONSTANTS
  Tasks,     \* the task names of the deployed package
  Inputs,    \* its root input datasets: those no task writes
  Reads,     \* Reads[t]: the datasets task t reads
  Filter,    \* the run's --filter: one task's name, or NoFilter
  NoFilter

Datasets == Tasks \union Inputs

\* Readers of a dataset among X, never in Avoid, reached from Start.  The
\* smallest set closed under "reads something reached": what a worklist that
\* does not traverse Avoid visits.
Cone(Start, Avoid) ==
  {t \in Tasks \ Avoid :
     \A X \in SUBSET Tasks :
       (\A u \in Tasks \ Avoid : Reads[u] \cap (Start \union X) # {} => u \in X)
         => t \in X}

ASSUME GraphAssumption ==
  /\ IsFiniteSet(Tasks) /\ IsFiniteSet(Inputs)
  /\ Tasks \cap Inputs = {}
  /\ Reads \in [Tasks -> SUBSET Datasets]
  /\ \A t \in Tasks : Reads[t] # {}
  /\ Filter \in Tasks \union {NoFilter}
  /\ NoFilter \notin Tasks

\* The code builds the graph from a package, whose export refuses a cycle.
ASSUME AcyclicAssumption == \A t \in Tasks : t \notin Cone({t}, {})

\* dependsOn: the tasks whose outputs a task reads.
DependsOn(t) == Reads[t] \cap Tasks

\* Every task downstream of a changed root input.
FindAffectedTasks(changed) == Cone(changed, {})

\* Tasks not yet completed all of whose dependencies are.
GetReadyTasks(completed) ==
  {t \in Tasks \ completed : DependsOn(t) \subseteq completed}

\* The dependents a task's failure (or wait) reaches: the traversal stops at
\* a completed task, and passes through a settled one without naming it.
GetDependentsToSkip(t, completed, settled) == Cone({t}, completed) \ settled

\* A target and everything it transitively depends on.
GetDependencyClosure(target) ==
  {t \in Tasks : t = target \/ target \in Cone({t}, {})}

\* The tasks a run may schedule.
RunSet == IF Filter = NoFilter THEN Tasks ELSE GetDependencyClosure(Filter)
=============================================================================
