--------------------------- MODULE DataflowSteps ---------------------------
(***************************************************************************)
(* The step functions of a resumable dataflow run                          *)
(* (e3-core/src/dataflow/steps.ts), as transformers of the run's state.    *)
(* Each takes the state a step function is given and returns the one it    *)
(* leaves; the orchestrator (module Dataflow) decides when each is called. *)
(*                                                                         *)
(* A version of a root input is a pair <<input, value>>.  A version vector *)
(* (VersionVector, a map from root inputs to hashes) is a set of versions, *)
(* and it is a map when it holds one version of each input.                *)
(***************************************************************************)
EXTENDS DataflowGraph

CONSTANTS
  MaxValue,  \* bound: a root input's values are 1..MaxValue
  Forced     \* the tasks the run re-executes whatever the cache holds

ASSUME StepsAssumption == MaxValue \in Nat /\ Forced \subseteq Tasks

Unassigned == 0
Values     == 1..MaxValue
Versions   == Inputs \X Values

TaskStatus == {"pending", "ready", "in_progress", "completed", "failed",
               "skipped", "deferred", "waiting"}
RunStatus  == {"running", "completed", "failed", "cancelled"}

\* What a store keeps of a run: DataflowExecutionState without its events,
\* graph, times and messages.  versionVectors of root inputs always mirror
\* inputSnapshot, so only those of task outputs are kept (vv).
ExecutionState ==
  [status   : RunStatus,
   task     : [Tasks -> TaskStatus],
   hit      : [Tasks -> BOOLEAN],          \* TaskState.cached
   snapshot : [Inputs -> Values \union {Unassigned}],
   vv       : [Tasks -> SUBSET Versions],
   executed : Int, cached : Int, failed : Int, skipped : Int]

TasksIn(s, statuses) == {t \in Tasks : s.task[t] \in statuses}
SetTasks(s, ts, status) ==
  [s EXCEPT !.task = [t \in Tasks |-> IF t \in ts THEN status ELSE s.task[t]]]

-----------------------------------------------------------------------------
(* Version vectors (dataset-refs.ts)                                       *)

VersionOf(i, v) == IF v = Unassigned THEN {} ELSE {<<i, v>>}
VersionVector(s, d) ==
  IF d \in Inputs THEN VersionOf(d, s.snapshot[d]) ELSE s.vv[d]

MergedVV(s, t) == UNION {VersionVector(s, d) : d \in Reads[t]}
IsConsistent(vv) == \A a, b \in vv : a[1] = b[1] => a = b
CheckVersionConsistency(s, t) == IsConsistent(MergedVV(s, t))

\* A result is stale when a root input it was given has changed since, or
\* its inputs' version vectors no longer agree with what it was given.
ResultStaleByInputsOnly(s, t, given) ==       \* mutant: trusts the inputs' vectors
  ~CheckVersionConsistency(s, t) \/ MergedVV(s, t) # given

ResultStale(s, t, given) ==
  \/ \E a \in given : s.snapshot[a[1]] \notin {Unassigned, a[2]}
  \/ ~CheckVersionConsistency(s, t)
  \/ MergedVV(s, t) # given

-----------------------------------------------------------------------------
(* Pure step functions                                                     *)

GetReady(s) ==
  {t \in GetReadyTasks(TasksIn(s, {"completed"})) \cap RunSet :
     s.task[t] \in {"pending", "ready"}}

IsComplete(s) ==
  /\ TasksIn(s, {"in_progress", "deferred"}) = {}
  /\ \A t \in TasksIn(s, {"pending", "ready"}) :
       \/ DependsOn(t) \cap TasksIn(s, {"failed", "skipped", "waiting"}) # {}
       \/ t \notin RunSet

StuckTasks(s) == TasksIn(s, {"pending", "ready", "deferred"}) \cap RunSet

-----------------------------------------------------------------------------
(* State mutation step functions                                           *)

MarkReady(s) == SetTasks(s, GetReady(s) \cap TasksIn(s, {"pending"}), "ready")

Initialize(roots) ==
  MarkReady([status |-> "running",
             task |-> [t \in Tasks |-> "pending"],
             hit |-> [t \in Tasks |-> FALSE],
             snapshot |-> roots,
             vv |-> [t \in Tasks |-> {}],
             executed |-> 0, cached |-> 0, failed |-> 0, skipped |-> 0])

\* An unassigned input is no change: a snapshot holds assigned ones only.
InputChanges(s, roots) ==
  {i \in Inputs : roots[i] \notin {Unassigned, s.snapshot[i]}}

\* The waiting tasks of a set that stop waiting.  A loop decides them one at a
\* time: one stops unless a task it reads still waits, so the result depends
\* on the loop's order, and every order's result is one of these sets.
StopsWaiting(s, ts) ==
  LET waits == TasksIn(s, {"waiting"})
  IN  {W \in SUBSET (ts \cap waits) :
         /\ \A t \in W : DependsOn(t) \cap waits \subseteq W
         /\ \A t \in ts \cap waits : DependsOn(t) \cap waits = {} => t \in W}

\* stepDetectInputChanges: the snapshot takes up the roots that changed.
DetectInputChanges(s, roots) ==
  LET changed == InputChanges(s, roots)
  IN  [s EXCEPT !.snapshot =
         [i \in Inputs |-> IF i \in changed THEN roots[i] ELSE s.snapshot[i]]]

\* Back to pending go the completed tasks a change affects, the deferred ones
\* and the waiting ones W that stop waiting; running, failed and skipped ones
\* are left alone.
InvalidateAsExecuted(s, affected, W) ==       \* mutant: hits taken back as executions
  LET done == affected \cap TasksIn(s, {"completed"})
  IN  [SetTasks(s, done \union W \union (affected \cap TasksIn(s, {"deferred"})),
                "pending") EXCEPT
         !.hit = [t \in Tasks |-> s.hit[t] /\ t \notin done],
         !.executed = s.executed - Cardinality(done)]

InvalidateInProgress(s, affected, W) ==       \* mutant: what runs is reset too
  LET done == affected \cap TasksIn(s, {"completed"})
      hits == {t \in done : s.hit[t]}
      back == W \union (affected \cap TasksIn(s, {"completed", "deferred", "in_progress"}))
  IN  [SetTasks(s, back, "pending") EXCEPT
         !.hit = [t \in Tasks |-> s.hit[t] /\ t \notin done],
         !.cached = s.cached - Cardinality(hits),
         !.executed = s.executed - Cardinality(done \ hits)]

InvalidateTasks(s, affected, W) ==
  LET done == affected \cap TasksIn(s, {"completed"})
      hits == {t \in done : s.hit[t]}
      back == done \union W \union (affected \cap TasksIn(s, {"deferred"}))
  IN  [SetTasks(s, back, "pending") EXCEPT
         !.hit = [t \in Tasks |-> s.hit[t] /\ t \notin done],
         !.cached = s.cached - Cardinality(hits),
         !.executed = s.executed - Cardinality(done \ hits)]

\* A task whose input is unassigned waits, and its dependents with it.
TasksWaitingUnfiltered(s, t) ==               \* mutant: beyond the run set
  LET s1 == SetTasks(s, {t}, "waiting")
      ds == GetDependentsToSkip(t, TasksIn(s1, {"completed"}),
                                TasksIn(s1, {"skipped", "waiting"}))
  IN  SetTasks(s1, ds \cap TasksIn(s1, {"pending", "ready", "deferred"}), "waiting")
TasksWaitingAlone(s, t) == SetTasks(s, {t}, "waiting")  \* mutant: not its dependents

TasksWaiting(s, t) ==
  LET s1 == SetTasks(s, {t}, "waiting")
      ds == GetDependentsToSkip(t, TasksIn(s1, {"completed"}),
                                TasksIn(s1, {"skipped", "waiting"}))
  IN  SetTasks(s1, ds \cap RunSet \cap TasksIn(s1, {"pending", "ready", "deferred"}),
               "waiting")

TaskStarted(s, t) == SetTasks(s, {t}, "in_progress")

\* The output's version vector is what the inputs' say now; t's deferred
\* dependents are decided again, and the waiting ones W that stop waiting.
DependentsOf(t) == {d \in Tasks : t \in DependsOn(d)}

CompletedOnly(s, t, hit, W) ==                \* mutant: decides no dependent again
  MarkReady([SetTasks(s, {t}, "completed") EXCEPT
    !.hit = [s.hit EXCEPT ![t] = hit],
    !.cached = s.cached + (IF hit THEN 1 ELSE 0),
    !.executed = s.executed + (IF hit THEN 0 ELSE 1),
    !.vv = [s.vv EXCEPT ![t] = MergedVV(s, t)]])

TaskCompleted(s, t, hit, W) ==
  LET s1 == [SetTasks(s, {t}, "completed") EXCEPT
               !.hit = [s.hit EXCEPT ![t] = hit],
               !.cached = s.cached + (IF hit THEN 1 ELSE 0),
               !.executed = s.executed + (IF hit THEN 0 ELSE 1),
               !.vv = [s.vv EXCEPT ![t] = MergedVV(s, t)]]
  IN  MarkReady(SetTasks(s1, W \union (DependentsOf(t) \cap TasksIn(s, {"deferred"})),
                         "pending"))

\* The dependents a failure skips; stepTaskFailed returns them and
\* stepTasksSkipped marks them.
ToSkip(s, t) ==
  (GetDependentsToSkip(t, TasksIn(s, {"completed"}), TasksIn(s, {"skipped"}))
     \cap RunSet) \ TasksIn(s, {"in_progress"})

TaskFailed(s, t) == [SetTasks(s, {t}, "failed") EXCEPT !.failed = s.failed + 1]

TasksSkipped(s, ts) ==
  [SetTasks(s, ts, "skipped") EXCEPT !.skipped = s.skipped + Cardinality(ts)]

FinalizeAsOutcome(s) == [s EXCEPT !.status = "success"]  \* mutant: a task's word
Finalize(s) == [s EXCEPT !.status = IF s.failed = 0 THEN "completed" ELSE "failed"]
Cancel(s)   == [s EXCEPT !.status = "cancelled"]

\* Checkpoint, cancel or crash recovery: what was in flight is decided again.
YieldNothing(s) == s                          \* mutant: keeps what was in flight
Yield(s) == SetTasks(s, TasksIn(s, {"in_progress", "deferred", "waiting"}), "pending")
=============================================================================
