-------------------------- MODULE DataflowProperties --------------------------
(***************************************************************************)
(* What the dataflow orchestrator promises, of every step of a run and of  *)
(* what a run leaves behind.                                               *)
(***************************************************************************)
EXTENDS Dataflow

\* The root inputs a task's output is computed from, and their versions in a
\* run's snapshot.
RootsOf(t) == {i \in Inputs : t \in Cone({i}, {})}
SnapshotOf(s, t) == UNION {VersionOf(i, s.snapshot[i]) : i \in RootsOf(t)}
Downstream(t) == Cone({t}, {})

\* The workspace's last run is p's, and it has finished.
Done(p) == pc[p] = "finished" /\ store.id = runId[p] /\ lock = NoProc

\* Fixpoint (e3-data-architecture.md 3.15): a finished run leaves each task it
\* completed with an output computed from, and labelled with, one version of
\* each root input: the one its snapshot ends with, whatever was set while
\* tasks read, ran and completed.
Fixpoint ==
  \A p \in Procs : Done(p) =>
    \A t \in TasksIn(st[p], {"completed"}) :
      /\ out[t].content = SnapshotOf(st[p], t)
      /\ out[t].vv = SnapshotOf(st[p], t)

\* The counters of a run say how many tasks stand completed, by the cache or
\* by an execution, through every invalidation: stepInvalidateTasks takes back
\* what stepTaskCompleted gave, once.
CountersAgree ==
  \A p \in Procs :
    LET done == TasksIn(st[p], {"completed"})
    IN  /\ st[p].cached = Cardinality({t \in done : st[p].hit[t]})
        /\ st[p].executed = Cardinality({t \in done : ~st[p].hit[t]})

\* A task is in progress while an execution of it is tracked and has not been
\* applied, and, until the loop throws, only while it is tracked: none is
\* orphaned in progress, and none is launched over a live slot (the launch pass
\* is not under the mutex).  A loop that throws at the read of a task it has
\* marked as started leaves that one in progress.
SlotsAgree ==
  \A p \in Procs : \A t \in Tasks : Active(p) /\ ~aborted[p] =>
    /\ phase[p][t] \in {"running", "executed", "hit", "failed"}
         => st[p].task[t] = "in_progress"
    /\ st[p].task[t] = "in_progress" => t \in InFlight(p) \/ pc[p] = "throwing"

\* The loop never breaks out with a task it could still have run: "Dataflow
\* stuck" is only ever reported of what a refused read or a lost failure left.
NeverStuck == \A p \in Procs : pc[p] # "failed"

\* A completed run has settled every task it may schedule.
Settled ==
  \A p \in Procs : Done(p) /\ st[p].status = "completed" =>
    RunSet \subseteq TasksIn(st[p], {"completed", "waiting"})

\* A task that reads only other tasks' outputs waits at the end only for one
\* of them that waits: as the last of them completes it is decided again,
\* whatever order the loops over the waiting tasks took.
WaitingHasCause ==
  \A p \in Procs : Done(p) =>
    \A t \in TasksIn(st[p], {"waiting"}) :
      Reads[t] \subseteq Tasks => DependsOn(t) \cap TasksIn(st[p], {"waiting"}) # {}

\* A filtered run decides nothing of a task outside its run set, whatever
\* waits, fails or is set meanwhile.
FilterHolds ==
  \A p \in Procs : Active(p) => \A t \in Tasks \ RunSet : st[p].task[t] = "pending"

\* No task downstream of a failed one stands completed in a finished run, and
\* the run is recorded failed.
FailureBlocks ==
  \A p \in Procs : Done(p) =>
    \A t \in TasksIn(st[p], {"failed"}) :
      /\ Downstream(t) \cap TasksIn(st[p], {"completed"}) = {}
      /\ st[p].status = "failed"

\* A process that yielded p's run and was cancelled as it did ended it since.
EndedLate(p) ==
  /\ store.s.status = "cancelled"
  /\ \E q \in Procs : Parted(q) /\ runId[q] = runId[p] /\ aborted[q] /\ ended[q]

\* One process at a time runs the workspace, and what the store holds is its
\* run: running until the run records its end, unless a cancel that reached an
\* earlier process of the run as it yielded ended it late.  Of anything else no
\* write of an active run is dropped.
ActiveOwnsStore ==
  \A p \in Procs : Active(p) =>
    /\ lock = p
    /\ store.id = runId[p]
    /\ store.s.status = "running" => ~ended[p]
    /\ ~ended[p] => store.s.status = "running" \/ EndedLate(p)

\* A task the store holds as completed has its output's ref in the workspace,
\* with the version vector the store says: what a crash leaves to resume from
\* claims no output that was not written.
StoreNeverAhead ==
  store.id # NoProc =>
    \A t \in TasksIn(store.s, {"completed"}) : out[t].vv = store.s.vv[t]

\* A run that ended has its end in the store, with nothing left in progress.
EndRecorded ==
  \A p \in Procs :
    pc[p] \in {"finished", "cancelled"} /\ store.id = runId[p] =>
      /\ store.s.status # "running"
      /\ TasksIn(store.s, {"in_progress"}) = {}
      /\ pc[p] = "cancelled" => store.s.status = "cancelled"

PartedRuns == {runId[p] : p \in {q \in Procs : Parted(q)}}

\* Runs start, are resumed, are yielded and end as RunLifecycle says.
Lifecycle == INSTANCE RunLifecycle WITH
  holder <- lock, run <- store.id,
  parted <- PartedRuns,
  status <- IF store.id = NoProc THEN "none" ELSE store.s.status
FollowsLifecycle == Lifecycle!Spec

\* Only an active run writes task outputs: a run that yielded left the
\* workspace to the next (checkpointYield: its handlers "only mutate memory").
NoLateWrite == [][out' # out => \E p \in Procs : Active(p)]_vars

\* Whoever writes the store holds the workspace, or takes or lets go of it with
\* the write: a checkpoint stays the last word of a run that yielded, whatever
\* its handlers do, but for the one late end a cancel records that was asked for
\* as the run yielded.
OwnState(p) == <<pc[p], phase[p], ended[p]>>
EndsLate(p) ==
  /\ Parted(p) /\ aborted[p] /\ ~ended[p] /\ ended'[p]
  /\ store.id = runId[p] /\ store.s.status = "running"
  /\ store'.s.status = "cancelled"
StoreByHolder ==
  [][store' # store => \E p \in Procs :
       /\ \A q \in Procs \ {p} : OwnState(q)' = OwnState(q)
       /\ p \in {lock, lock'} \/ EndsLate(p)]_vars

\* Every run that starts or resumes ends, lets the workspace go or dies, if
\* inputs are set finitely often.
RunsEnd == \A p \in Procs : pc[p] = "top" ~> pc[p] \in Ended

-----------------------------------------------------------------------------
(* What the documentation says and the code does not do                    *)

\* "the tasks left waiting are the only ones not up to date": a task still
\* waits at the end only if the snapshot lacks a root input it is computed
\* from (e3-data-architecture.md 3.15, Waiting and Fixpoint).
WaitsForUnassigned ==
  \A p \in Procs : Done(p) =>
    \A t \in TasksIn(st[p], {"waiting"}) :
      \E i \in RootsOf(t) : st[p].snapshot[i] = Unassigned

\* "A task is never given inconsistent inputs."
ConsistentInputs ==
  \A p \in Procs, t \in Tasks :
    phase[p][t] = "running" => IsConsistent(Output(t, got[p][t]))
=============================================================================
