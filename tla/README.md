# Verification of the e3 execution engine

TLA+ models of the concurrent core of this repository, the TLC configurations that
check them on small instances, and TLAPS proofs of what holds for every instance.
Each definition is translated from the source; `PROJECT.json` maps every one to the
lines it stands for. Paths below are relative to `libs/e3/packages/` unless they start
with `libs/`.

## 1. The system

The repository is a workspace of libraries around **East**, a typed language, and
**e3**, an execution engine for graphs of East tasks. The East side (`libs/east*`,
editor plugins, UI components, the C and Python runtimes) is compilers, encodings and
pure functions over data: nothing there runs concurrently with anything else, and it is
not modelled. e3 is where state is shared between processes.

| component | state it keeps | operations | who touches it at once |
|---|---|---|---|
| **Dataflow steps** `e3-core/src/dataflow/steps.ts`, `dataflow.ts`, `dataset-refs.ts` | a run's `DataflowExecutionState`: task statuses, input snapshot, version vectors, counters | initialize, ready, prepare, start, complete, fail, skip, wait, detect, invalidate, finalize, cancel, yield | the loop, every completion handler |
| **Orchestrator** `e3-core/src/dataflow/orchestrator/LocalOrchestrator.ts` | per run: tasks in flight, mutex, `hasFailure`, `ended`, `yielded`, abort | start, resume, the loop and its launch pass, completion handlers, yield, cancel, a run's end | one async loop and one promise chain a task; later runs in other processes; dataset writers |
| **State store** `e3-core/src/dataflow/state-store/FileStateStore.ts` | one file a workspace: the last run's state; event segments | create, write, write status, read, events | the run's process; one that resumes or replaces it |
| **Locks** `e3-core/src/storage/local/LocalLockService.ts` | `locks/<resource>/exclusive.beast2`, `shared.*.beast2` | acquire (exclusive, shared), release, state, sweep | every process of the machine |
| **Datasets, objects, refs** `e3-core/src/storage/local/` | content-addressed files, refs replaced by rename | read, write, conditional write | everything |
| **Execution cache, attempts, runners** `e3-core/src/execution/` | execution records, logs, child processes | run a task, probe the cache, record | the runners of every process |
| **Split tasks** `e3-core/src/execution/engine.ts` | stages, pieces and units of one task | plan, unit done, merge | units in flight |
| **Runner budget** `e3-core/src/execution/budget.ts` | grants, a queue, what runs alone, what the guard stopped | request, withdraw, grant, watch, release, guard | every task, unit and detached call of a process |
| **Records** `e3-core/src/records.ts`, `workspaces.ts` | a ref with a head commit, a state, reserved slots | mutate, reindex, compact, roll back, restore, init; a deploy's plan, wipe and commits | concurrent mutations and their retries, operators, deploys |
| **Garbage collection** `e3-core/src/gc.ts`, `storage/local/` | unreachable notes, what a delete moved aside, a run's parts | scan roots, mark, note, clear, delete in two looks, finish | writers that touch or store, and then root; other runs |
| **Workspaces, packages, transfer** | deployments, archives | deploy, copy, export, import | under the locks |
| **Rack hub and leases** `e3-rack/src/lease`, `hub`, `server/` | lease records, visibility deadlines, subscriptions, one coordinator a lease, one mutation queue | submit, claim, extend, complete, sweep, cancel, leave, deregister | racks, sessions, the sweep |
| **API server, client, CLI, web** | sessions, HTTP | | |

How they interact. A process that starts a dataflow takes the workspace's dataflow lock
(exclusively) and the workspace lock (shared) from the lock service, writes a new state to
the state store, and runs a loop: it takes the ready tasks, prepares each (reads its inputs'
refs, consults the execution cache), and either applies a cached result, leaves the task
waiting, or launches it. Each launched task ends in a completion handler, which, under the
run's mutex, writes the output's ref, updates the state, re-reads the root inputs, invalidates
what they affect, and persists. Because the workspace lock is shared, dataset writes and record
mutations go on during the run. The host may ask the run to yield (a checkpoint, to be
resumed in another process), a caller may cancel it, and the process may die.

Beside the runs, clients call a record's mutations and operators its maintenance, each an optimistic
loop over one ref under the shared workspace lock, and a deploy takes the workspace exclusively and
rewrites its refs. `gc` marks and sweeps the object store in steps, holding nothing, while all of
these store and root objects. Within a process every runner is granted by the budget, and its guard
stops one that outgrows what it reserved. A session may delegate an execution to a rack through the
hub, which queues it as a lease, shares it between sessions that ask for the same work, and records
its attempts through one of them.

What is hard about it, and where (`PROJECT.json` `hazards` has every one at its line): the
launch pass runs outside the mutex; every read of an input is an await after which the run may
have moved on; changes are detected by content; a run that yielded has handlers still in
flight; a crash falls between the writes of a ref and of the state; lock files are read,
judged and unlinked in separate calls; a client retries a call that committed; an index is built over
rows that move; an object is looked for while it is moved aside; the guard awaits the machine between
what it measured and what it stops; a rack answers a lease that another rack has taken over.

What makes each correct: a run ends with every output computed from one version of each root
input (fixpoint); it always ends, is never stuck, and blocks what a failure reaches; one process
runs a workspace at a time, and what the store holds is never overtaken by a late write; what
survives a crash claims nothing that was not written; an exclusive lock is exclusive and never
orphaned by a live process; a record is an atomic value to its clients, and applies a keyed mutation
once; nothing a ref reaches, or a writer is about to root, is collected; the budget is never
overcommitted, passes nobody for ever and drains; a lease ends once, its attempts have their own
outcomes, and every session is told how it ended.

## 2. The modules

| module | stands for |
|---|---|
| `DataflowGraph` | pure graph functions: dependencies, ready tasks, the tasks a change affects, dependents to skip, a filter's closure |
| `DataflowSteps` | the step functions, as transformers of a run's state |
| `Dataflow` | the orchestrator: loop, launch pass, handlers, start, resume, yield, cancel, ends, crashes, over datasets, cache, store and lock |
| `DataflowProperties` | what it promises |
| `RunLifecycle` | the abstract specification of a workspace's runs: one holder, one run, a status that ends once |
| `LockService` | lock files and the processes that acquire them |
| `Rack` | the hub: leases, coordinators, subscriptions, the mutation queue, racks and sessions |
| `Delegation` | the abstract specification of a lease: it ends once, and an attempt is decided once |
| `Records` | a record, its calls, and the deploys of its workspace |
| `RecordsTorn` | the same with deploys that may die between two writes |
| `AtomicRecord` | the abstract specification of a record: one value, writes one at a time |
| `Collector` | the object store, its writers, and runs of gc beside them |
| `Budget` | the runner budget, its queue and guard, and the executions that ask |
| `DataflowProofs` | the orchestrator's types, its ownership of the store, its refinement of `RunLifecycle` |
| `DataflowRunProofs` | what its runs do: the slots, the ends, the store's claims, the counters, the fixpoint, and that none gets stuck |
| `LockServiceProofs`, `RackProofs`, `RecordsProofs`, `CollectorProofs`, `BudgetProofs` | theorems about the others |
| `Induction` | induction on sets, and totals of weights over a finite set, for `Records`, `Budget` and the dataflow |
| `MCDataflow`, `MCLockService`, `MCRack`, `MCRecords`, `MCCollector`, `MCBudget` | instances for TLC |

### Dataflow: correspondence with the code

A **process** `p` runs one async loop, `pc[p]`, and one handler a task, `phase[p][t]`.

| `pc` | the loop is |
|---|---|
| `top` | at the head of its `while`: done, or about to take a ready list |
| `read` | in `stepPrepareTask`, reading the inputs of `cur` one await at a time |
| `wait`, `hit`, `start` | waiting for the mutex to leave `cur` waiting, apply its cached result, or mark it started |
| `applied` | inside the mutex, between writing a cached output and detecting changes |
| `launch` | going on with the pass, with the ready list it started with |
| `race` | in `Promise.race` over what was in flight then |
| `drain` | after the loop: waiting for the rest, then cancelled, stuck or final |
| `yield` | in `checkpointYield`, before its mutex |
| `leaving` | in the `finally` of a run that yielded: its locks go (`LetGo`), then its entry in `executions` (`Forget`) |
| `throwing` | in the `catch`: stopping what it launched |
| `finished`, `cancelled`, `failed`, `yielded`, `dead` | over |

A handler's `phase`: `running`, then `executed`, `hit`, `failed` or `stopped` as the runner
ends, `applied` between writing the output and detecting changes (holding the mutex), and
`thrown` when the completion threw. A step is the code between two awaits that another actor
could tell apart. The mutex is `MutexFree`: nobody is in `applied`.

A **cancel** comes at any moment, as the run yields and as it lets its locks go too: `endCancelled` asks only
whether the run has ended, so one that waited behind the checkpoint's mutex ends the run after it
(`CancelDue`), whoever runs it by then (section 5). The run's writer stops at the first write the store does
not take, and the run with it (`Taken`, `Stops`, `Told`). A loop that throws may have marked a task as
started and not launched it (`readSplitTask`): that task stays in progress in a run that ends failed.

Abstractions, all of data:

- a value of a root input is a number, a **version** a pair of input and value; a dataset's
  content is the set of root versions it was computed from. Tasks are pure, so this tells
  contents apart as hashes do. A version vector is a set of versions, consistent when it is a map;
- the ready list is a set, and the pass takes any order of it (the code's order depends on the
  graph's listing); the loops over waiting tasks likewise, see `StopsWaiting`;
- `versionVectors` of root inputs always equal the snapshot's entries in the code, so one is kept;
- events, timings, callbacks, messages and logs are left out; a run's record
  (`dataflowRunWrite`) is written with its end and read by nobody here;
- the run's id is the name of the process that started it, and a process runs at most one run.

Not modelled of the orchestrator: the units and stages of a **split task** (a task is one
execution); a run **moved on by another process** (the store's `refused` outcome, which the file store never
answers); writes of the state that fail; throws before the loop begins, and of the write of a run's record;
tasks with no input. The root inputs are snapshotted and
re-read in one step although the code reads them one by one: each is still compared with its own
entry, and a set between two reads is found by the next detection, as it would be in the code.

### LockService: correspondence with the code

A **holder** is a process and the one acquire or query it has under way; each step is one call of
the filesystem and what the code decides from it. `Read` is `readLockState`, `Judge` the rest of
`cleanIfStale` (is the holder alive, and the unlink), and between them anything may happen. A
process ends (`Exit`) at any point, its files stay, and a process that has gone does not come back:
a pid with another start time is another process. Locals (`seen`, `left`, `found`) are forgotten
after their last use.

Not modelled: progress reports; the directory's making and removal (`writeInto`, `removeIfEmpty`);
the `O_EXCL` fallback and its grace; `removeStaleLocks`, which makes `cleanIfStale`'s calls on every
resource; Windows' sharing violations. Liveness of a holder and the unlink that follows are one
step, which loses nothing: a process that is dead stays so, and the unlink is by path whenever it
comes.

### Rack: correspondence with the code

Two things serialise the hub (`e3-rack/src/hub/hub.ts`): each lease's coordinator, `fence[l]`, under
which every transition of that lease runs, and the mutation queue, `mutation`, which runs one control
operation at a time. A step is what one of them does between two calls it awaits; a claim is
`ClaimCheck` (listed, and asked again under the coordinator), `ClaimTake` (the store's claim),
`ClaimGrant` or `ClaimFail` (the attempt recorded running through a session). A completion is
`CompleteRecord`, `CompleteSettle`, `CompleteFinish`, `CompletePublish`. `Deregister`, `EndSession`,
`Cancel` and `SweepLost` start an operation of the queue, which goes on lease by lease with `Each`,
`LoseTake`, `LoseTell`, `Leave`, `CancelTake`, `CancelTell` and `Handover`.

`granted` is every grant a rack was ever answered, and a rack may complete any of them at any time:
a request that is late or repeated is one of those, and one that is lost is a step not taken.
`rec[a].by` is history: whose outcome was recorded for attempt `a`.

Simplified: the sweep's parts are operations of their own (they share no local); a poll's abort,
quarantine, policies and offers are left out; a rack that vanished takes no step; the leases are those
of one work key. Not modelled: the order in which `FairLeaseStore` offers the leases of several owners,
transport and tokens, a client's own handles (`session.ts`).

### Records: correspondence with the code

A **call** reads the ref and its revision, computes, and writes if the revision stands; `Conflict` sends
it back to the read. It holds the workspace's shared lock from its first read to its end, so a deploy
(`DeployPlan` to `DeployEnd`) runs alone. `MutateRead`/`MutateRepeat` and `MutateWrite` are
`recordMutate`; `ReindexWrite` and `CompactWrite` its siblings; `SystemRead`, `SystemWrite` and
`InitWrite` `recordSystemCommit`. A deploy's actions are the order of `workspaceDeployWith`: plan
(`Plan`, `planDeployRecords`), wipe, write the package's refs, commit the records, commit the indexes,
name the package. `applied` is history: the mutations committed since the last reset.

A commit is named by its place, a state by the calls whose rows it holds, how many migrations it had
and the rows its index covers. A client's retry is another call with the same key, so it may overlap
the call it repeats. Simplified: one index at a time; a commit whose write lost is left out; `Stop`
merges refusals, failed programs, retries spent and deaths; deadlines come whenever. Not modelled: the
rows and deltas themselves, history pages, the drop of a record.

### Collector: correspondence with the code

A **writer** touches or writes: `ClearNote` unlinks the object's unreachable note, `Look` then looks for the
file, `Place` renames a staged one into its place, `Read` goes on to what a re-referenced manifest names, `Root`
writes the ref. A **run** reads the refs one at a time (`ScanRoot`), marks (`Mark`), scans each object (`Scan`,
`Decision`), and notes, clears or deletes it; a delete is `Check` (the note stands), `MoveAside`, `CheckAgain`
(the note still stands, else the file is put back), `Unlink`, `Clear`. A run may `Die` anywhere: what it has
aside stays there (`left`, for as long as `moved` says), and the `Finish` of a later run, or `Hold`, the gc that
holds the repository, puts back what has been aside as long as the age gate (`Due`, `PutBack`). An object that
names others and was out of its place, though a writer had found it, as a run died or the repository was held is
remembered as `torn` (history: no step reads it). Time is kept as ages and passes by `Tick`, held back only by a
write or run at its bound.

Simplified: of what stands in its place the age gate (`minAge`) only keeps more, and is left out; it is
longer than a delete in flight, which is never put back by another run; the gc that holds the repository is
one step; a note is made and dated in one step; each object is scanned on its own with a page time from within
the run; of an object left aside twice the last copy alone is told.
Not modelled: the history prune, the adoption memo, the shards and generations a mark is kept in.

### Budget: correspondence with the code

An **execution** is a task, a unit of a split task or a detached call. It asks (`Ask`), waits in `queue`,
is granted, watched while its runner runs, exits, is unwatched and released, and a unit that was stopped
asks `Again` for what it reached. `grantNext` is a pass over the queue, `Take`, `PassBy` and `EndPass`, with
nothing else between (`Free`), as in the code, which awaits nothing there. The guard's check is
`CheckStart`, `CheckApply` (apply what was measured, stop past the budget), `CheckMachine` (after an await:
stop for the machine) and `CheckClose`; what it measures of a runner is any of `Uses`.

Not modelled: how processes and cgroups are sampled, how capacities are parsed, a budget with no guard.

## 3. What is checked

### Runs that pass

| run | instance | what it shows |
|---|---|---|
| `DataflowReactive` | 4 tasks (`f` and `h` read `a`; `g` reads `f` and `a`; `e` reads `f`), width 2, `a` set twice, `f` and `g` may fail | `TypeOK`; `Fixpoint`, `SlotsAgree`, `CountersAgree`, `NeverStuck`, `FailureBlocks` over every interleaving of the pass, the handlers and the sets |
| `DataflowWaiting` | 4 tasks, 2 inputs either of which may start unassigned, filter `g`, `f` forced; fair | waiting has a cause and is lifted, no task outside the filter is touched, and the run ends |
| `DataflowCrash` | 2 tasks, 2 processes; crash at any step, failures, refused reads and writes, cancel, two sets | what is resumed claims nothing unwritten (`StoreNeverAhead`), settles every task, keeps the store its own, and records its end |
| `DataflowEnds` | 2 tasks, 2 processes; yield, fail, throw, cancel at any moment of it; fair | every run ends; a yielded run's handlers change no state of its successor's, and its cancel does so at most once (`StoreByHolder`); the refinement of `RunLifecycle`, which allows that late end |
| `LockFiles` | 3 processes, two of them exclusive or shared, one shared or asking; exits anywhere; fair | exclusion while the exclusive holders live; no orphan of a live process; one left alone is served |
| `RackShared` | 2 racks, 2 sessions, 2 leases of one key, 2 attempts, 2 faults | each attempt has its own outcome; sessions are told the end there was (`ToldTheEnd`), all of them (`NobodyWaits`); an open lease has a session to record it (`Attended`); the refinement of `Delegation` |
| `RackEnds` | the same with 1 lease; fair | a rack that goes quiet loses its lease; a session that died is dropped from all it waited for |
| `Records` | 3 mutations, two of one key; a reindex or compaction; an operator; 3 packages, 2 deploys | a keyed mutation is applied once; the slots name commits of the chain; the index and the migrations agree with the state; an expected head is the one written over; the refinement of `AtomicRecord` |
| `Collector` | 2 refs, a manifest and its segment, a writer, a run that may die once anywhere, a held gc, window 4 with writes and runs of one unit, age gate 1 | what a writer found is kept (`FoundKept`), and what the refs reach but through a torn manifest (`RootedKept`); a run that ends has put back what the dead left aside (`RootedReturns`) |
| `Budget` | 2 units that outgrow what they ask, a call that reserves nothing, 2 cores, memory 2; fair | never overcommitted; one runner stopped at a time; no request passed past its time; all drains |

### Runs that find a disagreement

Each checks one property that a document or comment of the repository states, and TLC shows how the
code breaks it.

| run | the statement | what happens |
|---|---|---|
| `FindWaiting` | `libs/e3/design/e3-data-architecture.md:549`, `:551`: a waiting task is decided again once an input is assigned; those left waiting are the only ones not up to date | the pass reads an input as unassigned; it is assigned, and a handler detects it, before the pass takes the mutex and leaves the task waiting; nothing decides it again (`LocalOrchestrator.ts:970`) |
| `FindTornDeploy` | `workspaces.ts:946`: "none is silently reset, and its history says what each deploy did to it" | a deploy wipes the workspace's refs and dies before it commits its records; the next finds no record, and begins it anew with the package's initial value (`workspaces.ts:936`) |

More disagreements are described, with how to see them, in section 5.

### Bounds, and why they are enough

- `MaxSets` = 2 and `MaxValue` 2 or 3: the hazards need one set between a read and its use and one
  more between its detection and the re-run. `DataflowEnds` sets nothing (its questions are about
  endings), `DataflowReactive` covers the sets.
- two tasks in flight (`Width` = 2): the pass, one handler applying and one waiting for the mutex.
- `Join` is the smallest package in which a task reads a root and what is derived from it;
  `Side` adds a task that reads the derived dataset alone, whose staleness its own inputs' vectors do
  not tell, and one whose completions invalidate while a pass goes on, without which the loop never
  defers; `Waits` has a join of two inputs and a bystander.
- two processes: a run and the one that resumes or replaces it. Each process runs one run, so a
  lifetime has at most two. `Starters` bounds those that start a run of their own; any may resume one.
  `DataflowEnds` has one starter, so that its second process is there to resume what the first yielded.
- three lock holders: two that race for a stale lock and the one that left it.

- `RackShared`: two leases, so that work asked for again after an end is queued anew; two attempts, so
  that a lease changes hands once; two sessions, so that one leaves while another stays. `MaxFaults`
  bounds the racks deregistered, the processes dead and the leases together. `MaxAttempts` bounds claims.
  514 thousand distinct states.
- `Records`: a mutation, its retry, and another that takes the last place between them; one call of
  maintenance and one operator's, each racing them; two deploys, so that a record is minted and then
  kept, migrated or reset. The three packages differ in migrations, index and initial value; the
  migrations keep the type, so that nothing but the schema slot tells them apart. Two go equally far
  under different indexes, so that a record is kept and indexed anew; 814 thousand distinct states.
- `Collector`: a window of 4 over a write and a run of 1 each; two refs, so that a ref is moved from one
  that was scanned to one that was, while the mark goes on; writers root the manifest, and the segment through
  it (`Targets`); one death (`MaxDeaths`), with the object aside for longer and for less than the age gate
  (`MinAge` 1); 1.3 million distinct states. By hand, without error: two deaths (2.8 million), and one with the
  segment rooted by itself too (5.9 million). The same with `Window = 3` loses what the refs reach, and with
  `Window = 2` what a writer found, so the window of 4 is the least.
- `Budget`: memory for two units as they ask and not as they grow, a third that needs only a core, one
  low of the machine (`MaxLows`); 1.1 million distinct states.

### Fairness

`Dataflow!Fairness`: weak fairness of each process's loop, of `EndCancelled`, and of each task's
handler. Node runs what is queued, a program ends (the runner bounds it or the user waits for it),
and promises settle. Nothing is assumed to start or resume a run, set an input, fail, throw, crash or
yield. `LockService!FairSpec`: weak fairness of each acquire's own steps, polling included; nothing
makes a holder let go or a process begin. A request for retries past the deadline is `GiveUp`, never
required.

`Rack!Fairness`: time passes, a coordinator and the queue go on with what they started (weakly), and a
sweep of a lost lease or of a dead session gets its turn in the queue, which is first in, first out
(strongly, since other operations hold it up again and again). No rack is made to poll, extend or
complete. `Budget!Fairness`: weak fairness of the pass, and strong fairness of the executions' steps,
which only a pass ever holds up; nothing makes an execution begin or the guard measure, and `Drains` is
conditional on nothing being asked for any more. `Records` and `Collector` state safety only.

## 4. What is proved

**Dataflow.** For every graph, filter, number of tasks, inputs and processes, width and combination of
faults (assumptions: `GraphAssumption`, `StepsAssumption`, `RunAssumption`, which say the constants are of
their kinds, sets of tasks finite and every task reads something):

- `TypeCorrect`: `Spec => []TypeOK`. Lemmas give the type of every step function; one step an action.
- `ActiveOwns`: `Spec => []ActiveOwnsStore`: an active run holds the lock, the store is its own, and
  reads running exactly until the run records its end, or until a cancel that reached an earlier process of
  the run as it yielded records one (`EndedLate`). It is not inductive: that a write is taken
  needs the store's id and status to agree with `runId` and `ended`, that a persist writes a running
  state needs `st[p].status` to be running until the end, that a start finds a fresh id needs that an
  idle process's name is nowhere in the store, and that a late handler writes nothing needs that only
  an active or a yielded run has handlers. Those conjuncts are `Ownership`, which is inductive.
- `HolderWrites`: `Spec => StoreByHolder`, from `Ownership`: a step that changes the store is a step of one
  process, no other's `pc`, handlers or `ended` moving in it, and that process holds the lock, takes it or
  lets go of it, or records the late end of a cancel (`EndsLate`, once a process).
- `LifecycleRefined`: `Spec => Lifecycle!Spec`: initial states map to initial states and every step
  to a step of `RunLifecycle` or a stutter, under `Ownership`. A checkpoint is `YieldRun`, and the late end
  of a cancel `CancelLate`, which a run admits only once it was yielded.

What its runs do (`DataflowRunProofs`), for as many constants:

- `FilterKept`: `Spec => []FilterHolds`. `RunSound` bounds what a run lists, prepares and decides by its
  run set; `RunsSound` is its invariant for every process, with what a run's end settled.
- `RunsSettle`: `Spec => []Settled`, from the same: a run that counts no failure has none, and a run ends
  completed only with nothing left to schedule.
- `SlotsKept`: `Spec => []SlotsAgree`. A task is in progress exactly while its execution is tracked and not yet
  applied, but for the one a loop that throws had just started; what makes it inductive (`SlotsOf`) is that the
  pass, which takes no mutex, holds at most a task in no slot (`InHand`), and that nothing completes a task but
  its own handler (`NotYetDone`).
- `EndsRecorded`: `Spec => []EndRecorded`. A cancelled run's end is recorded before its loop is done, by its own
  cancel or by the late one that stopped its writes (`CancelFirst`), and a process that has not run is the name
  of no run (`Fresh`).
- `StoreFollows`: `Spec => [](NoneYielded => StoreNeverAhead)`. `Follows` says that the run in memory
  never claims an output that was not written, and that the store lags behind it: between two persists
  an output may be written that the store does not claim, never the other way. A run that yielded keeps
  handlers that write outputs under another's claims (section 5, `NoLateWrite`) and a cancel that may end
  the run late, hence `NoneYielded`.
- `CountersKept`: `Spec => []CountersAgree` where `~CanThrow`: a completion that throws stays counted
  (section 5).
- `FixpointKept`: `Spec => [](NoneYielded => Fixpoint)` where `~CanThrow` and `~Reuse`. Each hypothesis is
  needed, and section 5 shows a run without each: a completion that throws, a value that comes back, and
  a run that yielded. Crashes, resumes, failures, cancels and forced tasks are all covered. The
  invariant is `Faithful`: an unaborted run's completed tasks are `Right` (what each depends on is
  completed, its vector and its label are the snapshot's, and its content holds, of each root it is
  computed from, a version at least as new), and `Exact` once what is newer in the datasets has been
  detected; what is in flight was launched with the snapshot's vector or reads something a detection will
  find changed (`GivenSources`, `Prepared`, `Served`); whatever is listed for launch is still right to
  launch or its result will be discarded (`QueueSteady`, `CompletionsRight`). The store's claims are
  `Exact` (`StoreRight`), so a resumed run begins with them, and those of a run that finished stay so
  (`DoneRight`), since only a run writes outputs.
- `FailureBlocksKept`: the same for `FailureBlocks`. A completed task has only completed ones above it, so
  the tasks that are not completed are closed downstream, and the cone of a failed one is among them.
- `NeverStuckKept`: `Spec => [](Calm => NeverStuck)` where `~CanThrow` and `~Reuse`. `Calm` is `NoneYielded`
  and, unless no task fails at all, that no process died: a run resumed after a failure forgets it, and is
  reported stuck (section 5). The invariant is `Tracks`: an active run, neither cancelled nor failed, is
  `OnTrack`. Its state `Sits`: a task is deferred or waits only for one it depends on that is not completed,
  or for a root input, and has no output while it waits; and what depends on a waiting task waits. From that,
  `NothingLeft` finds a ready task whenever one is left to run and nothing is in progress: of the tasks
  left, the one with the fewest tasks above it (`Minimal`, by the least number principle of `Induction`)
  depends on completed ones only. `OnTrack` adds that a preparation lacks root inputs only, never
  a task's output, and that a pass which goes on after an await has settled or launched something, so only
  one that found nothing breaks out of the loop. The former rests on `Written`: outputs are written in the
  order of the graph and none is ever taken back, so what a task in hand depends on is there. `Held` says
  that nobody resumes where nobody died.
- `WaitingCauseKept`: `Spec => [](NoneYielded => WaitingHasCause)` where moreover no task fails
  (`NoFailure`). At the end of a run on its track nothing is in progress, left to run, failed or skipped, so
  what a waiting task depends on is completed or waits, and `Sits` says that not all of it is completed.

**Locks.** For every number of processes and whatever each may ask for (`LockAssumption`):

- `LockTypeCorrect`: `Spec => []TypeOK`.
- `Exclusion`: `Spec => []ExclusionWhileAlive`. The invariant is `AllAlive => Guarded`: as long as no
  process that may take the lock exclusively has gone, the exclusive file stands for its owner and is
  unlinked by nobody else, a sharer's file exists from its write to its end, what anyone read as
  exclusive is alive, and a sharer that holds the lock, or has read no exclusive lock since it wrote
  its file, is still to be looked at by an exclusive acquirer in its second look, or has been found.
  `AllAlive` is antitone (the dead stay dead), so the implication is inductive.
- `NothingOrphaned`: `Spec => []NoOrphan`. With it goes `ModesKept`: a process writes the file of
  the lock it asked for, and unlinks that one.

**Rack.** For any racks, sessions, leases and bound on attempts (`RackAssumption`):

- `RackTypeCorrect`; `RackInvariant`: `Spec => []IInv`. What makes it inductive: attempts are minted
  once and no two leases share one (`Fresh`, `Apart`), a coordinator between two of its steps still finds
  the lease as it left it (`Fenced`, `Running`), an operation that stops a lease holds its coordinator
  (`Ending`), and a rack granted a lease is barred from it for good, and while it holds it the attempt is
  the granted one (`GrantsHold`).
- `RackOutcomes`: `Spec => []OutcomeOfAttempt`. A completion names a lease and a rack only. It is the
  attempt's own because a rack is granted a lease once, which is what `GrantsHold` says.
- `RackImplements`: `Spec => Delegates`: every step is one of `Delegation` or a stutter, under `IInv`.
- `RackTellsTheEnd`, `RackLeavesNobodyWaiting`, `RackAttends`: `Spec => []ToldTheEnd`, `[]NobodyWaits` and
  `[]Attended`. The invariant is `SubInv`: of a lease that ended, everyone who waits was told or its
  coordinator is at a step that will tell them (`Waits`, `Telling`); one open lease of the work, the one
  identical work attaches to (`OneOpen`), whose owner waits for it unless the queue is handing it over
  (`Owned`); and a session leaves the hub after it left every lease (`Leaving`, `Open`).

**Records.** For any calls, operators, keys, packages, indexes and deploys (`RecordsAssumption`):

- `RecordsTypeCorrect`, `RecordsInvariant`: `IInv` adds to the types that every
  ref and commit is well formed and its index of its own rows (`Vectors`), that a call whose revision still
  stands has seen the ref as it is (`CallsInStep`), that a deploy takes up the ref it planned for
  (`DeployInStep`), that the index is the declared one (`IndexInStep`), and that the ref's key is that of the
  last mutation applied (`LastKeyed`).
- `RecordsAppliedOnce`, `RecordsIndexAgrees`, `RecordsNotOverUnseen`, from it; and `RecordsImplements`:
  `Spec => ActsAtomically`, every write a step of `AtomicRecord` at the moment the ref is replaced.
- `RecordsSlotsInChain`: `Spec => []SlotsInChain`. The chain of a head is a recursive function; that it
  grows with a commit and names only older ones is proved by the induction of `Induction`. The invariant
  `ChainInv` says so of the commits (`Climbing`, `Stepping`), of the ref, or the one a deploy wiped and will
  put back (`Standing`), and of what each operator in flight points it at (`AskFits`).
- `RecordsAtItsSchema`: `Spec => []AtItsSchema`, from `ChainInv`, whose `SchemaInStep` follows the schema
  slot along a deploy.

**Collector.** For any objects and what they name, refs, writers and concurrent runs, which die anywhere
(`CollectorAssumption`, which says the constants are of their kinds and nothing of the window's length). How
long a write and a run take the code does not bound, and it asks of the window only that it is positive
(`gc.ts:230`). The theorems below therefore state, as a hypothesis of theirs, what the window must outlast;
without it they are false, as `Collector`'s constants with a shorter window show (section 5):

- `CollectorTypeCorrect`, of any window.
- `CollectorKeepsFound`: `Spec => []FoundKept` if `Outlasts`, a window longer than a write and a run. The
  invariant `NotesInv` says that a note on what a writer has cleared is at most as old as its write and a run
  (`Young`), while one a delete expects is as old as the window (`Pending`): a delete that races the writer
  finds the difference at its second look, or dies and leaves the object for a later run (`Held`, `Placed`).
- `CollectorKeepsRooted`: `Spec => []RootedKept` if `Roomy`, a window longer than a write and three runs
  (TLC finds no loss at a write and two runs and a unit; the proof allows for one run more, which puts back
  an object with the note it finds).
  `RootsInv` says that what a run's mark missed of a ref is calm, its notes no older than a write and two
  runs besides the run's own age (`Seen`), and that a run deletes nothing a ref reaches unless it was
  rooted since the sweep met it (`Rerooted`), so that its second look puts it back (`Safe`). What the refs
  reach is taken without what only a torn object names: a mark reads such a one as naming nothing
  (section 5).
- `CollectorReturns`: `Spec => RootedReturns` if `Roomy`: only `Finish` ends a sweep (`RunEnds`), and it puts
  back all that is due.

**Budget.** For any executions, what they ask and use, cores, memory and bypass time (`BudgetAssumption`):

- `BudgetTypeCorrect`, `BudgetSole` (no more granted than cores, and one of more than the budget alone),
  `BudgetOneAtATime`, `BudgetNotPassed`. The invariant `Budgeted` adds to the types that an execution is in the
  queue, among the holders or the watched exactly where it is (`Kept`), that only holders are stopped, and none
  while the machine is read (`Marks`), and that in the queue a later request has waited no longer than
  an earlier one, and that a pass beyond a request found it not to fit with time left (`Order`).

- `BudgetCapacity`: `Spec => []Capacity`. The code's running sums are totals of a weight over the holders:
  `Induction` proves that a total gains and loses what its set does, whatever order the fold takes, and
  is monotone in its weights.

The library's induction theorems take an operator as a parameter, which the provers cannot instantiate.
`Induction` states the same of sets, from the well-foundedness of strict inclusion among finite sets, which
is stated without one: a set that holds every natural whose predecessors it holds holds them all, and one
that holds every subset of a finite set whose smaller ones it holds holds them all. A property is then a
set, and can be cited.

Only model-checked: liveness (`RunsEnd`, `AloneServed`, `QuietRackLetsGo`, `DeadLeaves`, `Drains`), which is out
of the prover's reach. Every safety property a passing run checks is stated by a theorem, some under the
hypotheses named above. What a closure computes (`Cone`, a filter's run set) is proved only as far as the
proofs use it: it is closed, it is the least such, and it is transitive.

## 5. Behaviour worth knowing

### Disagreements with a document, and how to see them

Each of these properties is stated in its module and violated by the model; none has a run of its own.
The constants are those of the run named, with the changes given.

| property | the statement | what happens | constants |
|---|---|---|---|
| `Fixpoint` | `libs/e3/design/e3-data-architecture.md:551`: every output is consistent with the root inputs as they stand | an input is set and set back between two detections while a task reads it; detection compares contents, so the output of the value in between stays (`dataset-refs.ts:194`) | `FindWaiting`'s, `Tasks = {f, g}`, `Inputs = {a}`, `Reads <- Join`, `MaxSets = 2`, `Reuse = TRUE` |
| `Fixpoint` | the same | a completion is counted, its detection throws, and the mutex is let go before the task is failed; another handler persists the state so; the process dies, and the resumed run, with nothing left to run, ends with an output of what was set before (`LocalOrchestrator.ts:1527`) | `DataflowCrash`'s, `Reads <- Pair`, `MaxSets = 1`, `CanFail = {g}`, `CanCancel = FALSE` |
| `ConsistentInputs` | `:540`: "A task is never given inconsistent inputs." | inputs are read one by one after the vectors were checked; the result is discarded later, but the task was given the mix (`LocalOrchestrator.ts:944`) | the same with `Reuse = FALSE` |
| `NoLateWrite` | `LocalOrchestrator.ts:1370`: handlers after a yield "only mutate memory" | they also write their task's output ref, with the locks let go (`:1491`) | the same with `Procs = {p1, p2}`, `MaxSets = 1`, `CanYield = TRUE` |
| `StoreByHolder` without `EndsLate` | `LocalOrchestrator.ts:1370`: the yielded flag keeps "the checkpoint as the last persisted word" | a cancel that comes as the run yields waits behind the checkpoint's mutex, or comes as the locks are released and before the run is forgotten; `endCancelled` asks only whether the run ended (`:1283`) and writes `cancelled` over the checkpoint with the locks gone, also when another process has resumed the run, whose writes are then dropped | `DataflowEnds`'s |
| `MutualExclusion` | `LocalLockService.ts:366`, `:439`: "the same mutual exclusion as O_EXCL" | of two processes that read one stale lock, the slower unlinks the lock the faster has taken (`:273`) | `LockFiles`'s, with `Spec` |
| `RootedKept` | `gc.ts:564`, `storage/interfaces.ts:191`: an object touched and rooted within the window is never lost; only the age of a write is named | an object must be safe from the mark of a run that began before it was rooted and from a note made before that: the window must exceed a write and two runs | `Collector`'s, with `Window = 3` |
| `FoundKept` | `storage/interfaces.ts:191`: the same, and `LocalRepoStore.ts:441` of a touch that found the object | a note may be put on an object after the touch that cleared it by a run that had dated it before: it is a run older than the touch, and one that ages past the window before the writer roots the object lets it be deleted | `Collector`'s, with `Window = 2` |
| `RootedKept`, with `Reached` taken as `Reach(Rooted, Objects)` | the same | a manifest a touch found is moved aside and then rooted; while it is aside a mark reads it as naming nothing, so its segments are unreached: a held gc deletes them at once (`gc.ts:353`, before its `gcSweepBackend` looks at what is aside), and if the run dies between its looks (`LocalRepoStore.ts:463`) a later one deletes those whose note has stood the window before it puts the manifest back | `Collector`'s; without `Hold`, the death alone; with `MaxDeaths = 0`, `Hold` alone |

`Fixpoint` passes where inputs only take new values and fails where a value comes back: the finding of the
first row is exactly the return of a value. The second needs two tasks that run at once (`Pair`): of `Join`'s,
one is computed from the other. `DataflowReactive` checks the fixpoint where nothing throws or dies, and
`FixpointKept` proves it across crashes where no completion throws; `DataflowCrash`, whose completions throw,
does not claim it. `ExclusionWhileAlive` passes and `MutualExclusion` fails: exclusion is lost only through the
reclaiming of a lock. The windows of the Collector's rows are the caller's choice, and the code asks only that
one is positive (`gc.ts:230`); the last row is of any window, and is why `RootedKept` leaves out what only a
torn object names.

### Behaviour no document contradicts

Dataflow and locks:

- A completion that throws after the task was counted completed leaves `executed` counted and the
  task failed as well (`failTask`); its dependents are not skipped. `CountersAgree` and
  `FailureBlocks` are checked where nothing throws.
- A resumed run starts with `hasFailure` false (`LocalOrchestrator.ts:690`): one that died after a
  failure it had not skipped the dependents of is reported stuck.
- A loop that throws as it reads whether the task it has just started is split (`LocalOrchestrator.ts:1048`)
  leaves that task in progress in the state of a run that failed: nothing stops or resets what has no slot.
- An output is labelled with the vector of the task's launch, not of what its reads returned; the
  two differ until the next detection discards the result.
- `docs/HOW_RUNS_WORK.md:150` "Nothing starts before its inputs are complete": a task is launched
  from a ready list that an invalidation may have overtaken; its result is discarded.
- A lock older than a second whose read fails is taken for a remnant (`LocalLockService.ts:265`), and a
  release removes the resource's directory while another acquirer makes it (`:110`).

Records and deploys:

- A compaction or a migration after a rollback points `$idem.commit` at a commit whose state does not
  hold the keyed write, though `records.ts:1681` says it does: a retry is answered with it, not applied
  again, as it was before the rollback too.
- A deploy that dies after a record was migrated, and before it named its package, leaves the old package
  named over the new schema: deploying the old one again is refused.

Budget:

- A user task may be stopped for the machine while a unit that began to be watched during the machine's
  reading runs: the guard's list of what is live is taken before the await. `design/e3-execution.md:273`
  says one is stopped with "no engine unit left to stop".
- A unit whose runner ended well as it was stopped runs its merge under a grant that is still marked
  stopped: nobody else is stopped until it is let go, and a merge that fails of itself is run again as if
  the guard had stopped it.
- A unit that is not alone and is stopped for the machine runs again for as long as the machine stays low.
- A detached call lets go of its grant without unwatching its runner, which costs a check.

Rack:

- A session's second handle on a lease may be dropped when the first cancels while the second's creation
  is in flight (`session.ts:200`).
- A session that leaves a shared lease may not be told of an end that comes as it leaves.
- The sweep reads a lease as lost and then waits for its coordinator: a lease claimed again in between is
  superseded all the same. A rack deregistered between a claim's check and its taking is granted the lease.

## 6. Plan

1. Dataflow: graph, steps, orchestrator, lifecycle; `ActiveOwns`, refinement. *Done.*
2. Locks; exclusion. *Done.*
3. Rack: leases and sessions; `Delegation`. *Done.*
4. Collector. *Done.*
5. Records and deploys; `AtomicRecord`. *Done.*
6. Budget. *Done.*
7. Proofs of every safety property the runs check: the dataflow's slots, ends, claims, counters and
   fixpoint, and that no run gets stuck; `NoOrphan`; `SlotsInChain` and `AtItsSchema`; the rack's ends;
   `Capacity`. *Done.*
8. Liveness of gc (an object nothing reaches is deleted), and two concurrent runs in TLC.
9. Split tasks: the units of a task's stages as a refinement of its one execution, over `Budget`.
10. `FairLeaseStore`: the owners' turns; the in-process keyed mutex.

## 7. Not modelled, and why

East, its runtimes, plugins and UI (pure functions over data); packages, archives and transfer
(conversions and streams); HTTP, TLS and transport (I/O); processes, logs and cgroups (I/O); object and
ref files beyond the atomicity a rename gives. These are nearly all of the repository's lines: the map
covers what holds its concurrency. Section 2 says what each module leaves out of what it models, and
`PROJECT.json` `components` gives the reason for each part.

## 8. Running

`tlc -config <run>.cfg <module>` for each run of `PROJECT.json`, a few minutes for the longest (`DataflowCrash`, `Budget`);
`tlapm <module>` for each of the eight modules with theorems.
