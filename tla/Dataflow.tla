------------------------------ MODULE Dataflow ------------------------------
(***************************************************************************)
(* The reactive dataflow orchestrator (e3-core/src/dataflow/orchestrator/  *)
(* LocalOrchestrator.ts) over a workspace's datasets, the execution cache, *)
(* the run's state store and the workspace's dataflow lock.                *)
(*                                                                         *)
(* A process runs one async loop (pc) and, for each task it launched, a    *)
(* completion handler (phase).  A step here is the code between two awaits *)
(* that others could tell apart; the handlers and the loop's own changes   *)
(* of the run's state exclude one another under the run's mutex, which the *)
(* loop's launch pass does not take.  Another process may run the same     *)
(* workspace later: after a yield, whose handlers go on in the first, or   *)
(* after a crash.                                                          *)
(*                                                                         *)
(* The content of a dataset is the set of root versions it was computed    *)
(* from, {} while unassigned: a pure task's output is told apart by what   *)
(* it read, so content compares as the code's hashes do.                   *)
(***************************************************************************)
EXTENDS DataflowSteps

CONSTANTS
  Procs,      \* the processes that may run the workspace, one run each
  NoProc,
  Starters,   \* bound: those that may start a run; any may resume one
  Width,      \* tasks kept in flight
  MaxSets,    \* bound: dataset sets while the model runs
  Reuse,      \* whether a set may give an input a value it had before
  CanFail,    \* the tasks whose program may fail
  CanThrow,   \* whether the store may refuse a read or write the run makes
  CanYield,   \* whether the host asks a run to yield
  CanCancel,  \* whether a run may be cancelled
  CanCrash    \* whether a process may die

ASSUME RunAssumption ==
  /\ IsFiniteSet(Procs) /\ NoProc \notin Procs /\ Starters \subseteq Procs
  /\ Width \in Nat \ {0} /\ MaxSets \in Nat
  /\ CanFail \subseteq Tasks
  /\ {Reuse, CanThrow, CanYield, CanCancel, CanCrash} \subseteq BOOLEAN

VARIABLES
  \* durable
  root,    \* root[i]: the value of a root input's dataset
  sets,    \* how many times a root input was set
  out,     \* out[t]: a task output's dataset ref: content and version vector
  cache,   \* the successful executions: a task and the content it read
  store,   \* the run state the store holds, and the run it is of
  lock,    \* the holder of the workspace's dataflow lock
  \* of each process
  pc,      \* where its loop is
  st,      \* the run's state in memory
  queue,   \* the ready tasks the launch pass has yet to launch
  cur,     \* the task the launch pass is preparing, or has just started
  left,    \* the inputs of it still to read
  synced,  \* hadSyncCompletion
  watch,   \* what the loop's Promise.race waits on
  phase,   \* phase[p][t]: where t's execution and its handler are
  given,   \* given[p][t]: the version vector t was launched with
  got,     \* got[p][t]: the content read for each of t's inputs
  failure, \* hasFailure
  aborted,
  ended,
  runId    \* the run it runs: the process that started it

durable == <<root, sets, out, cache, store, lock>>
pass    == <<queue, cur, left, synced, watch>>
slots   == <<phase, given, got>>
flags   == <<failure, aborted, ended, runId>>
vars    == <<durable, pc, st, pass, slots, flags>>

Content == SUBSET Versions
Phase   == {"none", "running", "executed", "hit", "failed", "stopped", "applied",
            "thrown"}
Ended   == {"finished", "cancelled", "failed", "yielded", "dead"}
Loop    == {"top", "read", "wait", "hit", "applied", "start", "launch", "race",
            "drain", "yield", "throwing"}
PC      == {"idle", "leaving"} \union Loop \union Ended

NoState == Initialize([i \in Inputs |-> Unassigned])
Nothing == [d \in Datasets |-> {}]
NoRef   == [content |-> {}, vv |-> {}]

TypeOK ==
  /\ root \in [Inputs -> Values \union {Unassigned}]
  /\ sets \in Nat
  /\ out \in [Tasks -> [content : Content, vv : SUBSET Versions]]
  /\ cache \subseteq (Tasks \X [Datasets -> Content])
  /\ store \in [id : Procs \union {NoProc}, s : ExecutionState]
  /\ lock \in Procs \union {NoProc}
  /\ pc \in [Procs -> PC]
  /\ st \in [Procs -> ExecutionState]
  /\ queue \in [Procs -> SUBSET Tasks]
  /\ cur \in [Procs -> SUBSET Tasks]
  /\ left \in [Procs -> SUBSET Datasets]
  /\ synced \in [Procs -> BOOLEAN]
  /\ watch \in [Procs -> SUBSET Tasks]
  /\ phase \in [Procs -> [Tasks -> Phase]]
  /\ given \in [Procs -> [Tasks -> SUBSET Versions]]
  /\ got \in [Procs -> [Tasks -> [Datasets -> Content]]]
  /\ failure \in [Procs -> BOOLEAN]
  /\ aborted \in [Procs -> BOOLEAN]
  /\ ended \in [Procs -> BOOLEAN]
  /\ runId \in [Procs -> Procs \union {NoProc}]

Init ==
  /\ root \in [Inputs -> {Unassigned, 1} \cap (Values \union {Unassigned})]
  /\ sets = 0
  /\ out = [t \in Tasks |-> NoRef]
  /\ cache = {}
  /\ store = [id |-> NoProc, s |-> NoState]
  /\ lock = NoProc
  /\ pc = [p \in Procs |-> "idle"]
  /\ st = [p \in Procs |-> NoState]
  /\ queue = [p \in Procs |-> {}]
  /\ cur = [p \in Procs |-> {}]
  /\ left = [p \in Procs |-> {}]
  /\ synced = [p \in Procs |-> FALSE]
  /\ watch = [p \in Procs |-> {}]
  /\ phase = [p \in Procs |-> [t \in Tasks |-> "none"]]
  /\ given = [p \in Procs |-> [t \in Tasks |-> {}]]
  /\ got = [p \in Procs |-> [t \in Tasks |-> Nothing]]
  /\ failure = [p \in Procs |-> FALSE]
  /\ aborted = [p \in Procs |-> FALSE]
  /\ ended = [p \in Procs |-> FALSE]
  /\ runId = [p \in Procs |-> NoProc]

-----------------------------------------------------------------------------
(* Helpers                                                                 *)

\* runningTasks: what the loop has launched, with what it launches now.
InFlight(p)  == {t \in Tasks : phase[p][t] # "none"}
                  \union (IF pc[p] = "launch" THEN cur[p] ELSE {})
\* The run's mutex: held across the awaits of a completion being applied.
MutexFree(p) == pc[p] # "applied" /\ \A t \in Tasks : phase[p][t] # "applied"
Parted(p)    == pc[p] \in {"leaving", "yielded"}
Yielding(p)  == pc[p] = "yield" \/ Parted(p)
Active(p)    == pc[p] \in Loop

DatasetContent(d) ==
  IF d \in Inputs THEN VersionOf(d, root[d]) ELSE out[d].content
Output(t, inputs) == UNION {inputs[d] : d \in Reads[t]}

\* persistState: nothing once the run ended, was aborted or yielded; and the
\* store drops a write of another run than it holds, or of one that ended.
TakenAlways(p) == TRUE                        \* mutant: ended runs written too
Taken(p) == store.id = runId[p] /\ store.s.status = "running"
Write(p, s) == store' = IF Taken(p) THEN [store EXCEPT !.s = s] ELSE store
\* RunWriter's onStop: a write the store does not take stops the run.
Stops(p) == aborted' = [aborted EXCEPT ![p] = @ \/ ~Taken(p)]
Told(p) ==
  /\ Stops(p)
  /\ ended' = [ended EXCEPT ![p] = @ \/ ~Taken(p)]
PersistYielded(p, s) ==                       \* mutant: a yield does not stop it
  IF ended[p] \/ aborted[p] THEN UNCHANGED <<store, aborted, ended>>
  ELSE Write(p, s) /\ Told(p)
Persist(p, s) ==
  IF ended[p] \/ aborted[p] \/ Yielding(p) THEN UNCHANGED <<store, aborted, ended>>
  ELSE Write(p, s) /\ Told(p)

FreeSlot(p, t) ==
  /\ phase' = [phase EXCEPT ![p][t] = "none"]
  /\ given' = [given EXCEPT ![p][t] = {}]
  /\ got' = [got EXCEPT ![p][t] = Nothing]

-----------------------------------------------------------------------------
(* The world outside the run                                               *)

\* A dataset set on a root input: it takes the workspace lock shared, as the
\* run does, so it may come at any moment of a run.
SetInput(i, v) ==
  /\ sets < MaxSets
  /\ v # root[i]
  /\ Reuse \/ v > root[i]
  /\ root' = [root EXCEPT ![i] = v]
  /\ sets' = sets + 1
  /\ UNCHANGED <<out, cache, store, lock, pc, st, pass, slots, flags>>

\* The process dies with its memory; its lock is no longer held.  One that dies
\* after its checkpoint is one that lets go and takes no further step.
Crash(p) ==
  /\ CanCrash
  /\ Active(p)
  /\ pc' = [pc EXCEPT ![p] = "dead"]
  /\ lock' = IF lock = p THEN NoProc ELSE lock
  /\ st' = [st EXCEPT ![p] = NoState]
  /\ queue' = [queue EXCEPT ![p] = {}]
  /\ cur' = [cur EXCEPT ![p] = {}]
  /\ left' = [left EXCEPT ![p] = {}]
  /\ watch' = [watch EXCEPT ![p] = {}]
  /\ phase' = [phase EXCEPT ![p] = [t \in Tasks |-> "none"]]
  /\ given' = [given EXCEPT ![p] = [t \in Tasks |-> {}]]
  /\ got' = [got EXCEPT ![p] = [t \in Tasks |-> Nothing]]
  /\ UNCHANGED <<root, sets, out, cache, store, synced, flags>>

\* The caller's signal or cancel(): what runs is told to stop at once.  A run
\* that yielded is found by cancel() until it is forgotten.
RequestCancel(p) ==
  /\ CanCancel
  /\ Active(p) \/ pc[p] = "leaving"
  /\ ~aborted[p]
  /\ aborted' = [aborted EXCEPT ![p] = TRUE]
  /\ UNCHANGED <<durable, pc, st, pass, slots, failure, ended, runId>>

-----------------------------------------------------------------------------
(* Starting and resuming                                                   *)

Begin(p, s, id) ==
  /\ pc[p] = "idle"
  /\ lock = NoProc
  /\ lock' = p
  /\ pc' = [pc EXCEPT ![p] = "top"]
  /\ st' = [st EXCEPT ![p] = s]
  /\ store' = [id |-> id, s |-> s]
  /\ runId' = [runId EXCEPT ![p] = id]
  /\ UNCHANGED <<root, sets, out, cache, pass, slots, failure, aborted, ended>>

Start(p) == p \in Starters /\ Begin(p, Initialize(root), p)

Resume(p) ==
  /\ store.id # NoProc
  /\ store.s.status = "running"
  /\ Begin(p, Yield(store.s), store.id)

-----------------------------------------------------------------------------
(* The loop                                                                *)

\* A task the launch pass drops from its ready list.
Skipped(p, t) ==
  st[p].task[t] \in {"in_progress", "completed", "waiting"} \/ t \in InFlight(p)

MayLaunch(p) ==
  ~failure[p] /\ ~aborted[p] /\ Cardinality(InFlight(p)) < Width

\* The pass takes its ready list a task at a time, dropping what it skips and
\* deferring what reads versions that disagree, up to a task it prepares.
LaunchCur(p) ==
  phase' = [phase EXCEPT ![p] =
    [t \in Tasks |-> IF t \in cur[p] THEN "running" ELSE phase[p][t]]]
Launchable(p, t) == ~Skipped(p, t) /\ CheckVersionConsistency(st[p], t)
Deferred(p, ts) ==
  SetTasks(st[p], {t \in ts : ~Skipped(p, t)}, "deferred")

PrepareNext(p, ready, sync) ==
  /\ MayLaunch(p)
  /\ \E t \in ready : \E before \in SUBSET (ready \ {t}) :
       /\ Launchable(p, t)
       /\ \A u \in before : ~Launchable(p, u)
       /\ st' = [st EXCEPT ![p] = Deferred(p, before)]
       /\ queue' = [queue EXCEPT ![p] = ready \ (before \union {t})]
       /\ cur' = [cur EXCEPT ![p] = {t}]
       /\ left' = [left EXCEPT ![p] = Reads[t]]
       /\ given' = [given EXCEPT ![p][t] = MergedVV(st[p], t)]
  /\ LaunchCur(p)
  /\ pc' = [pc EXCEPT ![p] = "read"]
  /\ synced' = [synced EXCEPT ![p] = sync]
  /\ UNCHANGED <<durable, watch, got, flags>>

\* The pass ends, its list used up or nothing more to be launched; and, with no
\* await between, the run yields, waits for something in flight, or goes round.
EndPass(p, ready, sync) ==
  LET rest == IF MayLaunch(p) THEN {} ELSE ready
  IN  /\ \A t \in ready : ~(MayLaunch(p) /\ Launchable(p, t))
      /\ st' = [st EXCEPT ![p] = Deferred(p, ready \ rest)]
      /\ \/ /\ CanYield /\ ~failure[p] /\ ~aborted[p]
            /\ pc' = [pc EXCEPT ![p] = "yield"]
            /\ UNCHANGED watch
         \/ /\ InFlight(p) # {}
            /\ pc' = [pc EXCEPT ![p] = "race"]
            /\ watch' = [watch EXCEPT ![p] = InFlight(p)]
         \/ /\ InFlight(p) = {}
            /\ pc' = [pc EXCEPT ![p] =
                 IF ~sync /\ (rest = {} \/ aborted[p] \/ failure[p])
                 THEN "drain" ELSE "top"]
            /\ UNCHANGED watch
      /\ LaunchCur(p)
      /\ cur' = [cur EXCEPT ![p] = {}]
      /\ queue' = [queue EXCEPT ![p] = {}]
      /\ synced' = [synced EXCEPT ![p] = FALSE]
      /\ UNCHANGED <<durable, left, given, got, flags>>

\* The top of the loop: done, or a launch pass over a new ready list.
Top(p) ==
  /\ pc[p] = "top"
  /\ IF InFlight(p) = {} /\ IsComplete(st[p])
     THEN /\ pc' = [pc EXCEPT ![p] = "drain"]
          /\ UNCHANGED <<durable, st, pass, slots, flags>>
     ELSE \/ PrepareNext(p, GetReady(st[p]), FALSE)
          \/ EndPass(p, GetReady(st[p]), FALSE)

\* The pass goes on after an await, with the ready list it started with.
Launch(p) ==
  /\ pc[p] = "launch"
  /\ PrepareNext(p, queue[p], synced[p]) \/ EndPass(p, queue[p], synced[p])

Race(p) ==
  /\ pc[p] = "race"
  /\ ~(watch[p] \subseteq InFlight(p))
  /\ pc' = [pc EXCEPT ![p] = "top"]
  /\ watch' = [watch EXCEPT ![p] = {}]
  /\ UNCHANGED <<durable, st, queue, cur, left, synced, slots, flags>>

\* stepPrepareTask reads one input of the task at a time; with the last it
\* decides whether the task waits, is served from the cache, or starts.  The
\* cache serves it only if the workspace holds that very output.
ReadInput(p, t, d) ==
  /\ pc[p] = "read" /\ t \in cur[p] /\ d \in left[p]
  /\ LET read == [got[p][t] EXCEPT ![d] = DatasetContent(d)]
     IN  /\ got' = [got EXCEPT ![p][t] = read]
         /\ pc' = [pc EXCEPT ![p] =
              CASE left[p] # {d} -> "read"
                [] left[p] = {d} /\ \E r \in Reads[t] : read[r] = {} -> "wait"
                [] left[p] = {d} /\ \A r \in Reads[t] : read[r] # {} ->
                     IF /\ t \notin Forced
                        /\ <<t, read>> \in cache
                        /\ out[t].content = Output(t, read)
                     THEN "hit" ELSE "start"]
  /\ left' = [left EXCEPT ![p] = @ \ {d}]
  /\ UNCHANGED <<durable, st, queue, cur, synced, watch, phase, given, flags>>

\* The preparation is over, and the pass goes on, launching the task started.
NextLaunch(p, sync, started) ==
  /\ pc' = [pc EXCEPT ![p] = "launch"]
  /\ cur' = [cur EXCEPT ![p] = started]
  /\ synced' = [synced EXCEPT ![p] = sync]
  /\ UNCHANGED <<queue, left, watch, failure, runId, root, sets, lock>>

LoopWaiting(p, t) ==
  /\ pc[p] = "wait" /\ t \in cur[p] /\ MutexFree(p)
  /\ st' = [st EXCEPT ![p] = TasksWaiting(@, t)]
  /\ Persist(p, TasksWaiting(st[p], t))
  /\ FreeSlot(p, t)
  /\ NextLaunch(p, TRUE, {})
  /\ UNCHANGED <<out, cache>>

LoopStart(p, t) ==
  /\ pc[p] = "start" /\ t \in cur[p] /\ MutexFree(p)
  /\ st' = [st EXCEPT ![p] = TaskStarted(@, t)]
  /\ Persist(p, TaskStarted(st[p], t))
  /\ NextLaunch(p, synced[p], {t})
  /\ UNCHANGED <<out, cache, slots>>

\* A result applied: the output's dataset ref is written with the version
\* vector the task was launched with, and the run's state takes it.
Apply(p, t, hit) ==
  /\ \E W \in StopsWaiting(SetTasks(st[p], {t}, "completed"), DependentsOf(t)) :
       st' = [st EXCEPT ![p] = TaskCompleted(@, t, hit, W)]
  /\ out' = [out EXCEPT ![t] = [content |-> Output(t, got[p][t]), vv |-> given[p][t]]]

BackToPending(p, t) ==
  /\ st' = [st EXCEPT ![p] = SetTasks(@, {t}, "pending")]
  /\ out' = out

\* A cached result, unless an input moved since the task was prepared.
LoopHit(p, t) ==
  /\ pc[p] = "hit" /\ t \in cur[p] /\ MutexFree(p)
  /\ \/ /\ ResultStale(st[p], t, given[p][t])
        /\ BackToPending(p, t)
        /\ FreeSlot(p, t)
        /\ NextLaunch(p, TRUE, {})
        /\ UNCHANGED <<aborted, ended>>
     \/ /\ ~ResultStale(st[p], t, given[p][t])
        /\ Apply(p, t, TRUE)
        /\ pc' = [pc EXCEPT ![p] = "applied"]
        /\ UNCHANGED <<root, sets, lock, pass, slots, flags>>
  /\ UNCHANGED <<cache, store>>

\* handleInputChanges, then persistState.
PersistThenDetect(p) ==                       \* mutant: the order swapped
  LET s == DetectInputChanges(st[p], root)
      affected == FindAffectedTasks(InputChanges(st[p], root))
  IN  \E W \in StopsWaiting(s, affected) :
        /\ st' = [st EXCEPT ![p] = InvalidateTasks(s, affected, W)]
        /\ Persist(p, st[p])
Detect(p) ==
  LET s == DetectInputChanges(st[p], root)
      affected == FindAffectedTasks(InputChanges(st[p], root))
  IN  \E W \in StopsWaiting(s, affected) :
        /\ st' = [st EXCEPT ![p] = InvalidateTasks(s, affected, W)]
        /\ Persist(p, InvalidateTasks(s, affected, W))

LoopDetect(p, t) ==
  /\ pc[p] = "applied" /\ t \in cur[p]
  /\ Detect(p)
  /\ FreeSlot(p, t)
  /\ NextLaunch(p, TRUE, {})
  /\ UNCHANGED <<out, cache>>

-----------------------------------------------------------------------------
(* The execution of a task and its completion handler, which go on after   *)
(* their run yielded                                                       *)

\* What ends the execution: its program, the cache the runner consults
\* itself, or the run's abort.
Outcome(p, t, outcome) ==
  CASE outcome = "executed" -> t \in Forced \/ <<t, got[p][t]>> \notin cache
    [] outcome = "hit"      -> t \notin Forced /\ <<t, got[p][t]>> \in cache
    [] outcome = "failed"   -> t \in CanFail
    [] outcome = "stopped"  -> aborted[p] \/ pc[p] = "throwing"

RunnerFinish(p, t) ==
  /\ phase[p][t] = "running"
  /\ \E outcome \in {"executed", "hit", "failed", "stopped"} :
       /\ Outcome(p, t, outcome)
       /\ phase' = [phase EXCEPT ![p][t] = outcome]
       /\ cache' = IF outcome = "executed" THEN cache \union {<<t, got[p][t]>>}
                   ELSE cache
  /\ UNCHANGED <<root, sets, out, store, lock, pc, st, pass, given, got, flags>>

HandlerApply(p, t) ==
  /\ phase[p][t] \in {"executed", "hit"} /\ MutexFree(p)
  /\ IF ResultStale(st[p], t, given[p][t])
     THEN BackToPending(p, t) ELSE Apply(p, t, phase[p][t] = "hit")
  /\ phase' = [phase EXCEPT ![p][t] = "applied"]
  /\ UNCHANGED <<root, sets, cache, store, lock, pc, pass, given, got, flags>>

DetectKeepsSlot(p, t) ==                      \* mutant: the slot never freed
  /\ phase[p][t] = "applied"
  /\ Detect(p)
  /\ UNCHANGED <<root, sets, out, cache, lock, pc, pass, slots, failure, runId>>

HandlerDetect(p, t) ==
  /\ phase[p][t] = "applied"
  /\ Detect(p)
  /\ FreeSlot(p, t)
  /\ UNCHANGED <<root, sets, out, cache, lock, pc, pass, failure, runId>>

HandlerStopped(p, t) ==
  /\ phase[p][t] = "stopped" /\ MutexFree(p)
  /\ BackToPending(p, t)
  /\ Persist(p, SetTasks(st[p], {t}, "pending"))
  /\ FreeSlot(p, t)
  /\ UNCHANGED <<root, sets, cache, lock, pc, pass, failure, runId>>

HandlerFailed(p, t) ==
  /\ phase[p][t] = "failed" /\ MutexFree(p)
  /\ LET s == TaskFailed(st[p], t)
         skipped == TasksSkipped(s, ToSkip(s, t))
     IN  st' = [st EXCEPT ![p] = skipped] /\ Persist(p, skipped)
  /\ failure' = [failure EXCEPT ![p] = TRUE]
  /\ FreeSlot(p, t)
  /\ UNCHANGED <<root, sets, out, cache, lock, pc, pass, runId>>

\* The completion threw: writing the output's ref, or re-reading the inputs.
HandlerThrows(p, t) ==
  /\ CanThrow
  /\ \/ phase[p][t] \in {"executed", "hit"} /\ MutexFree(p)
     \/ phase[p][t] = "applied"
  /\ phase' = [phase EXCEPT ![p][t] = "thrown"]
  /\ UNCHANGED <<durable, pc, st, pass, given, got, flags>>

FailTaskKeepsSlot(p, t) ==                    \* mutant: no finally
  /\ phase[p][t] = "thrown" /\ MutexFree(p) /\ st[p].task[t] # "failed"
  /\ st' = [st EXCEPT ![p] = TaskFailed(@, t)]
  /\ Persist(p, TaskFailed(st[p], t))
  /\ failure' = [failure EXCEPT ![p] = TRUE]
  /\ UNCHANGED <<root, sets, out, cache, lock, pc, pass, slots, runId>>

\* failTask fails the task alone: it skips no dependent of it.
HandlerFailTask(p, t) ==
  /\ phase[p][t] = "thrown" /\ MutexFree(p)
  /\ st' = [st EXCEPT ![p] = TaskFailed(@, t)]
  /\ Persist(p, TaskFailed(st[p], t))
  /\ failure' = [failure EXCEPT ![p] = TRUE]
  /\ FreeSlot(p, t)
  /\ UNCHANGED <<root, sets, out, cache, lock, pc, pass, runId>>

-----------------------------------------------------------------------------
(* How a run ends                                                          *)

Leave(p, how) ==
  /\ pc' = [pc EXCEPT ![p] = how]
  /\ lock' = NoProc

\* checkpointYield: handlers still in flight settle after it.  A checkpoint
\* the store did not take, the run having ended, is no yield.
YieldCheckpoint(p) ==
  /\ pc[p] = "yield" /\ MutexFree(p)
  /\ st' = [st EXCEPT ![p] = Yield(@)]
  /\ Write(p, Yield(st[p]))
  /\ Told(p)
  /\ pc' = [pc EXCEPT ![p] = IF Taken(p) THEN "leaving" ELSE "drain"]
  /\ UNCHANGED <<root, sets, out, cache, lock, pass, slots, failure, runId>>

\* The finally of a run that yielded: the locks go, and then the execution.
LetGo(p) ==
  /\ pc[p] = "leaving" /\ lock = p
  /\ lock' = NoProc
  /\ UNCHANGED <<root, sets, out, cache, store, pc, st, pass, slots, flags>>

Forget(p) ==
  /\ pc[p] = "leaving" /\ lock # p
  /\ pc' = [pc EXCEPT ![p] = "yielded"]
  /\ UNCHANGED <<durable, st, pass, slots, flags>>

\* endCancelled, once the mutex is its own: it asks only whether the run ended.
\* One that comes as the run yields waits behind the checkpoint, in the mutex's
\* order, and ends the run after it, whoever runs it by then.
CancelDue(p) ==
  /\ aborted[p] /\ ~ended[p] /\ MutexFree(p)
  /\ pc[p] \notin {"idle", "yield", "dead"}

EndCancelledUnmarked(p) ==                    \* mutant: the end not remembered
  /\ CancelDue(p)
  /\ st' = [st EXCEPT ![p] = Cancel(Yield(@))]
  /\ Write(p, Cancel(Yield(st[p])))
  /\ UNCHANGED <<root, sets, out, cache, lock, pc, pass, slots, flags>>

EndCancelled(p) ==
  /\ CancelDue(p)
  /\ ended' = [ended EXCEPT ![p] = TRUE]
  /\ st' = [st EXCEPT ![p] = Cancel(Yield(@))]
  /\ Write(p, Cancel(Yield(st[p])))
  /\ UNCHANGED <<root, sets, out, cache, lock, pc, pass, slots, failure, aborted, runId>>

\* The loop has broken out: cancelled, stuck, or final.
DrainBeforeEnd(p) ==                          \* mutant: does not record the end
  /\ pc[p] = "drain" /\ InFlight(p) = {} /\ aborted[p]
  /\ Leave(p, "cancelled")
  /\ UNCHANGED <<root, sets, out, cache, store, st, pass, slots, flags>>

DrainCancelled(p) ==
  /\ pc[p] = "drain" /\ InFlight(p) = {}
  /\ aborted[p] /\ ended[p]
  /\ Leave(p, "cancelled")
  /\ UNCHANGED <<root, sets, out, cache, store, st, pass, slots, flags>>

Stuck(p) == StuckTasks(st[p]) # {} /\ ~failure[p]

DrainStuck(p) ==
  /\ pc[p] = "drain" /\ InFlight(p) = {}
  /\ ~aborted[p] /\ Stuck(p)
  /\ pc' = [pc EXCEPT ![p] = "throwing"]
  /\ UNCHANGED <<durable, st, pass, slots, flags>>

\* An end the store did not take is another's, who cancelled the run.
DrainFinalize(p) ==
  /\ pc[p] = "drain" /\ InFlight(p) = {}
  /\ ~aborted[p] /\ ~Stuck(p)
  /\ st' = [st EXCEPT ![p] = Finalize(@)]
  /\ Write(p, Finalize(st[p])) /\ Stops(p)
  /\ ended' = [ended EXCEPT ![p] = TRUE]
  /\ Leave(p, IF Taken(p) THEN "finished" ELSE "cancelled")
  /\ UNCHANGED <<root, sets, out, cache, pass, slots, failure, runId>>

\* The loop itself threw: a read its preparation makes, a step of a cached
\* result, or the read of the task it has just marked as started and is yet to
\* launch.  What it launched is stopped and settles before the run ends.
LoopThrows(p) ==
  /\ CanThrow
  /\ pc[p] \in {"read", "hit", "applied", "launch"}
  /\ \E t \in cur[p] : FreeSlot(p, t)
  /\ pc' = [pc EXCEPT ![p] = "throwing"]
  /\ queue' = [queue EXCEPT ![p] = {}]
  /\ cur' = [cur EXCEPT ![p] = {}]
  /\ left' = [left EXCEPT ![p] = {}]
  /\ UNCHANGED <<durable, st, synced, watch, flags>>

\* The status alone is written, over the last state the store took.
EndFailed(p) ==
  /\ pc[p] = "throwing" /\ InFlight(p) = {}
  /\ ended' = [ended EXCEPT ![p] = TRUE]
  /\ Write(p, [store.s EXCEPT !.status = "failed"]) /\ Stops(p)
  /\ Leave(p, "failed")
  /\ UNCHANGED <<root, sets, out, cache, st, pass, slots, failure, runId>>

-----------------------------------------------------------------------------
Handler(p, t) ==
  \/ RunnerFinish(p, t) \/ HandlerApply(p, t) \/ HandlerDetect(p, t)
  \/ HandlerStopped(p, t) \/ HandlerFailed(p, t) \/ HandlerFailTask(p, t)

LoopStep(p) ==
  \/ Top(p) \/ Launch(p) \/ Race(p)
  \/ \E t \in Tasks : \E d \in Datasets : ReadInput(p, t, d)
  \/ \E t \in Tasks :
       LoopWaiting(p, t) \/ LoopStart(p, t) \/ LoopHit(p, t) \/ LoopDetect(p, t)
  \/ YieldCheckpoint(p) \/ LetGo(p) \/ Forget(p)
  \/ DrainCancelled(p) \/ DrainStuck(p)
  \/ DrainFinalize(p) \/ EndFailed(p)

Next ==
  \/ \E i \in Inputs, v \in Values : SetInput(i, v)
  \/ \E p \in Procs :
       \/ Start(p) \/ Resume(p) \/ Crash(p) \/ RequestCancel(p)
       \/ LoopStep(p) \/ EndCancelled(p) \/ LoopThrows(p)
       \/ \E t \in Tasks : Handler(p, t) \/ HandlerThrows(p, t)

Spec == Init /\ [][Next]_vars

\* Node runs what is queued: the loop, each launched task's program, which
\* ends, and its handler; and cancel's own write.  Nothing makes a run start,
\* an input be set, a process die or a store refuse.
Fairness ==
  \A p \in Procs :
    /\ WF_vars(LoopStep(p)) /\ WF_vars(EndCancelled(p))
    /\ \A t \in Tasks : WF_vars(Handler(p, t))

FairSpec == Spec /\ Fairness
=============================================================================
