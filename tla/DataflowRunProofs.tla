--------------------------- MODULE DataflowRunProofs ---------------------------
(***************************************************************************)
(* Proofs, for every package, number of processes and width, of what a run *)
(* of the dataflow decides of each task, counts, and leaves behind: over   *)
(* the types and the ownership of DataflowProofs.                          *)
(***************************************************************************)
EXTENDS DataflowProofs, Induction

-----------------------------------------------------------------------------
(* What the step functions do to one task's status                         *)

\* SetTasks sets the statuses it is told to, and nothing else of a state.
LEMMA SetTasksAt ==
  ASSUME NEW s \in ExecutionState, NEW ts, NEW status
  PROVE  /\ \A u \in Tasks :
              SetTasks(s, ts, status).task[u] = IF u \in ts THEN status ELSE s.task[u]
         /\ SetTasks(s, ts, status).hit = s.hit
         /\ SetTasks(s, ts, status).vv = s.vv
         /\ SetTasks(s, ts, status).snapshot = s.snapshot
         /\ SetTasks(s, ts, status).executed = s.executed
         /\ SetTasks(s, ts, status).cached = s.cached
         /\ SetTasks(s, ts, status).failed = s.failed
         /\ SetTasks(s, ts, status).skipped = s.skipped
BY DEF SetTasks, ExecutionState

\* MarkReady makes tasks of the run set that are pending ready.
LEMMA MarkReadyAt ==
  ASSUME NEW s \in ExecutionState
  PROVE  /\ \A u \in Tasks :
              \/ MarkReady(s).task[u] = s.task[u]
              \/ u \in RunSet /\ s.task[u] = "pending" /\ MarkReady(s).task[u] = "ready"
         /\ MarkReady(s).hit = s.hit
         /\ MarkReady(s).vv = s.vv
         /\ MarkReady(s).snapshot = s.snapshot
         /\ MarkReady(s).executed = s.executed
         /\ MarkReady(s).cached = s.cached
         /\ MarkReady(s).failed = s.failed
<1> DEFINE ts == GetReady(s) \cap TasksIn(s, {"pending"})
<1>1. \A u \in ts : u \in RunSet /\ s.task[u] = "pending"
  BY DEF GetReady, TasksIn
<1>2. MarkReady(s) = SetTasks(s, ts, "ready")
  BY DEF MarkReady
<1> HIDE DEF ts
<1> QED BY <1>1, <1>2, SetTasksAt

\* A step function decides the tasks ts: any other in progress stays so, and
\* none becomes in progress or completed; the vectors of the others stay.
Decides(s, r, ts) ==
  \A u \in Tasks \ ts :
    /\ r.task[u] = "in_progress" <=> s.task[u] = "in_progress"
    /\ r.task[u] = "completed" => s.task[u] = "completed"
    /\ r.vv[u] = s.vv[u]

\* A step function takes no completion back but those of ts.
KeepsCompleted(s, r, ts) ==
  \A u \in Tasks \ ts : s.task[u] = "completed" => r.task[u] = "completed"

LEMMA SetOneDecides ==
  ASSUME NEW s \in ExecutionState, NEW t \in Tasks, NEW status
  PROVE  /\ Decides(s, SetTasks(s, {t}, status), {t})
         /\ KeepsCompleted(s, SetTasks(s, {t}, status), {t})
         /\ SetTasks(s, {t}, status).task[t] = status
BY SetTasksAt DEF Decides, KeepsCompleted

LEMMA DeferredDecides ==
  ASSUME NEW p \in Procs, NEW ts, st[p] \in ExecutionState
  PROVE  /\ Decides(st[p], Deferred(p, ts), {})
         /\ KeepsCompleted(st[p], Deferred(p, ts), {})
<1>1. \A u \in Tasks :
        Deferred(p, ts).task[u] =
          IF u \in {t \in ts : ~Skipped(p, t)} THEN "deferred" ELSE st[p].task[u]
  BY SetTasksAt DEF Deferred
<1>2. Deferred(p, ts).vv = st[p].vv
  BY SetTasksAt DEF Deferred
<1> QED BY <1>1, <1>2 DEF Decides, KeepsCompleted, Skipped

LEMMA TasksWaitingDecides ==
  ASSUME NEW s \in ExecutionState, NEW t \in Tasks
  PROVE  /\ Decides(s, TasksWaiting(s, t), {t})
         /\ KeepsCompleted(s, TasksWaiting(s, t), {t})
         /\ TasksWaiting(s, t).task[t] = "waiting"
         /\ \A u \in Tasks \ {t} :
              \/ TasksWaiting(s, t).task[u] = s.task[u]
              \/ /\ u \in RunSet /\ TasksWaiting(s, t).task[u] = "waiting"
                 /\ s.task[u] # "completed"
         /\ TasksWaiting(s, t).hit = s.hit /\ TasksWaiting(s, t).failed = s.failed
         /\ TasksWaiting(s, t).cached = s.cached
         /\ TasksWaiting(s, t).executed = s.executed
<1> DEFINE s1 == SetTasks(s, {t}, "waiting")
           ts == GetDependentsToSkip(t, TasksIn(s1, {"completed"}),
                                     TasksIn(s1, {"skipped", "waiting"}))
                   \cap RunSet \cap TasksIn(s1, {"pending", "ready", "deferred"})
<1>1. s1 \in ExecutionState
  BY SetTasksType, StatusTypes
<1>2. /\ TasksWaiting(s, t) = SetTasks(s1, ts, "waiting")
      /\ \A u \in ts : u \in RunSet /\ s1.task[u] \in {"pending", "ready", "deferred"}
  BY DEF TasksWaiting, TasksIn
<1>3. Decides(s, s1, {t}) /\ KeepsCompleted(s, s1, {t}) /\ s1.task[t] = "waiting"
  BY SetOneDecides
<1>4. /\ \A u \in Tasks : s1.task[u] = IF u = t THEN "waiting" ELSE s.task[u]
      /\ s1.hit = s.hit /\ s1.failed = s.failed
      /\ s1.cached = s.cached /\ s1.executed = s.executed
  BY SetTasksAt
<1> HIDE DEF s1, ts
<1> DEFINE r == TasksWaiting(s, t)
<1>5. /\ \A u \in Tasks : r.task[u] = IF u \in ts THEN "waiting" ELSE s1.task[u]
      /\ r.vv = s1.vv /\ r.hit = s1.hit /\ r.failed = s1.failed
      /\ r.cached = s1.cached /\ r.executed = s1.executed
  BY <1>1, <1>2, SetTasksAt
<1> HIDE DEF r
<1>6. Decides(s, r, {t}) /\ KeepsCompleted(s, r, {t}) /\ r.task[t] = "waiting"
  BY <1>2, <1>3, <1>5 DEF Decides, KeepsCompleted
<1>7. \A u \in Tasks \ {t} :
        \/ r.task[u] = s.task[u]
        \/ u \in RunSet /\ r.task[u] = "waiting" /\ s.task[u] # "completed"
  BY <1>2, <1>4, <1>5
<1> QED BY <1>4, <1>5, <1>6, <1>7 DEF r

\* No task reads its own output.
LEMMA NoSelfLoop ==
  ASSUME NEW t \in Tasks
  PROVE  t \notin Reads[t]
BY AcyclicAssumption DEF Cone

\* A completion decides its task, which stands completed with the version
\* vector its inputs have; others only go from deferred or waiting to pending
\* and from pending to ready.
LEMMA TaskCompletedDecides ==
  ASSUME NEW s \in ExecutionState, NEW t \in Tasks, NEW hit \in BOOLEAN, NEW ts, NEW W, NEW r,
         W \in StopsWaiting(SetTasks(s, {t}, "completed"), ts),
         r = TaskCompleted(s, t, hit, W)
  PROVE  /\ Decides(s, r, {t})
         /\ KeepsCompleted(s, r, {})
         /\ r.task[t] = "completed"
         /\ r.vv[t] = MergedVV(s, t)
         /\ r.hit[t] <=> hit
         /\ \A u \in Tasks \ {t} : r.hit[u] = s.hit[u]
         /\ r.cached = s.cached + (IF hit THEN 1 ELSE 0)
         /\ r.executed = s.executed + (IF hit THEN 0 ELSE 1)
         /\ r.failed = s.failed
         /\ \A u \in Tasks \ {t} :
              \/ r.task[u] = s.task[u]
              \/ r.task[u] = "pending"
              \/ u \in RunSet /\ r.task[u] = "ready"
<1> DEFINE r0 == SetTasks(s, {t}, "completed")
           s1 == [r0 EXCEPT
                   !.hit = [s.hit EXCEPT ![t] = hit],
                   !.cached = s.cached + (IF hit THEN 1 ELSE 0),
                   !.executed = s.executed + (IF hit THEN 0 ELSE 1),
                   !.vv = [s.vv EXCEPT ![t] = MergedVV(s, t)]]
           back == W \union (DependentsOf(t) \cap TasksIn(s, {"deferred"}))
           s2 == SetTasks(s1, back, "pending")
<1>1. r0 \in ExecutionState
  BY SetTasksType, StatusTypes
<1>2. \A u \in Tasks : r0.task[u] = IF u = t THEN "completed" ELSE s.task[u]
  BY SetTasksAt
<1>2a. r0.failed = s.failed
  BY SetTasksAt
<1>3. \A u \in W : u # t /\ s.task[u] = "waiting" /\ u \in Tasks
  BY <1>2 DEF StopsWaiting, TasksIn
<1>4. \A u \in back : u # t /\ s.task[u] \in {"waiting", "deferred"}
  BY <1>3, NoSelfLoop DEF DependentsOf, DependsOn, TasksIn
<1>5. r = MarkReady(s2)
  BY DEF TaskCompleted
<1> HIDE DEF r0
<1>6. MergedVV(s, t) \in SUBSET Versions
  BY MergedVVType
<1>7. /\ [s.hit EXCEPT ![t] = hit] \in [Tasks -> BOOLEAN]
      /\ [s.vv EXCEPT ![t] = MergedVV(s, t)] \in [Tasks -> SUBSET Versions]
      /\ s.cached + (IF hit THEN 1 ELSE 0) \in Int
      /\ s.executed + (IF hit THEN 0 ELSE 1) \in Int
  BY <1>6 DEF ExecutionState
<1>8. s1 \in ExecutionState
  BY <1>1, <1>7 DEF ExecutionState
<1>9. /\ s1.task = r0.task
      /\ s1.hit = [s.hit EXCEPT ![t] = hit]
      /\ s1.vv = [s.vv EXCEPT ![t] = MergedVV(s, t)]
      /\ s1.cached = s.cached + (IF hit THEN 1 ELSE 0)
      /\ s1.executed = s.executed + (IF hit THEN 0 ELSE 1)
      /\ s1.failed = s.failed
  BY <1>1, <1>2a DEF ExecutionState
<1> HIDE DEF s1, back
<1>10. s2 \in ExecutionState
  BY <1>8, SetTasksType, StatusTypes
<1>11. /\ \A u \in Tasks : s2.task[u] = IF u \in back THEN "pending" ELSE s1.task[u]
       /\ s2.hit = s1.hit /\ s2.vv = s1.vv
       /\ s2.cached = s1.cached /\ s2.executed = s1.executed /\ s2.failed = s1.failed
  BY <1>8, SetTasksAt
<1> HIDE DEF s2
<1>12. /\ r.hit = [s.hit EXCEPT ![t] = hit]
       /\ r.cached = s.cached + (IF hit THEN 1 ELSE 0)
       /\ r.executed = s.executed + (IF hit THEN 0 ELSE 1)
       /\ r.failed = s.failed
       /\ r.vv = [s.vv EXCEPT ![t] = MergedVV(s, t)]
  BY <1>5, <1>9, <1>10, <1>11, MarkReadyAt
<1>13. \A u \in Tasks : \/ r.task[u] = s2.task[u]
                        \/ u \in RunSet /\ s2.task[u] = "pending" /\ r.task[u] = "ready"
  BY <1>5, <1>10, MarkReadyAt
<1>14. r.task[t] = "completed"
  BY <1>2, <1>4, <1>9, <1>11, <1>13
<1>15. \A u \in Tasks \ {t} :
         \/ r.task[u] = s.task[u]
         \/ /\ s.task[u] \in {"waiting", "deferred", "pending"}
            /\ r.task[u] # "pending" => u \in RunSet /\ r.task[u] = "ready"
  BY <1>2, <1>4, <1>9, <1>11, <1>13
<1>16. \A u \in Tasks \ {t} : r.vv[u] = s.vv[u]
  BY <1>12 DEF ExecutionState
<1>17. r.vv[t] = MergedVV(s, t)
  BY <1>12 DEF ExecutionState
<1>18. Decides(s, r, {t}) /\ KeepsCompleted(s, r, {})
  BY <1>14, <1>15, <1>16 DEF Decides, KeepsCompleted
<1>19. (r.hit[t] <=> hit) /\ \A u \in Tasks \ {t} : r.hit[u] = s.hit[u]
  BY <1>12 DEF ExecutionState
<1> QED BY <1>12, <1>14, <1>15, <1>17, <1>18, <1>19

\* An invalidation decides nothing in progress: a task stays as it is or goes
\* from completed, deferred or waiting back to pending.
LEMMA InvalidateDecides ==
  ASSUME NEW s \in ExecutionState, NEW affected, NEW ts, NEW W \in StopsWaiting(s, ts)
  PROVE  LET r == InvalidateTasks(s, affected, W)
         IN  /\ Decides(s, r, {})
             /\ r.failed = s.failed
             /\ \A u \in Tasks :
                  \/ r.task[u] = s.task[u]
                  \/ r.task[u] = "pending" /\ s.task[u] \in {"completed", "deferred", "waiting"}
<1> DEFINE done == affected \cap TasksIn(s, {"completed"})
           hits == {t \in done : s.hit[t]}
           back == done \union W \union (affected \cap TasksIn(s, {"deferred"}))
           r0   == SetTasks(s, back, "pending")
           r    == InvalidateTasks(s, affected, W)
<1>1. \A u \in back : s.task[u] \in {"completed", "deferred", "waiting"}
  BY DEF StopsWaiting, TasksIn
<1>2. r = [r0 EXCEPT !.hit = [t \in Tasks |-> s.hit[t] /\ t \notin done],
                     !.cached = s.cached - Cardinality(hits),
                     !.executed = s.executed - Cardinality(done \ hits)]
  BY DEF InvalidateTasks
<1>3. r0 \in ExecutionState
  BY SetTasksType, StatusTypes
<1>4. /\ \A u \in Tasks : r0.task[u] = IF u \in back THEN "pending" ELSE s.task[u]
      /\ r0.vv = s.vv /\ r0.failed = s.failed
  BY SetTasksAt
<1> HIDE DEF r0, r, back, done, hits
<1>5. r.task = r0.task /\ r.vv = r0.vv /\ r.failed = r0.failed
  BY <1>2, <1>3 DEF ExecutionState
<1>6. \A u \in Tasks :
        \/ r.task[u] = s.task[u]
        \/ r.task[u] = "pending" /\ s.task[u] \in {"completed", "deferred", "waiting"}
  BY <1>1, <1>4, <1>5
<1>7. Decides(s, r, {})
  BY <1>4, <1>5, <1>6 DEF Decides
<1> QED BY <1>4, <1>5, <1>6, <1>7 DEF r

LEMMA DetectDecides ==
  ASSUME TypeOK, NEW p \in Procs, Detect(p)
  PROVE  \E r \in ExecutionState :
           /\ st' = [st EXCEPT ![p] = r]
           /\ Persist(p, r)
           /\ Decides(st[p], r, {})
           /\ r.failed = st[p].failed
           /\ \A u \in Tasks :
                \/ r.task[u] = st[p].task[u]
                \/ r.task[u] = "pending" /\ st[p].task[u] \in {"completed", "deferred", "waiting"}
<1> DEFINE s1 == DetectInputChanges(st[p], root)
           affected == FindAffectedTasks(InputChanges(st[p], root))
<1>1. PICK W \in StopsWaiting(s1, affected) :
        /\ st' = [st EXCEPT ![p] = InvalidateTasks(s1, affected, W)]
        /\ Persist(p, InvalidateTasks(s1, affected, W))
  BY DEF Detect
<1>2. st[p] \in ExecutionState /\ root \in [Inputs -> Values \union {Unassigned}]
  BY DEF TypeOK
<1>3. s1 \in ExecutionState
  BY <1>2, DetectInputChangesType
<1>4. s1.task = st[p].task /\ s1.vv = st[p].vv /\ s1.failed = st[p].failed
  BY <1>2 DEF DetectInputChanges, ExecutionState
<1> HIDE DEF s1, affected
<1> DEFINE r == InvalidateTasks(s1, affected, W)
<1>5. r \in ExecutionState
  BY <1>3, InvalidateTasksType
<1>6. /\ Decides(s1, r, {}) /\ r.failed = s1.failed
      /\ \A u \in Tasks :
           \/ r.task[u] = s1.task[u]
           \/ r.task[u] = "pending" /\ s1.task[u] \in {"completed", "deferred", "waiting"}
  BY <1>3, InvalidateDecides
<1>7. st' = [st EXCEPT ![p] = r] /\ Persist(p, r)
  BY <1>1
<1> HIDE DEF r
<1>8. Decides(st[p], r, {})
  BY <1>4, <1>6 DEF Decides
<1> QED BY <1>4, <1>5, <1>6, <1>7, <1>8

\* A failure decides its task, which stands failed or skipped; others it skips
\* were neither completed nor in progress.
LEMMA FailureDecides ==
  ASSUME NEW s \in ExecutionState, NEW t \in Tasks
  PROVE  LET f == TaskFailed(s, t)
             r == TasksSkipped(f, ToSkip(f, t))
         IN  /\ f \in ExecutionState /\ r \in ExecutionState
             /\ Decides(s, f, {t}) /\ Decides(s, r, {t})
             /\ KeepsCompleted(s, f, {t}) /\ KeepsCompleted(s, r, {t})
             /\ f.task[t] = "failed" /\ r.task[t] \in {"failed", "skipped"}
             /\ f.failed = s.failed + 1 /\ r.failed = s.failed + 1
             /\ \A u \in Tasks \ {t} : f.task[u] = s.task[u]
             /\ \A u \in Tasks \ {t} :
                  \/ r.task[u] = s.task[u]
                  \/ u \in RunSet /\ r.task[u] = "skipped"
             /\ f.hit = s.hit /\ r.hit = s.hit
             /\ f.cached = s.cached /\ r.cached = s.cached
             /\ f.executed = s.executed /\ r.executed = s.executed
<1> DEFINE f == TaskFailed(s, t)
           ts == ToSkip(f, t)
           r == TasksSkipped(f, ts)
           f0 == SetTasks(s, {t}, "failed")
           r0 == SetTasks(f, ts, "skipped")
<1>1. f \in ExecutionState
  BY TaskFailedType
<1>2. f0 \in ExecutionState
  BY SetTasksType, StatusTypes
<1>3. /\ \A u \in Tasks : f0.task[u] = IF u = t THEN "failed" ELSE s.task[u]
      /\ f0.hit = s.hit /\ f0.vv = s.vv /\ f0.cached = s.cached /\ f0.executed = s.executed
  BY SetTasksAt
<1>4. f = [f0 EXCEPT !.failed = s.failed + 1]
  BY DEF TaskFailed
<1> HIDE DEF f0
<1>5. /\ f.task = f0.task /\ f.hit = f0.hit /\ f.vv = f0.vv
      /\ f.cached = f0.cached /\ f.executed = f0.executed /\ f.failed = s.failed + 1
  BY <1>2, <1>4 DEF ExecutionState
<1> HIDE DEF f
<1>6. ts \in SUBSET Tasks
  BY DEF ToSkip, GetDependentsToSkip, Cone
<1>7. r \in ExecutionState
  BY <1>1, <1>6, TasksSkippedType
<1>8. \A u \in ts : u \in RunSet /\ f.task[u] \notin {"completed", "in_progress"}
  BY DEF ToSkip, GetDependentsToSkip, Cone, TasksIn
<1>9. r = [r0 EXCEPT !.skipped = f.skipped + Cardinality(ts)]
  BY DEF TasksSkipped
<1> HIDE DEF ts
<1>10. r0 \in ExecutionState
  BY <1>1, SetTasksType, StatusTypes
<1>11. /\ \A u \in Tasks : r0.task[u] = IF u \in ts THEN "skipped" ELSE f.task[u]
       /\ r0.hit = f.hit /\ r0.vv = f.vv /\ r0.cached = f.cached /\ r0.executed = f.executed
       /\ r0.failed = f.failed
  BY <1>1, SetTasksAt
<1> HIDE DEF r0, r
<1>12. /\ r.task = r0.task /\ r.hit = r0.hit /\ r.vv = r0.vv
       /\ r.cached = r0.cached /\ r.executed = r0.executed /\ r.failed = r0.failed
  BY <1>9, <1>10 DEF ExecutionState
<1>13. Decides(s, f, {t}) /\ KeepsCompleted(s, f, {t})
  BY <1>3, <1>5 DEF Decides, KeepsCompleted
<1>14. Decides(s, r, {t}) /\ KeepsCompleted(s, r, {t})
  BY <1>3, <1>5, <1>8, <1>11, <1>12 DEF Decides, KeepsCompleted
<1>15. /\ f.task[t] = "failed" /\ r.task[t] \in {"failed", "skipped"}
       /\ \A u \in Tasks \ {t} : f.task[u] = s.task[u]
       /\ \A u \in Tasks \ {t} :
            \/ r.task[u] = s.task[u]
            \/ u \in RunSet /\ r.task[u] = "skipped"
  <2>1. \A u \in Tasks : f.task[u] = IF u = t THEN "failed" ELSE s.task[u]
    BY <1>3, <1>5
  <2>2. \A u \in Tasks : r.task[u] = IF u \in ts THEN "skipped" ELSE f.task[u]
    BY <1>11, <1>12
  <2> QED BY <1>8, <2>1, <2>2
<1>16. /\ f.failed = s.failed + 1 /\ r.failed = s.failed + 1
       /\ f.hit = s.hit /\ r.hit = s.hit
       /\ f.cached = s.cached /\ r.cached = s.cached
       /\ f.executed = s.executed /\ r.executed = s.executed
  BY <1>3, <1>5, <1>11, <1>12
<1>17. f = TaskFailed(s, t) /\ r = TasksSkipped(f, ToSkip(f, t))
  BY DEF f, r, ts
<1> QED BY <1>1, <1>7, <1>13, <1>14, <1>15, <1>16, <1>17

\* A yield puts what was in flight back to pending, and an end changes no task.
LEMMA YieldAt ==
  ASSUME NEW s \in ExecutionState
  PROVE  /\ \A u \in Tasks :
              Yield(s).task[u] = IF s.task[u] \in {"in_progress", "deferred", "waiting"}
                                 THEN "pending" ELSE s.task[u]
         /\ Yield(s).hit = s.hit /\ Yield(s).vv = s.vv /\ Yield(s).failed = s.failed
         /\ Yield(s).cached = s.cached /\ Yield(s).executed = s.executed
BY SetTasksAt DEF Yield, TasksIn

LEMMA EndAt ==
  ASSUME NEW s \in ExecutionState
  PROVE  /\ Finalize(s).task = s.task /\ Finalize(s).hit = s.hit /\ Finalize(s).vv = s.vv
         /\ Finalize(s).failed = s.failed
         /\ Finalize(s).cached = s.cached /\ Finalize(s).executed = s.executed
         /\ Cancel(s).task = s.task /\ Cancel(s).hit = s.hit /\ Cancel(s).vv = s.vv
         /\ Cancel(s).failed = s.failed
         /\ Cancel(s).cached = s.cached /\ Cancel(s).executed = s.executed
BY DEF Finalize, Cancel, ExecutionState

\* A run starts with each task pending or ready, and nothing counted.
LEMMA InitializeAt ==
  ASSUME NEW roots \in [Inputs -> Values \union {Unassigned}]
  PROVE  /\ \A u \in Tasks :
              \/ Initialize(roots).task[u] = "pending"
              \/ u \in RunSet /\ Initialize(roots).task[u] = "ready"
         /\ Initialize(roots).failed = 0
         /\ Initialize(roots).cached = 0 /\ Initialize(roots).executed = 0
<1> DEFINE s0 == [status |-> "running",
                  task |-> [t \in Tasks |-> "pending"],
                  hit |-> [t \in Tasks |-> FALSE],
                  snapshot |-> roots,
                  vv |-> [t \in Tasks |-> {}],
                  executed |-> 0, cached |-> 0, failed |-> 0, skipped |-> 0]
<1>1. s0 \in ExecutionState
  BY StatusTypes DEF ExecutionState
<1>2. /\ s0.failed = 0 /\ s0.cached = 0 /\ s0.executed = 0
      /\ \A u \in Tasks : s0.task[u] = "pending"
  OBVIOUS
<1>3. Initialize(roots) = MarkReady(s0)
  BY DEF Initialize
<1> HIDE DEF s0
<1> QED BY <1>1, <1>2, <1>3, MarkReadyAt

-----------------------------------------------------------------------------
(* A run decides only tasks of its run set, and blames a failure           *)

\* Nothing is decided of a task outside the run set, and a task failed or was
\* skipped only in a run that counts a failure.
Confined(s) == \A t \in Tasks \ RunSet : s.task[t] = "pending"
Blame(s) ==
  /\ s.failed >= 0
  /\ s.failed = 0 => TasksIn(s, {"failed", "skipped"}) = {}
Sound(s) == Confined(s) /\ Blame(s)

\* What keeps a state so.
Moves(s, r) ==
  /\ r.failed >= s.failed
  /\ \A u \in Tasks :
       \/ r.task[u] = s.task[u]
       \/ r.task[u] = "pending"
       \/ /\ u \in RunSet
          /\ r.task[u] \in {"failed", "skipped"} => r.failed > s.failed

LEMMA MovesSound ==
  ASSUME NEW s \in ExecutionState, NEW r \in ExecutionState, Sound(s), Moves(s, r)
  PROVE  Sound(r)
<1>1. s.failed \in Int /\ r.failed \in Int
  BY DEF ExecutionState
<1>2. Confined(r)
  BY DEF Sound, Confined, Moves
<1>3. Blame(r)
  BY <1>1 DEF Sound, Blame, Moves, TasksIn
<1> QED BY <1>2, <1>3 DEF Sound

LEMMA InitializeSound ==
  ASSUME NEW roots \in [Inputs -> Values \union {Unassigned}]
  PROVE  Sound(Initialize(roots))
BY InitializeAt DEF Sound, Confined, Blame, TasksIn

LEMMA DeferredMoves ==
  ASSUME NEW p \in Procs, NEW ts, st[p] \in ExecutionState, ts \subseteq RunSet
  PROVE  Moves(st[p], Deferred(p, ts))
<1>1. \A u \in Tasks :
        Deferred(p, ts).task[u] =
          IF u \in {t \in ts : ~Skipped(p, t)} THEN "deferred" ELSE st[p].task[u]
  BY SetTasksAt DEF Deferred
<1>2. Deferred(p, ts).failed = st[p].failed /\ st[p].failed \in Int
  BY SetTasksAt DEF Deferred, ExecutionState
<1> QED BY <1>1, <1>2 DEF Moves

LEMMA OneTaskMoves ==
  ASSUME NEW s \in ExecutionState, NEW t \in Tasks
  PROVE  /\ Moves(s, SetTasks(s, {t}, "pending"))
         /\ t \in RunSet => Moves(s, TaskStarted(s, t))
         /\ t \in RunSet => Moves(s, TasksWaiting(s, t))
         /\ t \in RunSet => Moves(s, TaskFailed(s, t))
         /\ t \in RunSet =>
              Moves(s, TasksSkipped(TaskFailed(s, t), ToSkip(TaskFailed(s, t), t)))
<1>1. s.failed \in Int
  BY DEF ExecutionState
<1>2. Moves(s, SetTasks(s, {t}, "pending"))
  BY <1>1, SetTasksAt DEF Moves
<1>3. t \in RunSet => Moves(s, TaskStarted(s, t))
  BY <1>1, SetTasksAt DEF Moves, TaskStarted
<1>4. t \in RunSet => Moves(s, TasksWaiting(s, t))
  <2> DEFINE w == TasksWaiting(s, t)
  <2>1. /\ w.failed = s.failed /\ w.task[t] = "waiting"
        /\ \A u \in Tasks \ {t} :
             \/ w.task[u] = s.task[u]
             \/ u \in RunSet /\ w.task[u] = "waiting"
    BY TasksWaitingDecides
  <2> HIDE DEF w
  <2>2. t \in RunSet => Moves(s, w)
    BY <1>1, <2>1 DEF Moves
  <2> QED BY <2>2 DEF w
<1> DEFINE f == TaskFailed(s, t)
           r == TasksSkipped(f, ToSkip(f, t))
<1>5. /\ f.failed = s.failed + 1 /\ r.failed = s.failed + 1
      /\ \A u \in Tasks \ {t} : f.task[u] = s.task[u]
      /\ \A u \in Tasks \ {t} :
           \/ r.task[u] = s.task[u]
           \/ u \in RunSet /\ r.task[u] = "skipped"
  BY FailureDecides, ZenonT(60)
<1> HIDE DEF f, r
<1>6. t \in RunSet => Moves(s, f) /\ Moves(s, r)
  BY <1>1, <1>5 DEF Moves
<1> QED BY <1>2, <1>3, <1>4, <1>6 DEF f, r

LEMMA EndMoves ==
  ASSUME NEW s \in ExecutionState
  PROVE  /\ Moves(s, Yield(s)) /\ Moves(s, Finalize(s))
         /\ Moves(s, Cancel(Yield(s)))
         /\ Moves(s, [s EXCEPT !.status = "failed"])
<1>1. s.failed \in Int /\ Yield(s) \in ExecutionState
  BY EndTypes DEF ExecutionState
<1>2. Moves(s, Yield(s)) /\ Moves(s, Finalize(s)) /\ Moves(s, Cancel(Yield(s)))
  BY <1>1, YieldAt, EndAt DEF Moves
<1>3. Moves(s, [s EXCEPT !.status = "failed"])
  BY <1>1 DEF Moves, ExecutionState
<1> QED BY <1>2, <1>3

LEMMA ApplyMoves ==
  ASSUME TypeOK, NEW p \in Procs, NEW t \in Tasks, NEW hit \in BOOLEAN,
         Apply(p, t, hit) \/ BackToPending(p, t), t \in RunSet
  PROVE  \E r \in ExecutionState : st' = [st EXCEPT ![p] = r] /\ Moves(st[p], r)
<1>1. st[p] \in ExecutionState /\ st[p].failed \in Int
  BY DEF TypeOK, ExecutionState
<1>2. CASE BackToPending(p, t)
  <2>1. st' = [st EXCEPT ![p] = SetTasks(st[p], {t}, "pending")]
    BY <1>2 DEF BackToPending, TypeOK
  <2> QED BY <1>1, <2>1, OneTaskMoves, OneTaskTypes
<1>3. CASE Apply(p, t, hit)
  <2>1. PICK W \in StopsWaiting(SetTasks(st[p], {t}, "completed"), DependentsOf(t)) :
          st' = [st EXCEPT ![p] = TaskCompleted(st[p], t, hit, W)]
    BY <1>3 DEF Apply, TypeOK
  <2> DEFINE r == TaskCompleted(st[p], t, hit, W)
  <2>2. r \in ExecutionState
    BY <1>1, TaskCompletedType
  <2>3. /\ r.failed = st[p].failed
        /\ r.task[t] = "completed"
        /\ \A u \in Tasks \ {t} :
             \/ r.task[u] = st[p].task[u]
             \/ r.task[u] = "pending"
             \/ u \in RunSet /\ r.task[u] = "ready"
    BY <1>1, <2>1, TaskCompletedDecides
  <2> HIDE DEF r
  <2>4. Moves(st[p], r)
    BY <1>1, <2>3 DEF Moves
  <2> QED BY <2>1, <2>2, <2>4 DEF r
<1> QED BY <1>2, <1>3

\* What a run has in hand is in its run set, the states in memory and in the
\* store are sound, and a run that met a failure counts it.
InRun(p) ==
  /\ queue[p] \subseteq RunSet /\ cur[p] \subseteq RunSet
  /\ \A t \in Tasks : phase[p][t] # "none" => t \in RunSet
RunsSound ==
  /\ Sound(store.s)
  /\ \A p \in Procs :
       /\ Sound(st[p]) /\ InRun(p)
       /\ Active(p) /\ failure[p] => st[p].failed > 0

\* A step of a process that moves the run's state, and at most writes it, or
\* its status alone.
MovesState(p) ==
  /\ \E r \in ExecutionState :
       /\ st' = [st EXCEPT ![p] = r] /\ Moves(st[p], r)
       /\ store'.s \in {store.s, r, [store.s EXCEPT !.status = "failed"]}
       /\ failure'[p] => failure[p] \/ r.failed > st[p].failed
  /\ \A q \in Procs \ {p} : failure'[q] = failure[q]

SoundStep(p) ==
  /\ MovesState(p)
  /\ InRun(p)' /\ (Active(p)' => Active(p))
  /\ \A q \in Procs \ {p} :
       /\ queue'[q] = queue[q] /\ cur'[q] = cur[q] /\ phase'[q] = phase[q]
       /\ pc'[q] = pc[q]

LEMMA SoundStepKeeps ==
  ASSUME TypeOK, RunsSound, NEW p \in Procs, SoundStep(p)
  PROVE  RunsSound'
<1>1. PICK r \in ExecutionState :
        /\ st' = [st EXCEPT ![p] = r] /\ Moves(st[p], r)
        /\ store'.s \in {store.s, r, [store.s EXCEPT !.status = "failed"]}
        /\ failure'[p] => failure[p] \/ r.failed > st[p].failed
  BY DEF SoundStep, MovesState
<1>2. st[p] \in ExecutionState /\ store.s \in ExecutionState
  BY DEF TypeOK
<1>3. Sound(r)
  BY <1>1, <1>2, MovesSound DEF RunsSound
<1>4. Sound([store.s EXCEPT !.status = "failed"])
  BY <1>2, EndTypes, EndMoves, MovesSound DEF RunsSound
<1>5. Sound(store'.s)
  BY <1>1, <1>3, <1>4 DEF RunsSound
<1>6. ASSUME NEW q \in Procs
      PROVE  /\ Sound(st'[q]) /\ InRun(q)'
             /\ Active(q)' /\ failure'[q] => st'[q].failed > 0
  <2>1. CASE q = p
    <3>1. st'[p] = r
      BY <1>1 DEF TypeOK
    <3>2. r.failed >= st[p].failed /\ r.failed \in Int /\ st[p].failed \in Int /\ st[p].failed >= 0
      BY <1>1, <1>2 DEF Moves, RunsSound, Sound, Blame, ExecutionState
    <3>3. Active(p)' /\ failure'[p] => r.failed > 0
      BY <1>1, <3>2 DEF SoundStep, RunsSound
    <3> QED BY <1>3, <2>1, <3>1, <3>3 DEF SoundStep
  <2>2. CASE q # p
    <3>1. st'[q] = st[q]
      BY <1>1, <2>2 DEF TypeOK
    <3>2. InRun(q)'
      BY <2>2 DEF SoundStep, RunsSound, InRun
    <3>3. Active(q)' = Active(q) /\ failure'[q] = failure[q]
      BY <2>2 DEF SoundStep, MovesState, Active
    <3> QED BY <3>1, <3>2, <3>3 DEF RunsSound
  <2> QED BY <2>1, <2>2
<1> QED BY <1>5, <1>6 DEF RunsSound

\* A written state is the one given, or the store is left.
LEMMA WrittenState ==
  ASSUME TypeOK, NEW p \in Procs, NEW s \in ExecutionState,
         Write(p, s) \/ Persist(p, s) \/ store' = store
  PROVE  store'.s \in {store.s, s}
BY DEF TypeOK, Write, Persist

\* FreeSlot and LaunchCur track no task that was not in hand.
LEMMA SlotsInRun ==
  ASSUME TypeOK, NEW p \in Procs, InRun(p),
         \/ LaunchCur(p) \/ phase' = phase
         \/ \E t \in Tasks : FreeSlot(p, t)
         \/ \E t \in Tasks, x \in Phase : phase[p][t] # "none" /\ phase' = [phase EXCEPT ![p][t] = x]
  PROVE  \A t \in Tasks : phase'[p][t] # "none" => t \in RunSet
BY DEF TypeOK, InRun, LaunchCur, FreeSlot

LEMMA PassSound ==
  ASSUME TypeOK, RunsSound, NEW p \in Procs, Active(p), NEW ready, ready \subseteq RunSet,
         NEW sync, PrepareNext(p, ready, sync) \/ EndPass(p, ready, sync)
  PROVE  SoundStep(p)
<1>1. PICK ts \in SUBSET RunSet : st' = [st EXCEPT ![p] = Deferred(p, ts)]
  BY DEF PrepareNext, EndPass
<1>2. /\ Deferred(p, ts) \in ExecutionState
      /\ Moves(st[p], Deferred(p, ts))
  BY SetTasksType, StatusTypes, DeferredMoves DEF Deferred, TypeOK
<1>3. LaunchCur(p) /\ UNCHANGED <<store, failure>>
  BY DEF PrepareNext, EndPass, durable, flags
<1>4. \E qs \in SUBSET RunSet, cs \in SUBSET RunSet :
        queue' = [queue EXCEPT ![p] = qs] /\ cur' = [cur EXCEPT ![p] = cs]
  <2>1. CASE PrepareNext(p, ready, sync)
    <3>1. PICK t \in ready, before \in SUBSET ready :
            /\ queue' = [queue EXCEPT ![p] = ready \ (before \union {t})]
            /\ cur' = [cur EXCEPT ![p] = {t}]
      BY <2>1 DEF PrepareNext
    <3>2. ready \ (before \union {t}) \in SUBSET RunSet /\ {t} \in SUBSET RunSet
      BY <3>1
    <3> QED BY <3>1, <3>2
  <2>2. CASE EndPass(p, ready, sync)
    <3>1. queue' = [queue EXCEPT ![p] = {}] /\ cur' = [cur EXCEPT ![p] = {}]
      BY <2>2 DEF EndPass
    <3>2. {} \in SUBSET RunSet
      OBVIOUS
    <3> QED BY <3>1, <3>2
  <2> QED BY <2>1, <2>2
<1>5. \E l : pc' = [pc EXCEPT ![p] = l]
  BY DEF PrepareNext, EndPass
<1>6. InRun(p)'
  <2>1. queue'[p] \subseteq RunSet /\ cur'[p] \subseteq RunSet
    BY <1>4 DEF TypeOK
  <2>2. \A t \in Tasks : phase'[p][t] # "none" => t \in RunSet
    BY <1>3, SlotsInRun DEF RunsSound
  <2> QED BY <2>1, <2>2 DEF InRun
<1>7. \A q \in Procs \ {p} :
        /\ queue'[q] = queue[q] /\ cur'[q] = cur[q] /\ phase'[q] = phase[q]
        /\ pc'[q] = pc[q] /\ failure'[q] = failure[q]
  BY <1>3, <1>4, <1>5, OtherPhases DEF TypeOK
<1> QED BY <1>1, <1>2, <1>3, <1>6, <1>7 DEF SoundStep, MovesState

LEMMA LoopTaskSound ==
  ASSUME TypeOK, RunsSound, NEW p \in Procs, NEW t \in Tasks,
         \/ LoopWaiting(p, t) \/ LoopStart(p, t) \/ LoopHit(p, t) \/ LoopDetect(p, t)
  PROVE  SoundStep(p)
<1>1. Active(p) /\ t \in RunSet /\ InRun(p) /\ st[p] \in ExecutionState
  BY DEF LoopWaiting, LoopStart, LoopHit, LoopDetect, Active, Loop, RunsSound, InRun, TypeOK
<1>2. /\ \E l : pc' = [pc EXCEPT ![p] = l]
      /\ queue' = queue /\ failure' = failure
      /\ \/ cur' = cur
         \/ cur' = [cur EXCEPT ![p] = {}]
         \/ cur' = [cur EXCEPT ![p] = {t}]
      /\ phase' = phase \/ FreeSlot(p, t)
  BY DEF LoopWaiting, LoopStart, LoopHit, LoopDetect, NextLaunch, flags, pass, slots
<1>3. InRun(p)'
  <2>1. queue'[p] \subseteq RunSet /\ cur'[p] \subseteq RunSet
    BY <1>1, <1>2 DEF TypeOK, InRun
  <2>2. \A u \in Tasks : phase'[p][u] # "none" => u \in RunSet
    BY <1>1, <1>2, SlotsInRun
  <2> QED BY <2>1, <2>2 DEF InRun
<1>4. \A q \in Procs \ {p} :
        /\ queue'[q] = queue[q] /\ cur'[q] = cur[q] /\ phase'[q] = phase[q]
        /\ pc'[q] = pc[q] /\ failure'[q] = failure[q]
  BY <1>2, OtherPhases DEF TypeOK
<1>5. \E r \in ExecutionState :
        st' = [st EXCEPT ![p] = r] /\ Moves(st[p], r) /\ store'.s \in {store.s, r}
  <2>1. CASE LoopWaiting(p, t)
    <3>1. st' = [st EXCEPT ![p] = TasksWaiting(st[p], t)] /\ Persist(p, TasksWaiting(st[p], t))
      BY <2>1 DEF LoopWaiting, TypeOK
    <3> QED BY <1>1, <3>1, OneTaskTypes, OneTaskMoves, WrittenState
  <2>2. CASE LoopStart(p, t)
    <3>1. st' = [st EXCEPT ![p] = TaskStarted(st[p], t)] /\ Persist(p, TaskStarted(st[p], t))
      BY <2>2 DEF LoopStart, TypeOK
    <3> QED BY <1>1, <3>1, OneTaskTypes, OneTaskMoves, WrittenState
  <2>3. CASE LoopHit(p, t)
    BY <1>1, <2>3, ApplyMoves DEF LoopHit
  <2>4. CASE LoopDetect(p, t)
    <3>1. Detect(p)
      BY <2>4 DEF LoopDetect
    <3>2. PICK r \in ExecutionState :
            /\ st' = [st EXCEPT ![p] = r] /\ Persist(p, r) /\ r.failed = st[p].failed
            /\ \A u \in Tasks : r.task[u] = st[p].task[u] \/ r.task[u] = "pending"
      BY <3>1, DetectDecides
    <3>3. Moves(st[p], r)
      BY <1>1, <3>2 DEF Moves, ExecutionState
    <3> QED BY <3>2, <3>3, WrittenState
  <2> QED BY <2>1, <2>2, <2>3, <2>4
<1> QED BY <1>1, <1>2, <1>3, <1>4, <1>5 DEF SoundStep, MovesState

LEMMA HandlerSound ==
  ASSUME TypeOK, Ownership, RunsSound, NEW p \in Procs, NEW t \in Tasks,
         Handler(p, t) \/ HandlerThrows(p, t)
  PROVE  SoundStep(p)
<1> USE DEF Handler
<1>1. phase[p][t] # "none"
  BY DEF RunnerFinish, HandlerApply, HandlerDetect, HandlerStopped, HandlerFailed,
         HandlerFailTask, HandlerThrows
<1>2. t \in RunSet /\ InRun(p) /\ st[p] \in ExecutionState
  BY <1>1 DEF RunsSound, InRun, TypeOK
<1>3. UNCHANGED <<pc, queue, cur>>
  BY DEF RunnerFinish, HandlerApply, HandlerDetect, HandlerStopped, HandlerFailed,
         HandlerFailTask, HandlerThrows, pass
<1>4. \/ FreeSlot(p, t)
      \/ \E x \in Phase : phase' = [phase EXCEPT ![p][t] = x]
  BY DEF RunnerFinish, HandlerApply, HandlerDetect, HandlerStopped, HandlerFailed,
         HandlerFailTask, HandlerThrows, Phase
<1>5. \A q \in Procs \ {p} : phase'[q] = phase[q]
  BY <1>4, OtherPhases
<1>6. InRun(p)'
  <2>1. \A u \in Tasks : phase'[p][u] # "none" => u \in RunSet
    BY <1>1, <1>2, <1>4, SlotsInRun
  <2> QED BY <1>2, <1>3, <2>1 DEF InRun
<1>7. MovesState(p)
  <2> USE DEF MovesState
  <2>0. st[p].failed \in Int
    BY <1>2 DEF ExecutionState
  <2>1. CASE RunnerFinish(p, t) \/ HandlerThrows(p, t)
    <3>1. st' = [st EXCEPT ![p] = st[p]] /\ UNCHANGED <<store, failure>>
      BY <2>1 DEF RunnerFinish, HandlerThrows, durable, flags, TypeOK
    <3>2. Moves(st[p], st[p])
      BY <2>0 DEF Moves
    <3> QED BY <1>2, <3>1, <3>2
  <2>2. CASE HandlerApply(p, t)
    <3>1. PICK hit \in BOOLEAN : Apply(p, t, hit) \/ BackToPending(p, t)
      BY <2>2 DEF HandlerApply
    <3>2. UNCHANGED <<store, failure>>
      BY <2>2 DEF HandlerApply, flags
    <3> QED BY <1>2, <3>1, <3>2, ApplyMoves
  <2>3. CASE HandlerDetect(p, t)
    <3>1. Detect(p) /\ failure' = failure
      BY <2>3 DEF HandlerDetect, flags
    <3>2. PICK r \in ExecutionState :
            /\ st' = [st EXCEPT ![p] = r] /\ Persist(p, r) /\ r.failed = st[p].failed
            /\ \A u \in Tasks : r.task[u] = st[p].task[u] \/ r.task[u] = "pending"
      BY <3>1, DetectDecides
    <3>3. Moves(st[p], r)
      BY <2>0, <3>2 DEF Moves
    <3> QED BY <3>1, <3>2, <3>3, WrittenState
  <2>4. CASE HandlerStopped(p, t)
    <3>1. /\ st' = [st EXCEPT ![p] = SetTasks(st[p], {t}, "pending")]
          /\ Persist(p, SetTasks(st[p], {t}, "pending")) /\ failure' = failure
      BY <2>4 DEF HandlerStopped, BackToPending, flags, TypeOK
    <3> QED BY <1>2, <3>1, OneTaskTypes, OneTaskMoves, WrittenState, ZenonT(60)
  <2>5. ASSUME NEW r \in ExecutionState, st' = [st EXCEPT ![p] = r], Persist(p, r),
               failure' = [failure EXCEPT ![p] = TRUE],
               Moves(st[p], r), r.failed = st[p].failed + 1
        PROVE  MovesState(p)
    <3>1. store'.s \in {store.s, r} /\ r.failed > st[p].failed
      BY <2>0, <2>5, WrittenState
    <3>2. \A q \in Procs \ {p} : failure'[q] = failure[q]
      BY <2>5 DEF TypeOK
    <3> QED BY <2>5, <3>1, <3>2
  <2>6. CASE HandlerFailed(p, t)
    <3> DEFINE r == TasksSkipped(TaskFailed(st[p], t), ToSkip(TaskFailed(st[p], t), t))
    <3>1. /\ st' = [st EXCEPT ![p] = r] /\ Persist(p, r)
          /\ failure' = [failure EXCEPT ![p] = TRUE]
      BY <2>6 DEF HandlerFailed
    <3>2. r \in ExecutionState /\ r.failed = st[p].failed + 1
      BY <1>2, FailureDecides
    <3>3. Moves(st[p], r)
      BY <1>2, OneTaskMoves
    <3> QED BY <2>5, <3>1, <3>2, <3>3
  <2>7. CASE HandlerFailTask(p, t)
    <3> DEFINE r == TaskFailed(st[p], t)
    <3>1. /\ st' = [st EXCEPT ![p] = r] /\ Persist(p, r)
          /\ failure' = [failure EXCEPT ![p] = TRUE]
      BY <2>7 DEF HandlerFailTask, TypeOK
    <3>2. r \in ExecutionState /\ r.failed = st[p].failed + 1
      BY <1>2, FailureDecides
    <3>3. Moves(st[p], r)
      BY <1>2, OneTaskMoves
    <3> QED BY <2>5, <3>1, <3>2, <3>3
  <2> QED BY <2>1, <2>2, <2>3, <2>4, <2>6, <2>7
<1>8. \A q \in Procs \ {p} :
        queue'[q] = queue[q] /\ cur'[q] = cur[q] /\ pc'[q] = pc[q]
  BY <1>3
<1>9. Active(p)' => Active(p)
  BY <1>3 DEF Active
<1> QED BY <1>5, <1>6, <1>7, <1>8, <1>9 DEF SoundStep

LEMMA LoopSound ==
  ASSUME TypeOK, RunsSound, NEW p \in Procs,
         \/ Top(p) \/ Launch(p) \/ Race(p) \/ DrainStuck(p) \/ RequestCancel(p)
         \/ LoopThrows(p)
         \/ \E t \in Tasks : \E d \in Datasets : ReadInput(p, t, d)
  PROVE  SoundStep(p)
<1>1. CASE Top(p) \/ Launch(p)
  <2>1. Active(p)
    BY <1>1 DEF Top, Launch, Active, Loop
  <2>2. GetReady(st[p]) \subseteq RunSet /\ queue[p] \subseteq RunSet
    BY DEF GetReady, RunsSound, InRun
  <2>3. CASE /\ pc' = [pc EXCEPT ![p] = "drain"]
             /\ UNCHANGED <<durable, st, pass, slots, flags>>
    <3>1. st' = [st EXCEPT ![p] = st[p]] /\ st[p] \in ExecutionState
      BY <2>3 DEF TypeOK
    <3>2. Moves(st[p], st[p])
      BY <3>1 DEF Moves, ExecutionState
    <3>3. MovesState(p)
      BY <2>3, <3>1, <3>2 DEF MovesState, durable, flags
    <3>4. InRun(p)'
      BY <2>3 DEF RunsSound, InRun, pass, slots
    <3> QED BY <2>1, <2>3, <3>3, <3>4 DEF SoundStep, pass, slots, TypeOK
  <2> QED BY <1>1, <2>1, <2>2, <2>3, PassSound DEF Top, Launch
<1>2. ASSUME \E l : pc' = [pc EXCEPT ![p] = l], Active(p)' => Active(p),
             \/ queue' = queue /\ cur' = cur
             \/ queue' = [queue EXCEPT ![p] = {}] /\ cur' = [cur EXCEPT ![p] = {}],
             phase' = phase \/ \E t \in Tasks : FreeSlot(p, t),
             UNCHANGED <<st, store, failure>>
      PROVE  SoundStep(p)
  <2>1. st' = [st EXCEPT ![p] = st[p]] /\ st[p] \in ExecutionState
    BY <1>2 DEF TypeOK
  <2>2. Moves(st[p], st[p])
    BY <2>1 DEF Moves, ExecutionState
  <2>3. MovesState(p)
    BY <1>2, <2>1, <2>2 DEF MovesState
  <2>4. queue'[p] \subseteq RunSet /\ cur'[p] \subseteq RunSet
    BY <1>2 DEF RunsSound, InRun, TypeOK
  <2>5. \A u \in Tasks : phase'[p][u] # "none" => u \in RunSet
    BY <1>2, SlotsInRun DEF RunsSound
  <2>6. \A q \in Procs \ {p} :
          /\ queue'[q] = queue[q] /\ cur'[q] = cur[q] /\ phase'[q] = phase[q]
          /\ pc'[q] = pc[q]
    BY <1>2, OtherPhases DEF TypeOK
  <2> QED BY <1>2, <2>3, <2>4, <2>5, <2>6 DEF SoundStep, InRun
<1>3. CASE Race(p) \/ DrainStuck(p) \/ RequestCancel(p)
  <2>1. Active(p)' => Active(p)
    BY <1>3 DEF Race, DrainStuck, RequestCancel, Active, Loop, TypeOK
  <2>2. \E l : pc' = [pc EXCEPT ![p] = l]
    BY <1>3 DEF Race, DrainStuck, RequestCancel, TypeOK
  <2> QED BY <1>2, <1>3, <2>1, <2>2 DEF Race, DrainStuck, RequestCancel, durable, pass, slots, flags
<1>4. CASE LoopThrows(p)
  <2>1. Active(p) /\ \E t \in Tasks : FreeSlot(p, t)
    BY <1>4 DEF LoopThrows, Active, Loop, TypeOK
  <2> QED BY <1>2, <1>4, <2>1 DEF LoopThrows, durable, flags
<1>5. ASSUME NEW t \in Tasks, NEW d \in Datasets, ReadInput(p, t, d) PROVE SoundStep(p)
  <2>1. \E l : pc' = [pc EXCEPT ![p] = l]
    BY <1>5, ReadInputTarget
  <2>2. Active(p)
    BY <1>5 DEF ReadInput, Active, Loop
  <2> QED BY <1>2, <1>5, <2>1, <2>2 DEF ReadInput, durable, flags
<1> QED BY <1>1, <1>3, <1>4, <1>5

LEMMA EndSound ==
  ASSUME TypeOK, Ownership, RunsSound, NEW p \in Procs,
         \/ YieldCheckpoint(p) \/ EndCancelled(p) \/ DrainCancelled(p)
         \/ DrainFinalize(p) \/ EndFailed(p)
  PROVE  SoundStep(p)
<1>1. /\ pc' = pc \/ (Active(p) /\ \E l : pc' = [pc EXCEPT ![p] = l])
      /\ UNCHANGED <<queue, cur, phase, failure>>
  BY DEF YieldCheckpoint, EndCancelled, DrainCancelled, DrainFinalize, EndFailed, Active,
         Loop, Leave, pass, slots, flags, TypeOK
<1>2. st[p] \in ExecutionState /\ st[p].failed \in Int /\ store.s \in ExecutionState
  BY DEF TypeOK, ExecutionState
<1>3. /\ Yield(st[p]) \in ExecutionState /\ Finalize(st[p]) \in ExecutionState
      /\ Cancel(Yield(st[p])) \in ExecutionState
      /\ [store.s EXCEPT !.status = "failed"] \in ExecutionState
  BY <1>2, EndTypes
<1>4. \E r \in ExecutionState :
        /\ st' = [st EXCEPT ![p] = r] /\ Moves(st[p], r)
        /\ store'.s \in {store.s, r, [store.s EXCEPT !.status = "failed"]}
  <2>1. CASE YieldCheckpoint(p)
    <3>1. st' = [st EXCEPT ![p] = Yield(st[p])] /\ Write(p, Yield(st[p]))
      BY <2>1 DEF YieldCheckpoint, TypeOK
    <3> QED BY <1>2, <1>3, <3>1, EndMoves, WrittenState
  <2>2. CASE EndCancelled(p)
    <3>1. st' = [st EXCEPT ![p] = Cancel(Yield(st[p]))] /\ Write(p, Cancel(Yield(st[p])))
      BY <2>2 DEF EndCancelled, TypeOK
    <3> QED BY <1>2, <1>3, <3>1, EndMoves, WrittenState
  <2>3. CASE DrainFinalize(p)
    <3>1. st' = [st EXCEPT ![p] = Finalize(st[p])] /\ Write(p, Finalize(st[p]))
      BY <2>3 DEF DrainFinalize, TypeOK
    <3> QED BY <1>2, <1>3, <3>1, EndMoves, WrittenState
  <2>4. CASE DrainCancelled(p) \/ EndFailed(p)
    <3>1. st' = [st EXCEPT ![p] = st[p]]
      BY <2>4 DEF DrainCancelled, EndFailed, TypeOK
    <3>2. store'.s \in {store.s, [store.s EXCEPT !.status = "failed"]}
      BY <1>3, <2>4, WrittenState DEF DrainCancelled, EndFailed
    <3>3. Moves(st[p], st[p])
      BY <1>2 DEF Moves
    <3> QED BY <1>2, <3>1, <3>2, <3>3
  <2> QED BY <2>1, <2>2, <2>3, <2>4
<1>5. MovesState(p)
  BY <1>1, <1>4 DEF MovesState
<1>6. InRun(p)'
  BY <1>1 DEF RunsSound, InRun
<1>7. \A q \in Procs \ {p} :
        /\ queue'[q] = queue[q] /\ cur'[q] = cur[q] /\ phase'[q] = phase[q]
        /\ pc'[q] = pc[q]
  BY <1>1 DEF TypeOK
<1>8. Active(p)' => Active(p)
  BY <1>1 DEF Active
<1> QED BY <1>5, <1>6, <1>7, <1>8 DEF SoundStep

\* Letting go of a run that yielded.
LEMMA PartingSound ==
  ASSUME TypeOK, RunsSound, NEW p \in Procs, LetGo(p) \/ Forget(p)
  PROVE  RunsSound'
<1>1. /\ UNCHANGED <<store, st, queue, cur, phase, failure>>
      /\ pc' = pc \/ pc' = [pc EXCEPT ![p] = "yielded"]
  BY DEF LetGo, Forget, durable, pass, slots, flags
<1>2. ASSUME NEW q \in Procs, Active(q)' PROVE Active(q)
  BY <1>1, <1>2, Locations DEF Active, TypeOK
<1>3. \A q \in Procs : InRun(q)' /\ Sound(st'[q])
  BY <1>1 DEF RunsSound, InRun
<1> QED BY <1>1, <1>2, <1>3 DEF RunsSound

LEMMA NoStateSound == NoState \in ExecutionState /\ Sound(NoState)
<1>1. [i \in Inputs |-> Unassigned] \in [Inputs -> Values \union {Unassigned}]
  OBVIOUS
<1> QED BY <1>1, InitializeSound, InitializeType DEF NoState

LEMMA CrashSound ==
  ASSUME TypeOK, RunsSound, NEW p \in Procs, Crash(p)
  PROVE  RunsSound'
<1>1. /\ pc' = [pc EXCEPT ![p] = "dead"] /\ st' = [st EXCEPT ![p] = NoState]
      /\ queue' = [queue EXCEPT ![p] = {}] /\ cur' = [cur EXCEPT ![p] = {}]
      /\ phase' = [phase EXCEPT ![p] = [t \in Tasks |-> "none"]]
      /\ UNCHANGED <<store, failure>>
  BY DEF Crash, flags
<1>2. ASSUME NEW q \in Procs
      PROVE  /\ Sound(st'[q]) /\ InRun(q)'
             /\ Active(q)' /\ failure'[q] => st'[q].failed > 0
  <2>1. CASE q = p
    <3>1. /\ pc'[p] = "dead" /\ st'[p] = NoState /\ queue'[p] = {} /\ cur'[p] = {}
          /\ \A t \in Tasks : phase'[p][t] = "none"
      BY <1>1 DEF TypeOK
    <3> QED BY <2>1, <3>1, NoStateSound DEF InRun, Active, Loop
  <2>2. CASE q # p
    <3>1. /\ pc'[q] = pc[q] /\ st'[q] = st[q] /\ queue'[q] = queue[q] /\ cur'[q] = cur[q]
          /\ phase'[q] = phase[q] /\ failure'[q] = failure[q]
      BY <1>1, <2>2 DEF TypeOK
    <3> QED BY <3>1 DEF RunsSound, InRun, Active
  <2> QED BY <2>1, <2>2
<1> QED BY <1>1, <1>2 DEF RunsSound

LEMMA BeginSound ==
  ASSUME TypeOK, Ownership, RunsSound, NEW p \in Procs, ~failure[p], Start(p) \/ Resume(p)
  PROVE  RunsSound'
<1>1. PICK s \in ExecutionState, id \in Procs : Begin(p, s, id) /\ Sound(s)
  <2>1. CASE Start(p)
    <3>1. Initialize(root) \in ExecutionState /\ Sound(Initialize(root))
      BY InitializeType, InitializeSound DEF TypeOK
    <3> QED BY <2>1, <3>1 DEF Start
  <2>2. CASE Resume(p)
    <3>1. store.s \in ExecutionState /\ store.id \in Procs
      BY <2>2 DEF Resume, TypeOK
    <3>2. Yield(store.s) \in ExecutionState /\ Sound(Yield(store.s))
      BY <3>1, EndTypes, EndMoves, MovesSound DEF RunsSound
    <3> QED BY <2>2, <3>1, <3>2 DEF Resume
  <2> QED BY <2>1, <2>2
<1>2. /\ pc' = [pc EXCEPT ![p] = "top"] /\ st' = [st EXCEPT ![p] = s]
      /\ store' = [id |-> id, s |-> s]
      /\ UNCHANGED <<queue, cur, phase, failure>>
  BY <1>1 DEF Begin, pass, slots
<1>3. \A q \in Procs : InRun(q)'
  BY <1>2 DEF RunsSound, InRun
<1>4. \A q \in Procs : q # p => pc'[q] = pc[q] /\ st'[q] = st[q]
  BY <1>2 DEF TypeOK
<1>5. st'[p] = s /\ store'.s = s
  BY <1>2 DEF TypeOK
<1> QED BY <1>1, <1>2, <1>3, <1>4, <1>5 DEF RunsSound, Active

-----------------------------------------------------------------------------
(* A process that has not run has nothing of a run                         *)

Fresh == \A p \in Procs : pc[p] = "idle" => ~failure[p] /\ \A q \in Procs : runId[q] # p

LEMMA InitFresh == Init => Fresh
BY RunAssumption DEF Init, Fresh, RunAssumption

LEMMA NextFresh ==
  ASSUME TypeOK, Ownership, Fresh, [Next]_vars
  PROVE  Fresh'
<1>1. ASSUME NEW p \in Procs, ~failure[p] \/ pc[p] # "idle",
             \A q \in Procs : pc'[q] = "idle" => pc[q] = "idle",
             \A q \in Procs \ {p} : failure'[q] = failure[q],
             pc[p] # "idle" \/ failure'[p] = failure[p],
             runId' = runId \/ \E id \in Procs : /\ runId' = [runId EXCEPT ![p] = id]
                                                 /\ pc'[id] # "idle"
      PROVE  Fresh'
  BY <1>1, ZenonT(60) DEF Fresh, TypeOK
<1>2. ASSUME NEW p \in Procs, pc[p] # "idle", runId' = runId,
             \/ pc' = pc
             \/ \E l \in Loop \union Ended \union {"leaving"} : pc' = [pc EXCEPT ![p] = l],
             failure' = failure \/ failure' = [failure EXCEPT ![p] = TRUE]
      PROVE  Fresh'
  <2>1. \A q \in Procs : pc'[q] = "idle" => pc[q] = "idle"
    BY <1>2, Locations DEF TypeOK, Ended, Loop
  <2>2. \A q \in Procs \ {p} : failure'[q] = failure[q]
    BY <1>2 DEF TypeOK
  <2> QED BY <1>1, <1>2, <2>1, <2>2
<1>3. CASE UNCHANGED <<pc, failure, runId>>
  BY <1>3 DEF Fresh
<1>4. ASSUME NEW p \in Procs, Start(p) \/ Resume(p) PROVE Fresh'
  <2>1. PICK s, id : Begin(p, s, id) /\ id \in {p, store.id} /\ (id = p \/ store.id # NoProc)
    BY <1>4 DEF Start, Resume
  <2>2. /\ pc[p] = "idle" /\ pc' = [pc EXCEPT ![p] = "top"]
        /\ failure' = failure /\ runId' = [runId EXCEPT ![p] = id]
    BY <2>1 DEF Begin
  <2>3. id \in Procs /\ pc'[id] # "idle"
    BY <2>1, <2>2 DEF TypeOK, Ownership
  <2>4. \A q \in Procs : pc'[q] = "idle" => pc[q] = "idle"
    BY <2>2 DEF TypeOK
  <2> QED BY <1>1, <2>2, <2>3, <2>4 DEF Fresh
<1>5. ASSUME NEW p \in Procs, Quiet(p), failure' = failure \/ failure' = [failure EXCEPT ![p] = TRUE]
      PROVE  Fresh'
  BY <1>2, <1>5, Locations DEF Quiet, Active, Parted
<1>6. ASSUME NEW p \in Procs,
             \/ Top(p) \/ Launch(p) \/ Race(p) \/ DrainStuck(p) \/ LoopThrows(p)
             \/ RequestCancel(p)
             \/ \E t \in Tasks : \E d \in Datasets : ReadInput(p, t, d)
             \/ \E t \in Tasks :
                  LoopWaiting(p, t) \/ LoopStart(p, t) \/ LoopHit(p, t) \/ LoopDetect(p, t)
             \/ \E t \in Tasks : Handler(p, t) \/ HandlerThrows(p, t)
      PROVE  Fresh'
  <2>1. Quiet(p)
    BY <1>6, QuietSteps
  <2>2. failure' = failure \/ failure' = [failure EXCEPT ![p] = TRUE]
    BY <1>6 DEF Top, Launch, Race, DrainStuck, LoopThrows, RequestCancel, ReadInput, LoopWaiting,
       LoopStart, LoopHit, LoopDetect, NextLaunch, PrepareNext, EndPass, Handler, HandlerThrows,
       RunnerFinish, HandlerApply, HandlerDetect, HandlerStopped, HandlerFailed,
       HandlerFailTask, flags
  <2> QED BY <1>5, <2>1, <2>2
<1>7. ASSUME NEW p \in Procs,
             \/ YieldCheckpoint(p) \/ EndCancelled(p) \/ DrainCancelled(p)
             \/ DrainFinalize(p) \/ EndFailed(p) \/ Crash(p) \/ LetGo(p) \/ Forget(p)
      PROVE  Fresh'
  <2>1. \/ pc' = pc
        \/ \E l \in {"drain", "leaving", "yielded", "cancelled", "finished", "failed", "dead"} :
             pc' = [pc EXCEPT ![p] = l]
    BY <1>7 DEF YieldCheckpoint, EndCancelled, DrainCancelled, DrainFinalize, EndFailed, Crash,
         LetGo, Forget, Leave
  <2>2. UNCHANGED <<failure, runId>>
    BY <1>7 DEF YieldCheckpoint, EndCancelled, DrainCancelled, DrainFinalize, EndFailed, Crash,
         LetGo, Forget, durable, flags
  <2>3. {"drain", "leaving", "yielded", "cancelled", "finished", "failed", "dead"}
          \subseteq Loop \union Ended \union {"leaving"}
    BY DEF Loop, Ended
  <2>4. pc[p] # "idle"
    BY <1>7 DEF YieldCheckpoint, EndCancelled, CancelDue, DrainCancelled, DrainFinalize, EndFailed,
         Crash, LetGo, Forget, Active, Loop
  <2> QED BY <1>2, <2>1, <2>2, <2>3, <2>4
<1>8. ASSUME NEW i \in Inputs, NEW v \in Values, SetInput(i, v) PROVE Fresh'
  BY <1>3, <1>8 DEF SetInput, flags
<1>9. CASE UNCHANGED vars
  BY <1>3, <1>9 DEF vars, flags
<1> QED BY <1>4, <1>6, <1>7, <1>8, <1>9 DEF Next, LoopStep

-----------------------------------------------------------------------------
(* The run set is kept                                                     *)

LEMMA InitRunsSound == Init => RunsSound
<1> SUFFICES ASSUME Init PROVE RunsSound
  OBVIOUS
<1>1. Sound(store.s) /\ \A p \in Procs : Sound(st[p])
  BY NoStateSound DEF Init
<1>2. \A p \in Procs : InRun(p) /\ ~Active(p)
  BY Locations DEF Init, InRun, Active
<1> QED BY <1>1, <1>2 DEF RunsSound

LEMMA NextRunsSound ==
  ASSUME TypeOK, Ownership, Fresh, RunsSound, [Next]_vars
  PROVE  RunsSound'
<1>1. CASE UNCHANGED <<store, pc, st, pass, slots, flags>>
  BY <1>1 DEF RunsSound, InRun, Active, pass, slots, flags
<1>2. ASSUME NEW p \in Procs, Start(p) \/ Resume(p) PROVE RunsSound'
  <2>1. ~failure[p]
    BY <1>2 DEF Start, Resume, Begin, Fresh
  <2> QED BY <1>2, <2>1, BeginSound
<1>3. ASSUME NEW p \in Procs, LoopStep(p) PROVE RunsSound'
  BY <1>3, LoopSound, LoopTaskSound, EndSound, PartingSound, SoundStepKeeps DEF LoopStep
<1>4. ASSUME NEW p \in Procs, RequestCancel(p) \/ LoopThrows(p) PROVE RunsSound'
  BY <1>4, LoopSound, SoundStepKeeps
<1>5. ASSUME NEW i \in Inputs, NEW v \in Values, SetInput(i, v) PROVE RunsSound'
  BY <1>1, <1>5 DEF SetInput
<1>6. CASE UNCHANGED vars
  BY <1>1, <1>6 DEF vars, durable
<1> QED BY <1>2, <1>3, <1>4, <1>5, <1>6, CrashSound, EndSound, HandlerSound, SoundStepKeeps DEF Next

LEMMA AlwaysSound == Spec => [](TypeOK /\ Ownership /\ Fresh /\ RunsSound)
<1>1. Init => TypeOK /\ Ownership /\ Fresh /\ RunsSound
  BY InitType, InitOwnership, InitFresh, InitRunsSound
<1>2. TypeOK /\ Ownership /\ Fresh /\ RunsSound /\ [Next]_vars
        => (TypeOK /\ Ownership /\ Fresh /\ RunsSound)'
  BY NextType, NextOwnership, NextFresh, NextRunsSound
<1> QED BY <1>1, <1>2, PTL DEF Spec

\* A filtered run leaves every task outside its run set pending, whatever
\* waits, fails, is invalidated or is set meanwhile, and in whatever process
\* the run was begun or resumed.
THEOREM FilterKept == Spec => []FilterHolds
<1>1. RunsSound => FilterHolds
  BY DEF RunsSound, Sound, Confined, FilterHolds
<1> QED BY <1>1, AlwaysSound, PTL

-----------------------------------------------------------------------------
(* The run's state and what it tracks agree                                *)

Launched  == {"running", "executed", "hit", "failed", "stopped"}
Preparing == {"read", "wait", "hit", "start"}

\* The launch pass holds at most the task it prepares or has just started,
\* over no live slot.
InHand(p) ==
  /\ pc[p] \notin Preparing \union {"launch", "applied"} => cur[p] = {}
  /\ \A t \in cur[p] :
       /\ phase[p][t] = "none"
       /\ pc[p] \in Preparing => st[p].task[t] \notin {"completed", "in_progress"}
       /\ pc[p] = "launch" => st[p].task[t] # "completed"

\* Nothing completes a task but its own handler.
NotYetDone(p) ==
  \A t \in Tasks : phase[p][t] \in Launched => st[p].task[t] # "completed"

\* While the run is neither cancelled nor over, a task is in progress from its
\* start until its result is applied or its failure recorded; a loop that throws
\* may leave the one it has just started.
Tracked(p, t) ==
  \/ phase[p][t] \in Launched \union {"thrown"}
  \/ pc[p] = "launch" /\ t \in cur[p]
InStep(p) ==
  \A t \in Tasks :
    /\ phase[p][t] \in Launched => st[p].task[t] = "in_progress"
    /\ pc[p] = "launch" /\ t \in cur[p] => st[p].task[t] = "in_progress"
    /\ st[p].task[t] = "in_progress" => Tracked(p, t) \/ pc[p] = "throwing"

SlotsOf(p) ==
  /\ Active(p) /\ ended[p] => aborted[p]
  /\ InHand(p) /\ NotYetDone(p)
  /\ Active(p) /\ ~aborted[p] => InStep(p)
Slots == \A p \in Procs : SlotsOf(p)

\* What a step does to the flags of its process alone: a write that the store
\* does not take stops the run.
StopsOnly(p) ==
  /\ aborted[p] => aborted'[p]
  /\ ended'[p] => ended[p] \/ aborted'[p]
  /\ \A q \in Procs \ {p} : aborted'[q] = aborted[q] /\ ended'[q] = ended[q]

LEMMA PersistStops ==
  ASSUME TypeOK, NEW p \in Procs, NEW s, Persist(p, s) \/ Told(p) \/ UNCHANGED <<aborted, ended>>
  PROVE  StopsOnly(p)
<1>1. CASE UNCHANGED <<aborted, ended>>
  BY <1>1 DEF StopsOnly
<1>2. CASE Told(p)
  <2>1. aborted'[p] = (aborted[p] \/ ~Taken(p)) /\ ended'[p] = (ended[p] \/ ~Taken(p))
    BY <1>2 DEF Told, Stops, TypeOK
  <2>2. \A q \in Procs \ {p} : aborted'[q] = aborted[q] /\ ended'[q] = ended[q]
    BY <1>2 DEF Told, Stops, TypeOK
  <2> QED BY <2>1, <2>2 DEF StopsOnly
<1> QED BY <1>1, <1>2 DEF Persist

\* A step of p leaves what the others track.
SameElsewhere(p) ==
  \A q \in Procs \ {p} :
    /\ pc'[q] = pc[q] /\ st'[q] = st[q] /\ cur'[q] = cur[q] /\ phase'[q] = phase[q]
    /\ aborted'[q] = aborted[q] /\ ended'[q] = ended[q]

LEMMA SlotsElsewhere ==
  ASSUME Slots, NEW p \in Procs, SameElsewhere(p), SlotsOf(p)'
  PROVE  Slots'
<1>1. ASSUME NEW q \in Procs \ {p} PROVE SlotsOf(q)'
  <2>1. SlotsOf(q)
    BY DEF Slots
  <2> QED BY <2>1 DEF SameElsewhere, SlotsOf, InHand, NotYetDone, InStep, Tracked, Active
<1> QED BY <1>1 DEF Slots

\* A step of the handler, or the program, of a task that is tracked.
LEMMA TrackedStep ==
  ASSUME NEW p \in Procs, NEW t \in Tasks, NEW x, SlotsOf(p), phase[p][t] # "none",
         pc'[p] = pc[p], cur'[p] = cur[p], StopsOnly(p),
         cur[p] \subseteq Tasks,
         \A u \in Tasks : phase'[p][u] = IF u = t THEN x ELSE phase[p][u],
         Decides(st[p], st'[p], {t}),
         x \in Launched => phase[p][t] \in Launched /\ st'[p].task[t] = st[p].task[t],
         Active(p) /\ ~aborted[p] /\ pc[p] # "throwing" =>
           x \in Launched \union {"thrown"} \/ st'[p].task[t] # "in_progress"
  PROVE  SlotsOf(p)'
<1>1. t \notin cur[p]
  BY DEF SlotsOf, InHand
<1>2. /\ \A u \in Tasks \ {t} : /\ st'[p].task[u] = "in_progress" <=> st[p].task[u] = "in_progress"
                                /\ st'[p].task[u] = "completed" => st[p].task[u] = "completed"
  BY DEF Decides
<1>3. InHand(p)'
  BY <1>1, <1>2 DEF SlotsOf, InHand
<1>4. NotYetDone(p)'
  BY <1>2 DEF SlotsOf, NotYetDone
<1>5. Active(p)' = Active(p)
  BY DEF Active
<1>6. ASSUME Active(p), ~aborted[p] PROVE InStep(p)'
  BY <1>1, <1>2, <1>6 DEF SlotsOf, InStep, Tracked
<1> QED BY <1>3, <1>4, <1>5, <1>6 DEF SlotsOf, StopsOnly

\* A step of the preparation of a task.
LEMMA CurStep ==
  ASSUME NEW p \in Procs, NEW t \in Tasks, NEW l, SlotsOf(p), t \in cur[p],
         cur[p] \subseteq Tasks, pc[p] \in Preparing \union {"applied"},
         pc'[p] = l, StopsOnly(p),
         \A u \in Tasks : phase'[p][u] = phase[p][u],
         Decides(st[p], st'[p], {t}),
         \/ /\ l = "launch" /\ cur'[p] = {}
            /\ st'[p].task[t] = "in_progress" => st[p].task[t] = "in_progress"
         \/ l = "launch" /\ cur'[p] = {t} /\ st'[p].task[t] = "in_progress"
         \/ l = "applied" /\ cur'[p] = cur[p] /\ st'[p].task[t] # "in_progress"
         \/ l \in Preparing /\ pc[p] \in Preparing /\ cur'[p] = cur[p] /\ st'[p] = st[p]
  PROVE  SlotsOf(p)'
<1>1. phase[p][t] = "none"
  BY DEF SlotsOf, InHand
<1>2. \A u \in Tasks \ {t} : /\ st'[p].task[u] = "in_progress" <=> st[p].task[u] = "in_progress"
                             /\ st'[p].task[u] = "completed" => st[p].task[u] = "completed"
  BY DEF Decides
<1>3. InHand(p)'
  BY <1>1, <1>2 DEF SlotsOf, InHand, Preparing
<1>4. NotYetDone(p)'
  BY <1>1, <1>2 DEF SlotsOf, NotYetDone, Launched
<1>5. Active(p)' = Active(p)
  BY DEF Active, Loop, Preparing
<1>6. ASSUME Active(p), ~aborted[p] PROVE InStep(p)'
  BY <1>1, <1>2, <1>6 DEF SlotsOf, InStep, Tracked, Launched, Preparing
<1> QED BY <1>3, <1>4, <1>5, <1>6 DEF SlotsOf, StopsOnly

\* A step that leaves the launch pass, or finds it left.
LEMMA PassOver ==
  ASSUME NEW p \in Procs, SlotsOf(p), cur'[p] = {}, cur[p] \subseteq Tasks,
         pc[p] # "launch", Active(p)' /\ ended'[p] => aborted'[p], aborted[p] => aborted'[p],
         Active(p)' => Active(p) /\ pc[p] # "throwing",
         \A u \in Tasks : phase'[p][u] = phase[p][u],
         \A u \in Tasks :
           /\ st'[p].task[u] = "completed" => st[p].task[u] = "completed"
           /\ Active(p)' /\ ~aborted'[p] =>
                (st'[p].task[u] = "in_progress" <=> st[p].task[u] = "in_progress")
  PROVE  SlotsOf(p)'
<1>1. InHand(p)' /\ NotYetDone(p)'
  BY DEF SlotsOf, InHand, NotYetDone
<1>2. ASSUME Active(p)', ~aborted'[p] PROVE InStep(p)'
  BY <1>2 DEF SlotsOf, InStep, Tracked
<1> QED BY <1>1, <1>2 DEF SlotsOf

LEMMA PassSlots ==
  ASSUME TypeOK, Slots, NEW p \in Procs, pc[p] \in {"top", "launch"},
         NEW ready \in SUBSET Tasks, NEW sync,
         PrepareNext(p, ready, sync) \/ EndPass(p, ready, sync)
  PROVE  Slots'
<1>1. PICK ts : st' = [st EXCEPT ![p] = Deferred(p, ts)]
  BY DEF PrepareNext, EndPass
<1>2. st'[p] = Deferred(p, ts) /\ st[p] \in ExecutionState
  BY <1>1 DEF TypeOK
<1>3. Decides(st[p], st'[p], {})
  BY <1>2, DeferredDecides
<1>4. \A u \in Tasks : /\ st'[p].task[u] = "in_progress" <=> st[p].task[u] = "in_progress"
                       /\ st'[p].task[u] = "completed" => st[p].task[u] = "completed"
  BY <1>3 DEF Decides
<1>5. \A u \in Tasks : phase'[p][u] = IF u \in cur[p] THEN "running" ELSE phase[p][u]
  BY DEF PrepareNext, EndPass, LaunchCur, TypeOK
<1>6. UNCHANGED <<aborted, ended>>
  BY DEF PrepareNext, EndPass, flags
<1>7. SlotsOf(p) /\ (pc[p] = "top" => cur[p] = {}) /\ cur[p] \subseteq Tasks
  BY DEF Slots, SlotsOf, InHand, Preparing, TypeOK
<1>8. Active(p)
  BY DEF Active, Loop
<1>9. \A u \in Tasks : phase'[p][u] \in Launched => \/ phase[p][u] \in Launched
                                                    \/ pc[p] = "launch" /\ u \in cur[p]
  BY <1>5, <1>7
<1>10. NotYetDone(p)'
  BY <1>4, <1>7, <1>9 DEF SlotsOf, NotYetDone, InHand
<1>11. ASSUME ~aborted[p], NEW u \in Tasks
       PROVE  /\ phase'[p][u] \in Launched => st'[p].task[u] = "in_progress"
              /\ st'[p].task[u] = "in_progress" => phase'[p][u] \in Launched \union {"thrown"}
  <2>1. InStep(p)
    BY <1>7, <1>8, <1>11 DEF SlotsOf
  <2>2. phase'[p][u] \in Launched => st'[p].task[u] = "in_progress"
    BY <1>4, <1>9, <2>1 DEF InStep
  <2>3. ASSUME st'[p].task[u] = "in_progress" PROVE phase'[p][u] \in Launched \union {"thrown"}
    <3>1. Tracked(p, u)
      BY <1>4, <2>1, <2>3 DEF InStep
    <3> QED BY <1>5, <3>1 DEF Tracked, Launched
  <2> QED BY <2>2, <2>3
<1>12. SlotsOf(p)'
  <2>1. CASE PrepareNext(p, ready, sync)
    <3>1. PICK t \in ready : Launchable(p, t) /\ cur' = [cur EXCEPT ![p] = {t}]
      BY <2>1 DEF PrepareNext
    <3>2. pc'[p] = "read" /\ cur'[p] = {t}
      BY <2>1, <3>1 DEF PrepareNext, TypeOK
    <3>3. st[p].task[t] \notin {"completed", "in_progress"} /\ t \notin InFlight(p)
      BY <3>1 DEF Launchable, Skipped
    <3>4. phase[p][t] = "none" /\ t \notin cur[p]
      BY <1>7, <3>3 DEF InFlight
    <3>5. InHand(p)'
      BY <1>4, <1>5, <3>2, <3>3, <3>4 DEF InHand, Preparing
    <3>6. ~aborted[p] => InStep(p)'
      BY <1>11, <3>2 DEF InStep, Tracked
    <3> QED BY <1>6, <1>7, <1>8, <1>10, <3>5, <3>6 DEF SlotsOf
  <2>2. CASE EndPass(p, ready, sync)
    <3>1. cur'[p] = {}
      BY <2>2 DEF EndPass, TypeOK
    <3>2. pc'[p] # "launch"
      BY <2>2 DEF EndPass, TypeOK
    <3>3. InHand(p)'
      BY <3>1 DEF InHand
    <3>4. ~aborted[p] => InStep(p)'
      BY <1>11, <3>2 DEF InStep, Tracked
    <3> QED BY <1>6, <1>7, <1>8, <1>10, <3>3, <3>4 DEF SlotsOf
  <2> QED BY <2>1, <2>2
<1>13. SameElsewhere(p)
  <2>1. \A q \in Procs \ {p} : phase'[q] = phase[q]
    BY OtherPhases DEF PrepareNext, EndPass
  <2>2. \A q \in Procs \ {p} : pc'[q] = pc[q]
    <3>1. \E l : pc' = [pc EXCEPT ![p] = l]
      BY DEF PrepareNext, EndPass
    <3> QED BY <3>1 DEF TypeOK
  <2>3. \A q \in Procs \ {p} : cur'[q] = cur[q]
    <3>1. \E cs : cur' = [cur EXCEPT ![p] = cs]
      BY DEF PrepareNext, EndPass
    <3> QED BY <3>1 DEF TypeOK
  <2> QED BY <1>1, <1>6, <2>1, <2>2, <2>3 DEF SameElsewhere, TypeOK
<1> QED BY <1>12, <1>13, SlotsElsewhere

LEMMA ApplyDecides ==
  ASSUME TypeOK, NEW p \in Procs, NEW t \in Tasks, NEW hit \in BOOLEAN, Apply(p, t, hit)
  PROVE  /\ \E r \in ExecutionState : st' = [st EXCEPT ![p] = r]
         /\ Decides(st[p], st'[p], {t})
         /\ KeepsCompleted(st[p], st'[p], {})
         /\ st'[p].task[t] = "completed"
         /\ st'[p].vv[t] = MergedVV(st[p], t)
         /\ out'[t].vv = given[p][t]
         /\ \A u \in Tasks \ {t} : out'[u] = out[u]
<1>1. st[p] \in ExecutionState
  BY DEF TypeOK
<1>2. PICK W \in StopsWaiting(SetTasks(st[p], {t}, "completed"), DependentsOf(t)) :
        st' = [st EXCEPT ![p] = TaskCompleted(st[p], t, hit, W)]
  BY DEF Apply, TypeOK
<1>3. PICK r \in ExecutionState :
        r = TaskCompleted(st[p], t, hit, W) /\ st' = [st EXCEPT ![p] = r]
  BY <1>1, <1>2, TaskCompletedType
<1>4. /\ Decides(st[p], r, {t}) /\ KeepsCompleted(st[p], r, {})
      /\ r.task[t] = "completed" /\ r.vv[t] = MergedVV(st[p], t)
  BY <1>1, <1>2, <1>3, TaskCompletedDecides
<1>5. st'[p] = r
  BY <1>3 DEF TypeOK
<1>6. out'[t].vv = given[p][t] /\ \A u \in Tasks \ {t} : out'[u] = out[u]
  BY DEF Apply, TypeOK
<1> QED BY <1>3, <1>4, <1>5, <1>6

LEMMA BackDecides ==
  ASSUME TypeOK, NEW p \in Procs, NEW t \in Tasks, BackToPending(p, t)
  PROVE  /\ \E r \in ExecutionState : st' = [st EXCEPT ![p] = r]
         /\ Decides(st[p], st'[p], {t})
         /\ KeepsCompleted(st[p], st'[p], {t})
         /\ st'[p].task[t] = "pending"
         /\ out' = out
<1>1. st' = [st EXCEPT ![p] = SetTasks(st[p], {t}, "pending")] /\ out' = out
  BY DEF BackToPending, TypeOK
<1>2. st'[p] = SetTasks(st[p], {t}, "pending") /\ st[p] \in ExecutionState
  BY <1>1 DEF TypeOK
<1>3. SetTasks(st[p], {t}, "pending") \in ExecutionState
  BY OneTaskTypes
<1>4. \E r \in ExecutionState : st' = [st EXCEPT ![p] = r]
  BY <1>1, <1>3
<1>5. /\ Decides(st[p], st'[p], {t}) /\ KeepsCompleted(st[p], st'[p], {t})
      /\ st'[p].task[t] = "pending"
  BY <1>2, SetOneDecides
<1> QED BY <1>1, <1>4, <1>5

\* FreeSlot of a slot, seen task by task.
LEMMA FreeSlotAt ==
  ASSUME TypeOK, NEW p \in Procs, NEW t \in Tasks, FreeSlot(p, t)
  PROVE  /\ \A u \in Tasks : phase'[p][u] = IF u = t THEN "none" ELSE phase[p][u]
         /\ \A q \in Procs \ {p} : phase'[q] = phase[q]
BY DEF FreeSlot, TypeOK

LEMMA LoopTaskSlots ==
  ASSUME TypeOK, Slots, NEW p \in Procs, NEW t \in Tasks,
         \/ LoopWaiting(p, t) \/ LoopStart(p, t) \/ LoopHit(p, t) \/ LoopDetect(p, t)
  PROVE  Slots'
<1>1. /\ t \in cur[p] /\ pc[p] \in Preparing \union {"applied"} /\ SlotsOf(p)
      /\ st[p] \in ExecutionState /\ cur[p] \subseteq Tasks /\ phase[p][t] = "none"
  BY DEF LoopWaiting, LoopStart, LoopHit, LoopDetect, Preparing, Slots, SlotsOf, InHand, TypeOK
<1>2. StopsOnly(p)
  BY PersistStops DEF LoopWaiting, LoopStart, LoopHit, LoopDetect, Detect, NextLaunch, flags
<1>3. phase' = phase \/ FreeSlot(p, t)
  BY DEF LoopWaiting, LoopStart, LoopHit, LoopDetect, slots
<1>4. /\ \A u \in Tasks : phase'[p][u] = phase[p][u]
      /\ \A q \in Procs \ {p} : phase'[q] = phase[q]
  BY <1>1, <1>3, FreeSlotAt
<1>5. ASSUME NEW r \in ExecutionState, st' = [st EXCEPT ![p] = r], Decides(st[p], r, {t}),
             NEW l \in PC, pc' = [pc EXCEPT ![p] = l],
             \/ /\ l = "launch" /\ cur' = [cur EXCEPT ![p] = {}]
                /\ r.task[t] = "in_progress" => st[p].task[t] = "in_progress"
             \/ l = "launch" /\ cur' = [cur EXCEPT ![p] = {t}] /\ r.task[t] = "in_progress"
             \/ l = "applied" /\ cur' = cur /\ r.task[t] # "in_progress"
      PROVE  Slots'
  <2>1. st'[p] = r /\ pc'[p] = l
    BY <1>5 DEF TypeOK
  <2>2. \/ /\ l = "launch" /\ cur'[p] = {}
           /\ st'[p].task[t] = "in_progress" => st[p].task[t] = "in_progress"
        \/ l = "launch" /\ cur'[p] = {t} /\ st'[p].task[t] = "in_progress"
        \/ l = "applied" /\ cur'[p] = cur[p] /\ st'[p].task[t] # "in_progress"
    BY <1>5, <2>1 DEF TypeOK
  <2>3. Decides(st[p], st'[p], {t})
    BY <1>5, <2>1
  <2>4. SlotsOf(p)'
    BY <1>1, <1>2, <1>4, <2>1, <2>2, <2>3, CurStep
  <2>5. SameElsewhere(p)
    BY <1>2, <1>4, <1>5 DEF SameElsewhere, StopsOnly, TypeOK
  <2> QED BY <2>4, <2>5, SlotsElsewhere
<1>6. "launch" \in PC /\ "applied" \in PC
  BY DEF PC, Loop
<1>7. CASE LoopWaiting(p, t)
  <2>1. /\ st' = [st EXCEPT ![p] = TasksWaiting(st[p], t)]
        /\ pc' = [pc EXCEPT ![p] = "launch"] /\ cur' = [cur EXCEPT ![p] = {}]
    BY <1>7 DEF LoopWaiting, NextLaunch, TypeOK
  <2>2. /\ TasksWaiting(st[p], t) \in ExecutionState
        /\ Decides(st[p], TasksWaiting(st[p], t), {t})
        /\ TasksWaiting(st[p], t).task[t] # "in_progress"
    BY <1>1, TasksWaitingDecides, OneTaskTypes
  <2> QED BY <1>5, <1>6, <2>1, <2>2
<1>8. CASE LoopStart(p, t)
  <2>1. /\ st' = [st EXCEPT ![p] = TaskStarted(st[p], t)]
        /\ pc' = [pc EXCEPT ![p] = "launch"] /\ cur' = [cur EXCEPT ![p] = {t}]
    BY <1>8 DEF LoopStart, NextLaunch, TypeOK
  <2>2. /\ TaskStarted(st[p], t) \in ExecutionState
        /\ Decides(st[p], TaskStarted(st[p], t), {t})
        /\ TaskStarted(st[p], t).task[t] = "in_progress"
    BY <1>1, SetOneDecides, OneTaskTypes DEF TaskStarted
  <2> QED BY <1>5, <1>6, <2>1, <2>2
<1>9. CASE LoopHit(p, t)
  <2>1. CASE BackToPending(p, t) /\ NextLaunch(p, TRUE, {})
    <3>1. PICK r \in ExecutionState : st' = [st EXCEPT ![p] = r]
      BY <2>1, BackDecides
    <3>2. st'[p] = r
      BY <3>1 DEF TypeOK
    <3>3. Decides(st[p], r, {t}) /\ r.task[t] # "in_progress"
      BY <2>1, <3>2, BackDecides
    <3> QED BY <1>5, <1>6, <2>1, <3>1, <3>3 DEF NextLaunch
  <2>2. CASE Apply(p, t, TRUE) /\ pc' = [pc EXCEPT ![p] = "applied"] /\ cur' = cur
    <3>1. PICK r \in ExecutionState : st' = [st EXCEPT ![p] = r]
      BY <2>2, ApplyDecides
    <3>2. st'[p] = r
      BY <3>1 DEF TypeOK
    <3>3. Decides(st[p], r, {t}) /\ r.task[t] # "in_progress"
      BY <2>2, <3>2, ApplyDecides
    <3> QED BY <1>5, <1>6, <2>2, <3>1, <3>3
  <2> QED BY <1>9, <2>1, <2>2 DEF LoopHit, pass
<1>10. CASE LoopDetect(p, t)
  <2>1. Detect(p) /\ NextLaunch(p, TRUE, {})
    BY <1>10 DEF LoopDetect
  <2>2. PICK r \in ExecutionState : st' = [st EXCEPT ![p] = r] /\ Decides(st[p], r, {})
    BY <2>1, DetectDecides
  <2>3. /\ Decides(st[p], r, {t})
        /\ r.task[t] = "in_progress" => st[p].task[t] = "in_progress"
    BY <2>2 DEF Decides
  <2> QED BY <1>5, <1>6, <2>1, <2>2, <2>3 DEF NextLaunch
<1> QED BY <1>7, <1>8, <1>9, <1>10

LEMMA HandlerSlots ==
  ASSUME TypeOK, Slots, NEW p \in Procs, NEW t \in Tasks,
         Handler(p, t) \/ HandlerThrows(p, t)
  PROVE  Slots'
<1> USE DEF Handler
<1>1. phase[p][t] # "none" /\ SlotsOf(p) /\ cur[p] \subseteq Tasks /\ st[p] \in ExecutionState
  BY DEF RunnerFinish, HandlerApply, HandlerDetect, HandlerStopped, HandlerFailed,
         HandlerFailTask, HandlerThrows, Slots, TypeOK
<1>2. UNCHANGED <<pc, cur>> /\ StopsOnly(p)
  <2>1. UNCHANGED <<pc, cur>>
    BY DEF RunnerFinish, HandlerApply, HandlerDetect, HandlerStopped, HandlerFailed,
           HandlerFailTask, HandlerThrows, pass
  <2>2. UNCHANGED <<aborted, ended>> \/ \E s : Persist(p, s)
    BY DEF RunnerFinish, HandlerApply, HandlerDetect, HandlerStopped, HandlerFailed,
           HandlerFailTask, HandlerThrows, Detect, flags
  <2> QED BY <2>1, <2>2, PersistStops
<1>3. ASSUME NEW r \in ExecutionState, st' = [st EXCEPT ![p] = r], Decides(st[p], r, {t}),
             NEW x,
             \/ phase' = [phase EXCEPT ![p][t] = x]
             \/ x = "none" /\ FreeSlot(p, t),
             x \in Launched => phase[p][t] \in Launched /\ r.task[t] = st[p].task[t],
             Active(p) /\ ~aborted[p] /\ pc[p] # "throwing" =>
               x \in Launched \union {"thrown"} \/ r.task[t] # "in_progress"
      PROVE  Slots'
  <2>1. st'[p] = r
    BY <1>3 DEF TypeOK
  <2>2. \A u \in Tasks : phase'[p][u] = IF u = t THEN x ELSE phase[p][u]
    BY <1>3, FreeSlotAt DEF TypeOK
  <2>3. \A q \in Procs \ {p} : phase'[q] = phase[q]
    BY <1>3, FreeSlotAt DEF TypeOK
  <2>4. SlotsOf(p)'
    BY <1>1, <1>2, <1>3, <2>1, <2>2, TrackedStep
  <2>5. SameElsewhere(p)
    BY <1>2, <1>3, <2>3 DEF SameElsewhere, StopsOnly, TypeOK
  <2> QED BY <2>4, <2>5, SlotsElsewhere
<1>4. CASE RunnerFinish(p, t) \/ HandlerThrows(p, t)
  <2>1. st' = [st EXCEPT ![p] = st[p]] /\ Decides(st[p], st[p], {t})
    BY <1>4 DEF RunnerFinish, HandlerThrows, Decides, TypeOK
  <2>2. PICK x \in Launched \union {"thrown"} :
          /\ phase' = [phase EXCEPT ![p][t] = x]
          /\ x \in Launched => phase[p][t] \in Launched
    BY <1>4 DEF RunnerFinish, HandlerThrows, Launched
  <2> QED BY <1>1, <1>3, <2>1, <2>2
<1>5. CASE HandlerApply(p, t)
  <2>1. phase' = [phase EXCEPT ![p][t] = "applied"]
    BY <1>5 DEF HandlerApply
  <2>2. PICK hit \in BOOLEAN : Apply(p, t, hit) \/ BackToPending(p, t)
    BY <1>5 DEF HandlerApply
  <2>3. /\ \E r \in ExecutionState : st' = [st EXCEPT ![p] = r]
        /\ Decides(st[p], st'[p], {t}) /\ st'[p].task[t] # "in_progress"
    <3>1. CASE Apply(p, t, hit)
      BY <3>1, ApplyDecides
    <3>2. CASE BackToPending(p, t)
      BY <3>2, BackDecides
    <3> QED BY <2>2, <3>1, <3>2
  <2>4. PICK r \in ExecutionState : st' = [st EXCEPT ![p] = r]
    BY <2>3
  <2>5. st'[p] = r
    BY <2>4 DEF TypeOK
  <2> QED BY <1>3, <2>1, <2>3, <2>4, <2>5 DEF Launched
<1>6. CASE HandlerDetect(p, t)
  <2>1. Detect(p) /\ FreeSlot(p, t) /\ phase[p][t] = "applied"
    BY <1>6 DEF HandlerDetect
  <2>2. PICK r \in ExecutionState : st' = [st EXCEPT ![p] = r] /\ Decides(st[p], r, {})
    BY <2>1, DetectDecides
  <2>3. /\ Decides(st[p], r, {t})
        /\ r.task[t] = "in_progress" => st[p].task[t] = "in_progress"
    BY <2>2 DEF Decides
  <2>4. t \notin cur[p]
    BY <1>1 DEF SlotsOf, InHand
  <2>5. Active(p) /\ ~aborted[p] /\ pc[p] # "throwing" => st[p].task[t] # "in_progress"
    BY <1>1, <2>1, <2>4 DEF SlotsOf, InStep, Tracked, Launched
  <2> QED BY <1>3, <2>1, <2>2, <2>3, <2>5 DEF Launched
<1>7. CASE HandlerStopped(p, t)
  <2>1. BackToPending(p, t) /\ FreeSlot(p, t)
    BY <1>7 DEF HandlerStopped
  <2>2. PICK r \in ExecutionState : st' = [st EXCEPT ![p] = r]
    BY <2>1, BackDecides
  <2>3. st'[p] = r
    BY <2>2 DEF TypeOK
  <2>4. Decides(st[p], r, {t}) /\ r.task[t] = "pending"
    BY <2>1, <2>3, BackDecides
  <2> QED BY <1>3, <2>1, <2>2, <2>4 DEF Launched
<1>8. CASE HandlerFailed(p, t)
  <2> DEFINE r == TasksSkipped(TaskFailed(st[p], t), ToSkip(TaskFailed(st[p], t), t))
  <2>1. st' = [st EXCEPT ![p] = r] /\ FreeSlot(p, t)
    BY <1>8 DEF HandlerFailed
  <2>2. r \in ExecutionState /\ Decides(st[p], r, {t}) /\ r.task[t] # "in_progress"
    BY <1>1, FailureDecides
  <2> HIDE DEF r
  <2> QED BY <1>3, <2>1, <2>2 DEF Launched
<1>9. CASE HandlerFailTask(p, t)
  <2> DEFINE r == TaskFailed(st[p], t)
  <2>1. st' = [st EXCEPT ![p] = r] /\ FreeSlot(p, t)
    BY <1>9 DEF HandlerFailTask, TypeOK
  <2>2. r \in ExecutionState /\ Decides(st[p], r, {t}) /\ r.task[t] # "in_progress"
    BY <1>1, FailureDecides
  <2> HIDE DEF r
  <2> QED BY <1>3, <2>1, <2>2 DEF Launched
<1> QED BY <1>4, <1>5, <1>6, <1>7, <1>8, <1>9

\* The loop throws: what it was preparing is dropped.
LEMMA ThrowSlots ==
  ASSUME TypeOK, Slots, NEW p \in Procs, LoopThrows(p)
  PROVE  Slots'
<1>1. /\ SlotsOf(p) /\ Active(p) /\ pc' = [pc EXCEPT ![p] = "throwing"]
      /\ cur' = [cur EXCEPT ![p] = {}] /\ UNCHANGED <<st, aborted, ended>>
  BY DEF LoopThrows, Slots, Active, Loop, flags
<1>2. PICK t \in cur[p] : FreeSlot(p, t)
  BY DEF LoopThrows
<1>3. t \in Tasks /\ phase[p][t] = "none"
  BY <1>1 DEF SlotsOf, InHand, TypeOK
<1>4. /\ \A u \in Tasks : phase'[p][u] = phase[p][u]
      /\ \A q \in Procs \ {p} : phase'[q] = phase[q]
  BY <1>2, <1>3, FreeSlotAt
<1>5. pc'[p] = "throwing" /\ cur'[p] = {}
  BY <1>1 DEF TypeOK
<1>6. InHand(p)' /\ NotYetDone(p)'
  BY <1>1, <1>4, <1>5 DEF SlotsOf, InHand, NotYetDone
<1>7. ~aborted[p] => InStep(p)'
  BY <1>1, <1>4, <1>5 DEF SlotsOf, InStep
<1>8. SlotsOf(p)'
  BY <1>1, <1>6, <1>7 DEF SlotsOf
<1>9. SameElsewhere(p)
  BY <1>1, <1>4 DEF SameElsewhere, TypeOK
<1> QED BY <1>8, <1>9, SlotsElsewhere

\* The rest of the loop, and the ends of a run.
LEMMA OtherSlots ==
  ASSUME TypeOK, Slots, NEW p \in Procs,
         \/ Race(p) \/ DrainStuck(p)
         \/ pc[p] = "top" /\ pc' = [pc EXCEPT ![p] = "drain"]
              /\ UNCHANGED <<durable, st, pass, slots, flags>>
         \/ YieldCheckpoint(p) \/ DrainCancelled(p) \/ DrainFinalize(p) \/ EndFailed(p)
  PROVE  Slots'
<1>1. /\ SlotsOf(p) /\ cur[p] \subseteq Tasks /\ st[p] \in ExecutionState
      /\ Active(p) /\ pc[p] # "launch"
  BY DEF Race, DrainStuck, YieldCheckpoint, DrainCancelled, DrainFinalize, EndFailed,
         Slots, TypeOK, Active, Loop
<1>2. cur[p] = {} /\ cur' = cur /\ phase' = phase
  BY <1>1 DEF Race, DrainStuck, YieldCheckpoint, DrainCancelled, DrainFinalize, EndFailed,
         SlotsOf, InHand, Preparing, pass, slots
<1>3. /\ aborted[p] => aborted'[p]
      /\ \A q \in Procs \ {p} : aborted'[q] = aborted[q] /\ ended'[q] = ended[q]
  BY DEF Race, DrainStuck, YieldCheckpoint, DrainCancelled, DrainFinalize, EndFailed,
         Told, Stops, flags, TypeOK
<1>4. \E l : pc' = [pc EXCEPT ![p] = l]
  BY DEF Race, DrainStuck, YieldCheckpoint, DrainCancelled, DrainFinalize, EndFailed, Leave
<1>5. \E r : st' = [st EXCEPT ![p] = r]
  BY DEF Race, DrainStuck, YieldCheckpoint, DrainCancelled, DrainFinalize, EndFailed, TypeOK
<1>6. SameElsewhere(p)
  BY <1>2, <1>3, <1>4, <1>5 DEF SameElsewhere, TypeOK
<1>7. CASE DrainCancelled(p) \/ DrainFinalize(p) \/ EndFailed(p)
  <2>1. ~Active(p)'
    BY <1>7 DEF DrainCancelled, DrainFinalize, EndFailed, Leave, Active, Loop, TypeOK
  <2>2. ASSUME NEW u \in Tasks PROVE st'[p].task[u] = st[p].task[u]
    <3>1. CASE DrainFinalize(p)
      <4>1. st'[p] = Finalize(st[p])
        BY <3>1 DEF DrainFinalize, TypeOK
      <4> QED BY <1>1, <4>1, EndAt
    <3> QED BY <1>7, <3>1 DEF DrainCancelled, EndFailed
  <2> QED BY <1>1, <1>2, <1>3, <1>6, <2>1, <2>2, PassOver, SlotsElsewhere
<1>8. CASE YieldCheckpoint(p)
  <2>1. st'[p] = Yield(st[p])
    BY <1>8 DEF YieldCheckpoint, TypeOK
  <2>2. \A u \in Tasks : st'[p].task[u] = "completed" => st[p].task[u] = "completed"
    BY <1>1, <2>1, YieldAt
  <2>3. Active(p)' => aborted'[p]
    <3>1. CASE Taken(p)
      BY <1>8, <3>1 DEF YieldCheckpoint, Active, Loop, TypeOK
    <3>2. CASE ~Taken(p)
      BY <1>8, <3>2 DEF YieldCheckpoint, Told, Stops, TypeOK
    <3> QED BY <3>1, <3>2
  <2>4. pc[p] # "throwing"
    BY <1>8 DEF YieldCheckpoint
  <2> QED BY <1>1, <1>2, <1>3, <1>6, <2>2, <2>3, <2>4, PassOver, SlotsElsewhere
<1>9. CASE ~(DrainCancelled(p) \/ DrainFinalize(p) \/ EndFailed(p) \/ YieldCheckpoint(p))
  <2>1. UNCHANGED <<st, aborted, ended>> /\ pc[p] # "throwing"
    BY <1>9 DEF Race, DrainStuck, flags
  <2> QED BY <1>1, <1>2, <1>6, <2>1, PassOver, SlotsElsewhere DEF SlotsOf
<1> QED BY <1>7, <1>8, <1>9

\* A process that yielded lets go of its locks, and forgets the run.
LEMMA PartingSlots ==
  ASSUME TypeOK, Slots, NEW p \in Procs, LetGo(p) \/ Forget(p)
  PROVE  Slots'
<1>1. /\ SlotsOf(p) /\ pc[p] = "leaving" /\ UNCHANGED <<st, cur, phase, aborted, ended>>
      /\ pc' = pc \/ pc' = [pc EXCEPT ![p] = "yielded"]
  BY DEF LetGo, Forget, Slots, durable, pass, slots, flags
<1>2. pc'[p] \in {"leaving", "yielded"}
  BY <1>1 DEF TypeOK
<1>3. cur[p] = {} /\ ~Active(p)'
  BY <1>1, <1>2 DEF SlotsOf, InHand, Preparing, Active, Loop
<1>4. SlotsOf(p)'
  BY <1>1, <1>3 DEF SlotsOf, InHand, NotYetDone
<1>5. SameElsewhere(p)
  BY <1>1 DEF SameElsewhere, TypeOK
<1> QED BY <1>4, <1>5, SlotsElsewhere

LEMMA ReadSlots ==
  ASSUME TypeOK, Slots, NEW p \in Procs, NEW t \in Tasks, NEW d \in Datasets, ReadInput(p, t, d)
  PROVE  Slots'
<1>1. PICK l \in Preparing : pc' = [pc EXCEPT ![p] = l]
  BY ReadInputTarget DEF Preparing
<1>2. /\ SlotsOf(p) /\ t \in cur[p] /\ cur[p] \subseteq Tasks /\ pc[p] \in Preparing
      /\ UNCHANGED <<st, cur, phase, aborted, ended>>
  BY DEF ReadInput, Slots, Preparing, TypeOK, flags
<1>3. Decides(st[p], st'[p], {t}) /\ StopsOnly(p)
  BY <1>2 DEF Decides, StopsOnly
<1>4. pc'[p] = l
  BY <1>1 DEF TypeOK
<1>5. SlotsOf(p)'
  BY <1>2, <1>3, <1>4, CurStep
<1>6. SameElsewhere(p)
  BY <1>1, <1>2 DEF SameElsewhere, TypeOK
<1> QED BY <1>5, <1>6, SlotsElsewhere

LEMMA CancelSlots ==
  ASSUME TypeOK, Slots, NEW p \in Procs, RequestCancel(p) \/ EndCancelled(p)
  PROVE  Slots'
<1>1. /\ SlotsOf(p) /\ st[p] \in ExecutionState /\ cur[p] \subseteq Tasks
      /\ UNCHANGED <<pc, cur, phase>>
  BY DEF RequestCancel, EndCancelled, Slots, TypeOK, pass, slots
<1>2. /\ aborted'[p] /\ \A q \in Procs \ {p} : aborted'[q] = aborted[q] /\ ended'[q] = ended[q]
  BY DEF RequestCancel, EndCancelled, CancelDue, TypeOK
<1>3. \A q \in Procs \ {p} : st'[q] = st[q]
  BY DEF RequestCancel, EndCancelled, TypeOK
<1>4. ASSUME NEW u \in Tasks
      PROVE  st'[p].task[u] \in {"completed", "in_progress"} => st'[p].task[u] = st[p].task[u]
  <2>1. CASE RequestCancel(p)
    BY <2>1 DEF RequestCancel
  <2>2. CASE EndCancelled(p)
    <3>1. st'[p] = Cancel(Yield(st[p])) /\ Yield(st[p]) \in ExecutionState
      BY <1>1, <2>2, EndTypes DEF EndCancelled, TypeOK
    <3>2. Cancel(Yield(st[p])).task = Yield(st[p]).task
      BY <3>1, EndAt
    <3> QED BY <1>1, <3>1, <3>2, YieldAt
  <2> QED BY <2>1, <2>2
<1>5. SlotsOf(p)'
  BY <1>1, <1>2, <1>4 DEF SlotsOf, InHand, NotYetDone, Active
<1>6. SameElsewhere(p)
  BY <1>1, <1>2, <1>3 DEF SameElsewhere
<1> QED BY <1>5, <1>6, SlotsElsewhere

\* A process that has nothing in hand, and whose run has nothing in progress.
LEMMA EmptySlots ==
  ASSUME NEW p \in Procs, cur'[p] = {}, \A t \in Tasks : phase'[p][t] = "none",
         Active(p)' => ~ended'[p], \A t \in Tasks : st'[p].task[t] # "in_progress"
  PROVE  SlotsOf(p)'
BY DEF SlotsOf, InHand, NotYetDone, InStep, Tracked, Launched

LEMMA BeginSlots ==
  ASSUME TypeOK, Ownership, Slots, NEW p \in Procs, Start(p) \/ Resume(p) \/ Crash(p)
  PROVE  Slots'
<1>1. ASSUME Crash(p) PROVE Slots'
  <2>1. /\ pc' = [pc EXCEPT ![p] = "dead"] /\ st' = [st EXCEPT ![p] = NoState]
        /\ cur' = [cur EXCEPT ![p] = {}]
        /\ phase' = [phase EXCEPT ![p] = [t \in Tasks |-> "none"]]
        /\ UNCHANGED <<aborted, ended>>
    BY <1>1 DEF Crash, flags
  <2>2. \A t \in Tasks : NoState.task[t] # "in_progress"
    <3>1. [i \in Inputs |-> Unassigned] \in [Inputs -> Values \union {Unassigned}]
      OBVIOUS
    <3> QED BY <3>1, InitializeAt DEF NoState
  <2>3. SlotsOf(p)'
    BY <2>1, <2>2, EmptySlots DEF Active, Loop, TypeOK
  <2>4. SameElsewhere(p)
    BY <2>1 DEF SameElsewhere, TypeOK
  <2> QED BY <2>3, <2>4, SlotsElsewhere
<1>2. ASSUME NEW s, NEW id, Begin(p, s, id), \A t \in Tasks : s.task[t] # "in_progress"
      PROVE  Slots'
  <2>1. /\ pc[p] = "idle" /\ pc' = [pc EXCEPT ![p] = "top"] /\ st' = [st EXCEPT ![p] = s]
        /\ UNCHANGED <<cur, phase, aborted, ended>>
    BY <1>2 DEF Begin, pass, slots
  <2>2. ~ended[p] /\ \A t \in Tasks : phase[p][t] = "none"
    BY <2>1, Locations DEF Ownership, Active, Parted
  <2>3. cur[p] = {}
    BY <2>1 DEF Slots, SlotsOf, InHand, Preparing
  <2>4. st'[p] = s
    BY <2>1 DEF TypeOK
  <2>5. SlotsOf(p)'
    BY <1>2, <2>1, <2>2, <2>3, <2>4, EmptySlots
  <2>6. SameElsewhere(p)
    BY <2>1 DEF SameElsewhere, TypeOK
  <2> QED BY <2>5, <2>6, SlotsElsewhere
<1>3. ASSUME Start(p) PROVE Slots'
  <2>1. \A t \in Tasks : Initialize(root).task[t] # "in_progress"
    BY InitializeAt DEF TypeOK
  <2> QED BY <1>2, <1>3, <2>1 DEF Start
<1>4. ASSUME Resume(p) PROVE Slots'
  <2>0. store.s \in ExecutionState
    BY DEF TypeOK
  <2>1. \A t \in Tasks : Yield(store.s).task[t] # "in_progress"
    BY <2>0, YieldAt
  <2> QED BY <1>2, <1>4, <2>1 DEF Resume
<1> QED BY <1>1, <1>3, <1>4

LEMMA InitSlots == Init => Slots
<1> SUFFICES ASSUME Init PROVE Slots
  OBVIOUS
<1>1. \A p \in Procs : cur[p] = {} /\ ~Active(p) /\ \A t \in Tasks : phase[p][t] = "none"
  BY Locations DEF Init, Active
<1> QED BY <1>1 DEF Slots, SlotsOf, InHand, NotYetDone, Launched

LEMMA NextSlots ==
  ASSUME TypeOK, Ownership, Slots, [Next]_vars
  PROVE  Slots'
<1>1. CASE UNCHANGED <<pc, st, pass, slots, flags>>
  BY <1>1 DEF Slots, SlotsOf, InHand, NotYetDone, InStep, Tracked, Active, pass, slots, flags
<1>2. ASSUME NEW i \in Inputs, NEW v \in Values, SetInput(i, v) PROVE Slots'
  BY <1>1, <1>2 DEF SetInput
<1>3. CASE UNCHANGED vars
  BY <1>1, <1>3 DEF vars
<1>4. ASSUME NEW p \in Procs, LoopStep(p) PROVE Slots'
  <2>1. CASE Top(p) \/ Launch(p)
    <3>1. GetReady(st[p]) \in SUBSET Tasks /\ queue[p] \in SUBSET Tasks
      BY DEF GetReady, GetReadyTasks, TypeOK
    <3> QED BY <2>1, <3>1, PassSlots, OtherSlots DEF Top, Launch
  <2>2. CASE \E t \in Tasks : \E d \in Datasets : ReadInput(p, t, d)
    BY <2>2, ReadSlots
  <2>3. CASE \E t \in Tasks :
               LoopWaiting(p, t) \/ LoopStart(p, t) \/ LoopHit(p, t) \/ LoopDetect(p, t)
    BY <2>3, LoopTaskSlots
  <2> QED BY <1>4, <2>1, <2>2, <2>3, OtherSlots, PartingSlots DEF LoopStep
<1> QED BY <1>2, <1>3, <1>4, BeginSlots, CancelSlots, HandlerSlots, ThrowSlots DEF Next

LEMMA AlwaysSlots == Spec => [](TypeOK /\ Ownership /\ Slots)
<1>1. Init => TypeOK /\ Ownership /\ Slots
  BY InitType, InitOwnership, InitSlots
<1>2. TypeOK /\ Ownership /\ Slots /\ [Next]_vars => (TypeOK /\ Ownership /\ Slots)'
  BY NextType, NextOwnership, NextSlots
<1> QED BY <1>1, <1>2, PTL DEF Spec

\* A task is in progress while its execution is tracked and not yet applied,
\* although the launch pass takes no mutex, and, until the loop throws, only
\* while it is tracked.
THEOREM SlotsKept == Spec => []SlotsAgree
<1>1. Slots => SlotsAgree
  BY DEF Slots, SlotsOf, InStep, Tracked, InFlight, Launched, SlotsAgree
<1> QED BY <1>1, AlwaysSlots, PTL

-----------------------------------------------------------------------------
(* What a run leaves when it is over                                       *)

Ends(p) ==
  \/ YieldCheckpoint(p) \/ LetGo(p) \/ Forget(p) \/ EndCancelled(p) \/ DrainCancelled(p)
  \/ DrainFinalize(p) \/ EndFailed(p) \/ Crash(p)

\* Only what runs, or has yielded, comes to an end.
LEMMA EndsFrom ==
  ASSUME TypeOK, Ownership, NEW p \in Procs, Ends(p)
  PROVE  Active(p) \/ Parted(p)
<1>1. CASE EndCancelled(p)
  <2>1. pc[p] \in PC \ {"idle", "dead"} /\ ~ended[p]
    BY <1>1 DEF EndCancelled, CancelDue, TypeOK
  <2>2. pc[p] \notin {"finished", "cancelled", "failed"}
    BY <2>1 DEF Ownership
  <2> QED BY <2>1, <2>2 DEF PC, Ended, Active, Parted
<1>2. CASE ~EndCancelled(p)
  BY <1>2 DEF Ends, YieldCheckpoint, LetGo, Forget, DrainCancelled, DrainFinalize, EndFailed, Crash,
     Active, Loop, Parted
<1> QED BY <1>1, <1>2

LEMMA StepCases ==
  ASSUME TypeOK, Ownership, [Next]_vars
  PROVE  \/ UNCHANGED <<store, pc, st, ended, runId>>
         \/ \E p \in Procs : Start(p) \/ Resume(p)
         \/ \E p \in Procs : Quiet(p)
         \/ \E p \in Procs : Ends(p)
<1>1. ASSUME NEW p \in Procs, LoopStep(p) PROVE Quiet(p) \/ Ends(p)
  BY <1>1, QuietSteps DEF LoopStep, Ends
<1>2. ASSUME NEW i \in Inputs, NEW v \in Values, SetInput(i, v)
      PROVE  UNCHANGED <<store, pc, st, ended, runId>>
  BY <1>2 DEF SetInput, flags
<1>3. UNCHANGED vars => UNCHANGED <<store, pc, st, ended, runId>>
  BY DEF vars, durable, flags
<1> QED BY <1>1, <1>2, <1>3, QuietSteps DEF Next, Ends

\* What the last steps of a run change.
LEMMA EndsAt ==
  ASSUME TypeOK, Ownership, NEW p \in Procs, Ends(p)
  PROVE  /\ \A q \in Procs \ {p} : pc'[q] = pc[q] /\ st'[q] = st[q] /\ ended'[q] = ended[q]
         /\ runId' = runId
         /\ store' = store \/ \E s \in ExecutionState : Write(p, s)
         /\ pc'[p] = "finished" => DrainFinalize(p) /\ Taken(p)
         /\ pc'[p] = "cancelled" => DrainCancelled(p) \/ (DrainFinalize(p) /\ ~Taken(p))
         /\ Active(p)' => \/ EndCancelled(p) /\ Active(p)
                          \/ YieldCheckpoint(p) /\ ~Taken(p)
         /\ Parted(p) => Parted(p)'
<1>1. \A q \in Procs \ {p} : pc'[q] = pc[q] /\ st'[q] = st[q] /\ ended'[q] = ended[q]
  BY DEF Ends, YieldCheckpoint, LetGo, Forget, EndCancelled, DrainCancelled, DrainFinalize,
     EndFailed, Crash, Leave, Told, durable, flags, TypeOK
<1>2. runId' = runId
  BY DEF Ends, YieldCheckpoint, LetGo, Forget, EndCancelled, DrainCancelled, DrainFinalize,
     EndFailed, Crash, flags
<1>3. store' = store \/ \E s \in ExecutionState : Write(p, s)
  <2>1. /\ Yield(st[p]) \in ExecutionState /\ Finalize(st[p]) \in ExecutionState
        /\ Cancel(Yield(st[p])) \in ExecutionState
        /\ [store.s EXCEPT !.status = "failed"] \in ExecutionState
    BY EndTypes DEF TypeOK
  <2> QED BY <2>1 DEF Ends, YieldCheckpoint, LetGo, Forget, EndCancelled, DrainCancelled,
             DrainFinalize, EndFailed, Crash, durable
<1>4. CASE EndCancelled(p)
  <2>1. pc' = pc /\ (Active(p) \/ Parted(p))
    BY <1>4, EndsFrom DEF EndCancelled
  <2>2. pc[p] \notin {"finished", "cancelled"} /\ Active(p)' = Active(p) /\ Parted(p)' = Parted(p)
    BY <2>1 DEF Active, Parted, Loop
  <2> QED BY <1>1, <1>2, <1>3, <1>4, <2>1, <2>2
<1>5. CASE LetGo(p) \/ Forget(p)
  <2>1. pc[p] = "leaving" /\ pc'[p] \in {"leaving", "yielded"}
    BY <1>5 DEF LetGo, Forget, TypeOK
  <2> QED BY <1>1, <1>2, <1>3, <2>1 DEF Active, Parted, Loop
<1>6. CASE ~(EndCancelled(p) \/ LetGo(p) \/ Forget(p))
  <2>1. Active(p) /\ ~Parted(p)
    BY <1>6, Locations DEF Ends, YieldCheckpoint, DrainCancelled, DrainFinalize, EndFailed, Crash,
       Active, Parted, Loop
  <2>2. /\ pc'[p] = "finished" => DrainFinalize(p) /\ Taken(p)
        /\ pc'[p] = "cancelled" => DrainCancelled(p) \/ (DrainFinalize(p) /\ ~Taken(p))
        /\ Active(p)' => YieldCheckpoint(p) /\ ~Taken(p)
    <3>1. CASE YieldCheckpoint(p)
      BY <3>1 DEF YieldCheckpoint, TypeOK, Active, Loop
    <3>2. CASE DrainCancelled(p)
      <4>1. pc' = [pc EXCEPT ![p] = "cancelled"]
        BY <3>2 DEF DrainCancelled, Leave
      <4>2. pc'[p] = "cancelled" /\ ~Active(p)'
        BY <4>1 DEF TypeOK, Active, Loop
      <4> QED BY <3>2, <4>2
    <3>3. CASE EndFailed(p)
      <4>1. pc' = [pc EXCEPT ![p] = "failed"]
        BY <3>3 DEF EndFailed, Leave
      <4> QED BY <4>1 DEF TypeOK, Active, Loop
    <3>4. CASE Crash(p)
      <4>1. pc' = [pc EXCEPT ![p] = "dead"]
        BY <3>4 DEF Crash
      <4> QED BY <4>1 DEF TypeOK, Active, Loop
    <3>5. CASE DrainFinalize(p)
      BY <3>5 DEF DrainFinalize, Leave, TypeOK, Active, Loop
    <3> QED BY <1>6, <3>1, <3>2, <3>3, <3>4, <3>5 DEF Ends
  <2> QED BY <1>1, <1>2, <1>3, <2>1, <2>2
<1> QED BY <1>4, <1>5, <1>6

\* A process whose run is over, unlike one that yielded, takes no more steps,
\* and its run's last state stays in its memory.
LEMMA OverStays ==
  ASSUME TypeOK, Ownership, [Next]_vars, NEW p \in Procs, pc[p] \in Ended \ {"yielded"}
  PROVE  pc'[p] = pc[p] /\ st'[p] = st[p] /\ runId'[p] = runId[p]
<1>1. ~Active(p) /\ ~Parted(p) /\ pc[p] # "idle"
  BY Locations DEF Active, Parted, Ended
<1>2. CASE UNCHANGED <<store, pc, st, ended, runId>>
  BY <1>2
<1>3. ASSUME NEW q \in Procs, Start(q) \/ Resume(q)
      PROVE  pc'[p] = pc[p] /\ st'[p] = st[p] /\ runId'[p] = runId[p]
  BY <1>1, <1>3 DEF Start, Resume, Begin, TypeOK
<1>4. ASSUME NEW q \in Procs, Quiet(q)
      PROVE  pc'[p] = pc[p] /\ st'[p] = st[p] /\ runId'[p] = runId[p]
  BY <1>1, <1>4 DEF Quiet, TypeOK
<1>5. ASSUME NEW q \in Procs, Ends(q)
      PROVE  pc'[p] = pc[p] /\ st'[p] = st[p] /\ runId'[p] = runId[p]
  <2>1. q # p
    BY <1>1, <1>5, EndsFrom
  <2> QED BY <1>5, <2>1, EndsAt
<1> QED BY <1>2, <1>3, <1>4, <1>5, StepCases

\* How a process comes to an end.
LEMMA EndsHow ==
  ASSUME TypeOK, Ownership, [Next]_vars, NEW p \in Procs, pc'[p] # pc[p],
         pc'[p] \in {"finished", "cancelled"}
  PROVE  /\ pc'[p] = "finished" => DrainFinalize(p) /\ Taken(p)
         /\ pc'[p] = "cancelled" => DrainCancelled(p) \/ (DrainFinalize(p) /\ ~Taken(p))
         /\ runId' = runId
<1>1. \A q \in Procs : ~(Start(q) \/ Resume(q))
  BY DEF Start, Resume, Begin, TypeOK
<1>2. \A q \in Procs : ~Quiet(q)
  BY DEF Quiet, TypeOK, Loop
<1>3. \A q \in Procs : Ends(q) => q = p
  BY EndsAt
<1> QED BY <1>1, <1>2, <1>3, StepCases, EndsAt

\* The store keeps the run it holds until another starts, and what it holds
\* of one that is no longer running.
LEMMA StoreKept ==
  ASSUME TypeOK, Ownership, [Next]_vars, \A q \in Procs : ~Start(q)
  PROVE  /\ store'.id = store.id
         /\ store.s.status # "running" => store' = store
<1>1. ASSUME NEW p \in Procs, NEW s \in ExecutionState, Write(p, s) \/ Persist(p, s)
      PROVE  /\ store'.id = store.id
             /\ store.s.status # "running" => store' = store
  BY <1>1, WriteEffect, PersistEffect DEF Persist, Write, Taken
<1>2. CASE \E p \in Procs : Resume(p)
  BY <1>2 DEF Resume, Begin
<1>3. CASE \E p \in Procs : Quiet(p)
  BY <1>1, <1>3 DEF Quiet
<1>4. CASE \E p \in Procs : Ends(p)
  BY <1>1, <1>4, EndsAt
<1> QED BY <1>2, <1>3, <1>4, StepCases

-----------------------------------------------------------------------------
(* A completed run has settled its tasks                                   *)

\* A finished run that counts no failure has left each task of its run set
\* completed or waiting.
SettledRuns ==
  \A p \in Procs : pc[p] = "finished" /\ st[p].status = "completed" =>
    RunSet \subseteq TasksIn(st[p], {"completed", "waiting"})

LEMMA FinalizeSettles ==
  ASSUME TypeOK, RunsSound, Slots, NEW p \in Procs, DrainFinalize(p),
         Finalize(st[p]).status = "completed"
  PROVE  RunSet \subseteq TasksIn(Finalize(st[p]), {"completed", "waiting"})
<1>1. /\ st[p] \in ExecutionState /\ pc[p] = "drain" /\ InFlight(p) = {} /\ ~aborted[p] /\ ~Stuck(p)
      /\ SlotsOf(p) /\ Active(p)
  BY DEF DrainFinalize, TypeOK, Slots, Active, Loop
<1>2. st[p].failed = 0
  BY <1>1 DEF Finalize, ExecutionState
<1>3. TasksIn(st[p], {"failed", "skipped"}) = {} /\ ~failure[p]
  BY <1>1, <1>2 DEF RunsSound, Sound, Blame
<1>4. StuckTasks(st[p]) = {}
  BY <1>1, <1>3 DEF Stuck
<1>5. \A t \in Tasks : st[p].task[t] # "in_progress"
  BY <1>1, NothingTracked DEF SlotsOf, InStep, Tracked, Launched
<1>6. ASSUME NEW t \in RunSet PROVE st[p].task[t] \in {"completed", "waiting"}
  <2>1. t \in Tasks
    BY DEF RunSet, GetDependencyClosure
  <2>2. st[p].task[t] \in TaskStatus
    BY <1>1, <2>1 DEF ExecutionState
  <2> QED BY <1>3, <1>4, <1>5, <2>1, <2>2 DEF TaskStatus, StuckTasks, TasksIn
<1>7. Finalize(st[p]).task = st[p].task
  BY <1>1, EndAt
<1> QED BY <1>6, <1>7 DEF TasksIn, RunSet, GetDependencyClosure

LEMMA NextSettled ==
  ASSUME TypeOK, Ownership, RunsSound, Slots, SettledRuns, [Next]_vars
  PROVE  SettledRuns'
<1> SUFFICES ASSUME NEW p \in Procs, pc'[p] = "finished", st'[p].status = "completed"
             PROVE  RunSet \subseteq TasksIn(st'[p], {"completed", "waiting"})
  BY DEF SettledRuns, TasksIn
<1>1. CASE pc[p] = "finished"
  BY <1>1, OverStays DEF SettledRuns, Ended
<1>2. CASE pc[p] # "finished"
  <2>1. DrainFinalize(p)
    BY <1>2, EndsHow
  <2>2. st'[p] = Finalize(st[p])
    BY <2>1 DEF DrainFinalize, TypeOK
  <2> QED BY <2>1, <2>2, FinalizeSettles
<1> QED BY <1>1, <1>2

LEMMA AlwaysSettled == Spec => []SettledRuns
<1>1. Init => SettledRuns
  BY DEF Init, SettledRuns
<1>2. TypeOK /\ Ownership /\ RunsSound /\ Slots /\ SettledRuns /\ [Next]_vars => SettledRuns'
  BY NextSettled
<1> QED BY <1>1, <1>2, AlwaysSound, AlwaysSlots, PTL DEF Spec

\* A run recorded completed left no task of its run set pending, ready,
\* deferred, in progress, failed or skipped, whatever was set meanwhile.
THEOREM RunsSettle == Spec => []Settled
<1>1. SettledRuns => Settled
  BY DEF SettledRuns, Settled, Done
<1> QED BY <1>1, AlwaysSettled, PTL

-----------------------------------------------------------------------------
(* A run that ended has its end in the store                               *)

\* A cancelled run's end is recorded before its loop is done, with nothing
\* left in progress.
CancelFirst ==
  /\ store.s.status = "cancelled" => TasksIn(store.s, {"in_progress"}) = {}
  /\ \A p \in Procs : Active(p) /\ ended[p] => store.s.status = "cancelled"

\* A write of an active run that is not taken finds it cancelled.
LEMMA DroppedCancelled ==
  ASSUME Ownership, CancelFirst, NEW p \in Procs, Active(p), ~Taken(p)
  PROVE  store.s.status = "cancelled"
<1>1. store.s.status # "running"
  BY ActiveTaken
<1>2. CASE ended[p]
  BY <1>2 DEF CancelFirst
<1>3. CASE ~ended[p]
  BY <1>1, <1>3 DEF Ownership, ActiveOwnsStore, EndedLate
<1> QED BY <1>2, <1>3

\* What a cancel writes.
LEMMA CancelWrites ==
  ASSUME TypeOK, NEW p \in Procs, EndCancelled(p), Taken(p)
  PROVE  store'.s.status = "cancelled" /\ TasksIn(store'.s, {"in_progress"}) = {}
<1>1. st[p] \in ExecutionState
  BY DEF TypeOK
<1>2. Yield(st[p]) \in ExecutionState /\ Cancel(Yield(st[p])) \in ExecutionState
  BY <1>1, EndTypes
<1>3. store'.s = Cancel(Yield(st[p]))
  BY <1>2, WriteEffect DEF EndCancelled
<1>4. \A t \in Tasks : Cancel(Yield(st[p])).task[t] # "in_progress"
  BY <1>1, <1>2, EndAt, YieldAt
<1>5. Cancel(Yield(st[p])).status = "cancelled"
  BY <1>2 DEF Cancel, ExecutionState
<1> QED BY <1>3, <1>4, <1>5 DEF TasksIn

\* Only a cancel leaves a run in the store cancelled.
LEMMA CancelledBy ==
  ASSUME TypeOK, Ownership, [Next]_vars, store'.s.status = "cancelled"
  PROVE  store' = store \/ \E p \in Procs : EndCancelled(p) /\ Taken(p)
<1>1. ASSUME NEW p \in Procs, Start(p) \/ Resume(p) PROVE FALSE
  <2>1. CASE Start(p)
    <3>1. store'.s = Initialize(root)
      BY <2>1 DEF Start, Begin
    <3> QED BY <3>1, InitializeType DEF TypeOK
  <2>2. CASE Resume(p)
    <3>1. store'.s = Yield(store.s) /\ store.s \in ExecutionState /\ store.s.status = "running"
      BY <2>2 DEF Resume, Begin, TypeOK
    <3> QED BY <3>1, EndTypes
  <2> QED BY <1>1, <2>1, <2>2
<1>2. ASSUME NEW p \in Procs, Quiet(p) PROVE store' = store
  BY <1>2, QuietStore DEF Taken
<1>3. ASSUME NEW p \in Procs, Ends(p), store' # store PROVE EndCancelled(p) /\ Taken(p)
  <2>0. st[p] \in ExecutionState /\ store.s \in ExecutionState
    BY DEF TypeOK
  <2>1. ASSUME NEW s \in ExecutionState, Write(p, s) PROVE Taken(p) /\ store'.s = s
    BY <1>3, <2>1, WriteEffect
  <2>2. CASE YieldCheckpoint(p)
    <3>1. Active(p) /\ Write(p, Yield(st[p]))
      BY <2>2 DEF YieldCheckpoint, Active, Loop
    <3>2. Taken(p) /\ store'.s.status = st[p].status
      BY <2>0, <2>1, <3>1, EndTypes
    <3> QED BY <3>1, <3>2 DEF Taken, Ownership, ActiveOwnsStore
  <2>3. CASE DrainFinalize(p)
    <3>1. Finalize(st[p]) \in ExecutionState /\ Finalize(st[p]).status # "cancelled"
      BY <2>0, EndTypes DEF Finalize, ExecutionState
    <3> QED BY <2>1, <2>3, <3>1 DEF DrainFinalize
  <2>4. CASE EndFailed(p)
    <3>1. /\ [store.s EXCEPT !.status = "failed"] \in ExecutionState
          /\ [store.s EXCEPT !.status = "failed"].status # "cancelled"
      BY <2>0, EndTypes DEF ExecutionState
    <3> QED BY <2>1, <2>4, <3>1 DEF EndFailed
  <2>5. CASE EndCancelled(p)
    <3>1. Cancel(Yield(st[p])) \in ExecutionState
      BY <2>0, EndTypes
    <3> QED BY <2>1, <2>5, <3>1 DEF EndCancelled
  <2> QED BY <1>3, <2>2, <2>3, <2>4, <2>5 DEF Ends, LetGo, Forget, DrainCancelled, Crash, durable
<1> QED BY <1>1, <1>2, <1>3, StepCases

LEMMA NextCancelFirst ==
  ASSUME TypeOK, Ownership, CancelFirst, [Next]_vars
  PROVE  CancelFirst'
<1>1. ASSUME store'.s.status = "cancelled" PROVE TasksIn(store'.s, {"in_progress"}) = {}
  BY <1>1, CancelledBy, CancelWrites DEF CancelFirst
<1>2. ASSUME NEW p \in Procs, Active(p)', ended'[p] PROVE store'.s.status = "cancelled"
  <2>1. CASE Active(p) /\ ended[p]
    <3>1. store.s.status = "cancelled" /\ lock = p
      BY <2>1 DEF CancelFirst, Ownership, ActiveOwnsStore
    <3>2. \A q \in Procs : ~Start(q)
      BY <3>1, RunAssumption DEF Start, Begin, RunAssumption
    <3> QED BY <3>1, <3>2, StoreKept
  <2>2. CASE ~(Active(p) /\ ended[p])
    <3>1. ASSUME NEW q \in Procs, Start(q) \/ Resume(q) PROVE FALSE
      <4>1. pc[q] = "idle" /\ pc' = [pc EXCEPT ![q] = "top"] /\ ended' = ended
        BY <3>1 DEF Start, Resume, Begin
      <4>2. CASE q = p
        BY <1>2, <4>1, <4>2 DEF Ownership
      <4>3. CASE q # p
        BY <1>2, <2>2, <4>1, <4>3 DEF Active, TypeOK
      <4> QED BY <4>2, <4>3
    <3>2. ASSUME NEW q \in Procs, Quiet(q) PROVE store'.s.status = "cancelled"
      <4>1. Active(p)
        BY <1>2, <3>2, QuietAt
      <4>2. q = p /\ ~Taken(p) /\ store' = store
        BY <1>2, <2>2, <3>2, <4>1, QuietStore
      <4> QED BY <4>1, <4>2, DroppedCancelled
    <3>3. CASE UNCHANGED <<store, pc, st, ended, runId>>
      BY <1>2, <2>2, <3>3 DEF Active
    <3>4. ASSUME NEW q \in Procs, Ends(q) PROVE store'.s.status = "cancelled"
      <4>1. q = p
        BY <1>2, <2>2, <3>4, EndsAt DEF Active
      <4>2. CASE EndCancelled(p) /\ Active(p)
        <5>1. CASE Taken(p)
          BY <4>2, <5>1, CancelWrites
        <5>2. CASE ~Taken(p)
          <6>1. store' = store
            BY <4>2, <5>2, EndTypes, WriteEffect DEF EndCancelled, TypeOK
          <6> QED BY <4>2, <5>2, <6>1, DroppedCancelled
        <5> QED BY <5>1, <5>2
      <4>3. CASE YieldCheckpoint(p) /\ ~Taken(p)
        <5>1. store' = store /\ Active(p)
          BY <4>3, EndTypes, WriteEffect DEF YieldCheckpoint, Active, Loop, TypeOK
        <5> QED BY <4>3, <5>1, DroppedCancelled
      <4> QED BY <1>2, <3>4, <4>1, <4>2, <4>3, EndsAt
    <3> QED BY <3>1, <3>2, <3>3, <3>4, StepCases
  <2> QED BY <2>1, <2>2
<1> QED BY <1>1, <1>2 DEF CancelFirst, TasksIn

LEMMA NextEndRecorded ==
  ASSUME TypeOK, Ownership, Fresh, Slots, CancelFirst, EndRecorded, [Next]_vars
  PROVE  EndRecorded'
<1> DEFINE Recorded(p, s) == /\ s.status # "running"
                             /\ TasksIn(s, {"in_progress"}) = {}
                             /\ pc'[p] = "cancelled" => s.status = "cancelled"
<1> SUFFICES ASSUME NEW p \in Procs, pc'[p] \in {"finished", "cancelled"}, store'.id = runId'[p]
             PROVE  Recorded(p, store'.s)
  BY DEF EndRecorded, TasksIn
<1>1. CASE pc[p] = pc'[p]
  <2>1. runId'[p] = runId[p]
    BY <1>1, OverStays DEF Ended
  <2>2. \A q \in Procs : ~Start(q)
    BY <2>1 DEF Start, Begin, Fresh
  <2>3. store.id = runId[p]
    BY <2>1, <2>2, StoreKept
  <2>4. Recorded(p, store.s)
    BY <1>1, <2>3 DEF EndRecorded
  <2>5. store' = store
    BY <2>2, <2>4, StoreKept
  <2> QED BY <2>4, <2>5
<1>2. CASE pc[p] # pc'[p] /\ pc'[p] = "finished"
  <2>1. DrainFinalize(p)
    BY <1>2, EndsHow
  <2>2. /\ Active(p) /\ pc[p] = "drain" /\ InFlight(p) = {} /\ ~aborted[p] /\ SlotsOf(p)
        /\ st[p] \in ExecutionState
    BY <2>1 DEF DrainFinalize, Active, Loop, Slots, TypeOK
  <2>3. Taken(p)
    BY <1>2, EndsHow
  <2>4. Finalize(st[p]) \in ExecutionState
    BY <2>2, EndTypes
  <2>5. store'.s = Finalize(st[p])
    BY <2>1, <2>3, <2>4, WriteEffect DEF DrainFinalize
  <2>6. \A t \in Tasks : st[p].task[t] # "in_progress"
    BY <2>2, NothingTracked DEF SlotsOf, InStep, Tracked, Launched
  <2>7. Finalize(st[p]).task = st[p].task
    BY <2>2, EndAt
  <2>8. Finalize(st[p]).status # "running"
    BY <2>2 DEF Finalize, ExecutionState
  <2> QED BY <1>2, <2>5, <2>6, <2>7, <2>8 DEF TasksIn
<1>3. CASE pc[p] # pc'[p] /\ pc'[p] = "cancelled"
  <2>1. CASE DrainCancelled(p)
    <3>1. Active(p) /\ ended[p] /\ store' = store
      BY <2>1 DEF DrainCancelled, Active, Loop
    <3> QED BY <3>1 DEF CancelFirst
  <2>2. CASE DrainFinalize(p) /\ ~Taken(p)
    <3>1. Active(p) /\ store' = store
      BY <2>2, EndTypes, WriteEffect DEF DrainFinalize, Active, Loop, TypeOK
    <3> QED BY <2>2, <3>1, DroppedCancelled DEF CancelFirst
  <2> QED BY <1>3, <2>1, <2>2, EndsHow
<1> QED BY <1>1, <1>2, <1>3

LEMMA AlwaysEndRecorded == Spec => [](CancelFirst /\ EndRecorded)
<1>1. Init => CancelFirst /\ EndRecorded
  <2>1. [i \in Inputs |-> Unassigned] \in [Inputs -> Values \union {Unassigned}]
    OBVIOUS
  <2>2. NoState.status = "running"
    BY <2>1, InitializeType DEF NoState
  <2> QED BY <2>2, Locations DEF Init, CancelFirst, EndRecorded, Active
<1>2. TypeOK /\ Ownership /\ Fresh /\ Slots /\ CancelFirst /\ EndRecorded /\ [Next]_vars
        => (CancelFirst /\ EndRecorded)'
  BY NextCancelFirst, NextEndRecorded
<1> QED BY <1>1, <1>2, AlwaysSound, AlwaysSlots, PTL DEF Spec

\* A process that finished or was cancelled has its run's end in the store,
\* with nothing left in progress, until another run starts.
THEOREM EndsRecorded == Spec => []EndRecorded
BY AlwaysEndRecorded, PTL

-----------------------------------------------------------------------------
(* The store claims no output that was not written                         *)

\* A task whose output may still be written over what the store says of it.
Unapplied(p, t) ==
  \/ phase[p][t] \in {"running", "executed", "hit"}
  \/ t \in cur[p] /\ pc[p] \in Preparing \union {"launch"}

\* What the store and a run in memory claim of the outputs: the run claims only
\* outputs that were written; while it persists each change, it stands by
\* every completion the store holds; and the store holds none of a task that
\* has yet to be applied.
Behind == \A t \in Tasks : store.s.task[t] = "completed" => out[t].vv = store.s.vv[t]
StoreOf(p) ==
  Active(p) =>
    /\ \A t \in Tasks : st[p].task[t] = "completed" => out[t].vv = st[p].vv[t]
    /\ ~aborted[p] /\ pc[p] # "yield" =>
         \A t \in Tasks : store.s.task[t] = "completed" => st[p].task[t] = "completed"
    /\ \A t \in Tasks : Unapplied(p, t) => store.s.task[t] # "completed"
Follows == Behind /\ \A p \in Procs : StoreOf(p)

NoneYielded == \A p \in Procs : ~Parted(p)

\* Where none has yielded, an active run that has not ended runs in the store,
\* which takes what it persists.
LEMMA AloneTaken ==
  ASSUME Ownership, NoneYielded, NEW p \in Procs, Active(p), ~ended[p]
  PROVE  Taken(p)
BY DEF Ownership, ActiveOwnsStore, EndedLate, NoneYielded, Taken

LEMMA AlonePersist ==
  ASSUME TypeOK, Ownership, NoneYielded, NEW p \in Procs, Active(p), NEW s, Persist(p, s)
  PROVE  UNCHANGED <<aborted, ended>>
<1>1. CASE ended[p] \/ aborted[p] \/ Yielding(p)
  BY <1>1 DEF Persist
<1>2. CASE ~(ended[p] \/ aborted[p] \/ Yielding(p))
  <2>1. Told(p) /\ Taken(p)
    BY <1>2, AloneTaken DEF Persist
  <2>2. /\ aborted' = [aborted EXCEPT ![p] = aborted[p] \/ ~Taken(p)]
        /\ ended' = [ended EXCEPT ![p] = ended[p] \/ ~Taken(p)]
    BY <2>1 DEF Told, Stops, TypeOK
  <2> QED BY <2>1, <2>2 DEF TypeOK
<1> QED BY <1>1, <1>2

\* A step of the active process that writes no output: it persists the state
\* it leaves, or takes no completion back that the store holds.
LEMMA FollowStep ==
  ASSUME Ownership, Slots', Follows, NEW p \in Procs, Active(p), out' = out,
         \A q \in Procs \ {p} : pc'[q] = pc[q],
         \A u \in Tasks : st'[p].task[u] = "completed" =>
           st[p].task[u] = "completed" /\ st'[p].vv[u] = st[p].vv[u],
         \/ store'.s.task = st'[p].task /\ store'.s.vv = st'[p].vv
         \/ /\ store'.s.task = store.s.task /\ store'.s.vv = store.s.vv
            /\ Active(p)' =>
                 \A u \in Tasks : Unapplied(p, u)' => Unapplied(p, u) \/ store.s.task[u] # "completed"
            /\ Active(p)' /\ ~aborted'[p] /\ pc'[p] # "yield" =>
                 /\ ~aborted[p] /\ pc[p] # "yield"
                 /\ \A u \in Tasks : store.s.task[u] = "completed" /\ st[p].task[u] = "completed"
                                       => st'[p].task[u] = "completed"
  PROVE  Follows'
<1>1. ASSUME NEW q \in Procs \ {p} PROVE ~Active(q)'
  BY OneActive DEF Active, Ownership
<1>2. Behind /\ StoreOf(p)
  BY DEF Follows
<1>3. \A u \in Tasks : st'[p].task[u] = "completed" => out'[u].vv = st'[p].vv[u]
  BY <1>2 DEF StoreOf
<1>4. CASE store'.s.task = st'[p].task /\ store'.s.vv = st'[p].vv
  <2>1. \A u \in Tasks : Unapplied(p, u)' => st'[p].task[u] # "completed"
    BY DEF Slots, SlotsOf, InHand, NotYetDone, Unapplied, Launched
  <2> QED BY <1>1, <1>3, <1>4, <2>1 DEF Follows, Behind, StoreOf
<1>5. CASE store'.s.task = store.s.task /\ store'.s.vv = store.s.vv /\ ~(store'.s.task = st'[p].task /\ store'.s.vv = st'[p].vv)
  <2>1. Behind'
    BY <1>2, <1>5 DEF Behind
  <2>2. StoreOf(p)'
    BY <1>2, <1>3, <1>5 DEF StoreOf
  <2> QED BY <1>1, <2>1, <2>2 DEF Follows, StoreOf
<1> QED BY <1>4, <1>5

\* A result applied in the active process.
LEMMA FollowApply ==
  ASSUME TypeOK, Ownership, Follows, NEW p \in Procs, Active(p), NEW t \in Tasks,
         NEW hit \in BOOLEAN, Apply(p, t, hit), given[p][t] = MergedVV(st[p], t),
         Unapplied(p, t), store' = store, aborted' = aborted,
         \A q \in Procs \ {p} : pc'[q] = pc[q], pc'[p] # "yield" => pc[p] # "yield",
         \A u \in Tasks : Unapplied(p, u)' => Unapplied(p, u)
  PROVE  Follows'
<1>1. ASSUME NEW q \in Procs \ {p} PROVE ~Active(q)'
  BY OneActive DEF Active, Ownership
<1>2. Behind /\ StoreOf(p) /\ store.s.task[t] # "completed"
  BY DEF Follows, StoreOf
<1>3. /\ Decides(st[p], st'[p], {t}) /\ KeepsCompleted(st[p], st'[p], {})
      /\ out'[t].vv = st'[p].vv[t]
      /\ \A u \in Tasks \ {t} : out'[u] = out[u]
  <2>1. Decides(st[p], st'[p], {t}) /\ KeepsCompleted(st[p], st'[p], {})
    BY ApplyDecides
  <2>2. st'[p].vv[t] = MergedVV(st[p], t) /\ out'[t].vv = given[p][t]
    BY ApplyDecides
  <2>3. \A u \in Tasks \ {t} : out'[u] = out[u]
    BY DEF Apply, TypeOK
  <2> QED BY <2>1, <2>2, <2>3
<1>4. Behind'
  BY <1>2, <1>3 DEF Behind
<1>5. \A u \in Tasks : st'[p].task[u] = "completed" => out'[u].vv = st'[p].vv[u]
  BY <1>2, <1>3 DEF Decides, StoreOf
<1>6. \A u \in Tasks : st[p].task[u] = "completed" => st'[p].task[u] = "completed"
  BY <1>3 DEF KeepsCompleted
<1>7. StoreOf(p)'
  BY <1>2, <1>5, <1>6 DEF StoreOf
<1> QED BY <1>1, <1>4, <1>7 DEF Follows, StoreOf

\* While a run is neither cancelled nor yielding, its writes are taken.
LEMMA PersistTaken ==
  ASSUME TypeOK, Ownership, Slots, NoneYielded, NEW p \in Procs, Active(p), NEW s \in ExecutionState,
         Persist(p, s)
  PROVE  \/ store'.s = s
         \/ store' = store /\ (aborted[p] \/ pc[p] = "yield")
<1>1. SlotsOf(p)
  BY DEF Slots
<1>2. CASE ended[p] \/ aborted[p] \/ Yielding(p)
  <2>1. store' = store
    BY <1>2 DEF Persist
  <2> QED BY <1>1, <1>2, <2>1, ActiveOrParted DEF SlotsOf, Yielding
<1>3. CASE ~(ended[p] \/ aborted[p] \/ Yielding(p))
  <2>1. Write(p, s) /\ Taken(p)
    BY <1>3, AloneTaken DEF Persist
  <2> QED BY <2>1, WriteEffect
<1> QED BY <1>2, <1>3

\* The same for a step that persists the state it leaves.
LEMMA FollowPersist ==
  ASSUME TypeOK, Ownership, Slots, Slots', NoneYielded, Follows, NEW p \in Procs, Active(p), out' = out,
         \A q \in Procs \ {p} : pc'[q] = pc[q], NEW r \in ExecutionState,
         st' = [st EXCEPT ![p] = r], Persist(p, r),
         NEW t \in Tasks, Decides(st[p], r, {t}),
         r.task[t] = "completed" => st[p].task[t] = "completed" /\ r.vv[t] = st[p].vv[t],
         pc'[p] = pc[p] \/ pc[p] # "yield",
         \A u \in Tasks : Unapplied(p, u)' => Unapplied(p, u)
  PROVE  Follows'
<1>1. st'[p] = r
  BY DEF TypeOK
<1>2. \A u \in Tasks : st'[p].task[u] = "completed" =>
        st[p].task[u] = "completed" /\ st'[p].vv[u] = st[p].vv[u]
  BY <1>1 DEF Decides
<1>2a. aborted' = aborted
  BY AlonePersist
<1>3. CASE store'.s = r
  BY <1>1, <1>2, <1>3, FollowStep
<1>4. CASE store' = store /\ (aborted[p] \/ pc[p] = "yield")
  BY <1>2, <1>2a, <1>4, FollowStep
<1> QED BY <1>3, <1>4, PersistTaken

LEMMA LoopTaskFollows ==
  ASSUME TypeOK, Ownership, Slots, Slots', NoneYielded, Follows, NEW p \in Procs, NEW t \in Tasks,
         \/ LoopWaiting(p, t) \/ LoopStart(p, t) \/ LoopHit(p, t) \/ LoopDetect(p, t)
  PROVE  Follows'
<1>1. /\ Active(p) /\ t \in cur[p] /\ pc[p] \in {"wait", "start", "hit", "applied"}
      /\ st[p] \in ExecutionState
  BY DEF LoopWaiting, LoopStart, LoopHit, LoopDetect, Active, Loop, TypeOK
<1>2. phase' = phase \/ FreeSlot(p, t)
  BY DEF LoopWaiting, LoopStart, LoopHit, LoopDetect, slots
<1>3. \A u \in Tasks : phase'[p][u] \in {phase[p][u], "none"}
  BY <1>2, FreeSlotAt
<1>4. ASSUME NEW l \in {"launch", "applied"}, pc' = [pc EXCEPT ![p] = l],
             \/ cur' = [cur EXCEPT ![p] = {}]
             \/ cur' = [cur EXCEPT ![p] = {t}] /\ pc[p] = "start"
             \/ cur' = cur /\ l = "applied"
      PROVE  /\ \A q \in Procs \ {p} : pc'[q] = pc[q]
             /\ pc'[p] = l
             /\ \A u \in Tasks : Unapplied(p, u)' => Unapplied(p, u)
  <2>1. pc'[p] = l /\ \A q \in Procs \ {p} : pc'[q] = pc[q]
    BY <1>4 DEF TypeOK
  <2>2. ASSUME NEW u \in Tasks, u \in cur'[p], pc'[p] \in Preparing \union {"launch"}
        PROVE  u = t /\ pc[p] \in Preparing
    BY <1>4, <2>1, <2>2 DEF Preparing, TypeOK
  <2>3. \A u \in Tasks : Unapplied(p, u)' => Unapplied(p, u)
    BY <1>1, <1>3, <2>2 DEF Unapplied
  <2> QED BY <2>1, <2>3
<1>5. CASE LoopWaiting(p, t)
  <2>1. /\ st' = [st EXCEPT ![p] = TasksWaiting(st[p], t)] /\ Persist(p, TasksWaiting(st[p], t))
        /\ pc' = [pc EXCEPT ![p] = "launch"] /\ cur' = [cur EXCEPT ![p] = {}] /\ out' = out
    BY <1>5 DEF LoopWaiting, NextLaunch, TypeOK
  <2>2. TasksWaiting(st[p], t) \in ExecutionState /\ Decides(st[p], TasksWaiting(st[p], t), {t})
    BY <1>1, OneTaskTypes, TasksWaitingDecides
  <2>3. TasksWaiting(st[p], t).task[t] = "waiting"
    BY <1>1, TasksWaitingDecides
  <2> QED BY <1>1, <1>4, <2>1, <2>2, <2>3, FollowPersist
<1>6. CASE LoopStart(p, t)
  <2>1. /\ st' = [st EXCEPT ![p] = TaskStarted(st[p], t)] /\ Persist(p, TaskStarted(st[p], t))
        /\ pc' = [pc EXCEPT ![p] = "launch"] /\ cur' = [cur EXCEPT ![p] = {t}] /\ out' = out
        /\ pc[p] = "start"
    BY <1>6 DEF LoopStart, NextLaunch, TypeOK
  <2>2. TaskStarted(st[p], t) \in ExecutionState /\ Decides(st[p], TaskStarted(st[p], t), {t})
    BY <1>1, OneTaskTypes, SetOneDecides DEF TaskStarted
  <2>3. TaskStarted(st[p], t).task[t] = "in_progress"
    BY <1>1, SetOneDecides DEF TaskStarted
  <2> QED BY <1>1, <1>4, <2>1, <2>2, <2>3, FollowPersist
<1>7. CASE LoopDetect(p, t)
  <2>1. /\ Detect(p) /\ out' = out
        /\ pc' = [pc EXCEPT ![p] = "launch"] /\ cur' = [cur EXCEPT ![p] = {}]
    BY <1>7 DEF LoopDetect, NextLaunch
  <2>2. PICK r \in ExecutionState :
          st' = [st EXCEPT ![p] = r] /\ Persist(p, r) /\ Decides(st[p], r, {})
    BY <2>1, DetectDecides
  <2>3. /\ Decides(st[p], r, {t})
        /\ r.task[t] = "completed" => st[p].task[t] = "completed" /\ r.vv[t] = st[p].vv[t]
    BY <2>2 DEF Decides
  <2> QED BY <1>1, <1>4, <2>1, <2>2, <2>3, FollowPersist
<1>8. CASE LoopHit(p, t)
  <2>1. store' = store /\ aborted' = aborted /\ pc[p] = "hit" /\ Unapplied(p, t)
    BY <1>8 DEF LoopHit, Unapplied, Preparing, flags
  <2>2. CASE BackToPending(p, t) /\ NextLaunch(p, TRUE, {})
    <3>1. pc' = [pc EXCEPT ![p] = "launch"] /\ cur' = [cur EXCEPT ![p] = {}]
      BY <2>2 DEF NextLaunch
    <3>2. /\ Decides(st[p], st'[p], {t}) /\ KeepsCompleted(st[p], st'[p], {t})
          /\ st'[p].task[t] = "pending" /\ out' = out
      BY <2>2, BackDecides
    <3>3. store.s.task[t] # "completed"
      BY <1>1, <2>1 DEF Follows, StoreOf
    <3>4. \A u \in Tasks : st'[p].task[u] = "completed" =>
            st[p].task[u] = "completed" /\ st'[p].vv[u] = st[p].vv[u]
      BY <3>2 DEF Decides
    <3>5. \A u \in Tasks : store.s.task[u] = "completed" /\ st[p].task[u] = "completed"
                             => st'[p].task[u] = "completed"
      BY <3>2, <3>3 DEF KeepsCompleted
    <3> QED BY <1>1, <1>4, <2>1, <3>1, <3>2, <3>4, <3>5, FollowStep
  <2>3. CASE /\ ~ResultStale(st[p], t, given[p][t])
             /\ Apply(p, t, TRUE)
             /\ pc' = [pc EXCEPT ![p] = "applied"] /\ cur' = cur
    <3>1. given[p][t] = MergedVV(st[p], t)
      BY <2>3 DEF ResultStale
    <3> QED BY <1>1, <1>4, <2>1, <2>3, <3>1, FollowApply
  <2> QED BY <1>8, <2>2, <2>3 DEF LoopHit, pass
<1> QED BY <1>5, <1>6, <1>7, <1>8

LEMMA HandlerFollows ==
  ASSUME TypeOK, Ownership, Slots, Slots', NoneYielded, Follows, NEW p \in Procs, NEW t \in Tasks,
         Handler(p, t) \/ HandlerThrows(p, t)
  PROVE  Follows'
<1> USE DEF Handler
<1>1. phase[p][t] # "none"
  BY DEF RunnerFinish, HandlerApply, HandlerDetect, HandlerStopped, HandlerFailed,
         HandlerFailTask, HandlerThrows
<1>2. Active(p) /\ st[p] \in ExecutionState
  BY <1>1 DEF NoneYielded, Ownership, TypeOK
<1>3. UNCHANGED <<pc, cur>>
  BY DEF RunnerFinish, HandlerApply, HandlerDetect, HandlerStopped, HandlerFailed,
         HandlerFailTask, HandlerThrows, pass
<1>4. ASSUME NEW x, \/ FreeSlot(p, t) /\ x = "none"
                    \/ phase' = [phase EXCEPT ![p][t] = x],
             x \in {"running", "executed", "hit"} => phase[p][t] \in {"running", "executed", "hit"}
      PROVE  \A u \in Tasks : Unapplied(p, u)' => Unapplied(p, u)
  <2>1. \A u \in Tasks : phase'[p][u] = IF u = t THEN x ELSE phase[p][u]
    BY <1>4, FreeSlotAt DEF TypeOK
  <2> QED BY <1>3, <1>4, <2>1 DEF Unapplied
<1>5. CASE RunnerFinish(p, t) \/ HandlerThrows(p, t)
  <2>1. UNCHANGED <<st, store, out, aborted>>
    BY <1>5 DEF RunnerFinish, HandlerThrows, durable, flags
  <2>2. PICK x \in Phase :
          /\ phase' = [phase EXCEPT ![p][t] = x]
          /\ x \in {"running", "executed", "hit"} => phase[p][t] \in {"running", "executed", "hit"}
    BY <1>5 DEF RunnerFinish, HandlerThrows, Phase
  <2>3. \A u \in Tasks : Unapplied(p, u)' => Unapplied(p, u)
    BY <1>4, <2>2
  <2> QED BY <1>2, <1>3, <2>1, <2>3, FollowStep
<1>6. CASE HandlerApply(p, t)
  <2>1. /\ store' = store /\ aborted' = aborted /\ Unapplied(p, t)
        /\ phase' = [phase EXCEPT ![p][t] = "applied"]
    BY <1>6 DEF HandlerApply, Unapplied, flags
  <2>2. \A u \in Tasks : Unapplied(p, u)' => Unapplied(p, u)
    BY <1>4, <2>1
  <2>3. CASE BackToPending(p, t)
    <3>1. /\ Decides(st[p], st'[p], {t}) /\ KeepsCompleted(st[p], st'[p], {t})
          /\ st'[p].task[t] = "pending" /\ out' = out
      BY <2>3, BackDecides
    <3>2. store.s.task[t] # "completed"
      BY <1>2, <2>1 DEF Follows, StoreOf
    <3>3. \A u \in Tasks : st'[p].task[u] = "completed" =>
            st[p].task[u] = "completed" /\ st'[p].vv[u] = st[p].vv[u]
      BY <3>1 DEF Decides
    <3>4. \A u \in Tasks : store.s.task[u] = "completed" /\ st[p].task[u] = "completed"
                             => st'[p].task[u] = "completed"
      BY <3>1, <3>2 DEF KeepsCompleted
    <3> QED BY <1>2, <1>3, <2>1, <2>2, <3>1, <3>3, <3>4, FollowStep
  <2>4. CASE ~ResultStale(st[p], t, given[p][t]) /\ Apply(p, t, phase[p][t] = "hit")
    <3>1. given[p][t] = MergedVV(st[p], t)
      BY <2>4 DEF ResultStale
    <3> QED BY <1>2, <1>3, <2>1, <2>2, <2>4, <3>1, FollowApply
  <2> QED BY <1>6, <2>3, <2>4 DEF HandlerApply
<1>7. ASSUME NEW r \in ExecutionState, st' = [st EXCEPT ![p] = r], Persist(p, r),
             Decides(st[p], r, {t}), out' = out, FreeSlot(p, t),
             r.task[t] = "completed" => st[p].task[t] = "completed" /\ r.vv[t] = st[p].vv[t]
      PROVE  Follows'
  <2>1. \A u \in Tasks : Unapplied(p, u)' => Unapplied(p, u)
    BY <1>4, <1>7
  <2> QED BY <1>2, <1>3, <1>7, <2>1, FollowPersist
<1>8. CASE HandlerDetect(p, t)
  <2>1. Detect(p) /\ FreeSlot(p, t) /\ out' = out
    BY <1>8 DEF HandlerDetect
  <2>2. PICK r \in ExecutionState :
          st' = [st EXCEPT ![p] = r] /\ Persist(p, r) /\ Decides(st[p], r, {})
    BY <2>1, DetectDecides
  <2>3. /\ Decides(st[p], r, {t})
        /\ r.task[t] = "completed" => st[p].task[t] = "completed" /\ r.vv[t] = st[p].vv[t]
    BY <2>2 DEF Decides
  <2> QED BY <1>7, <2>1, <2>2, <2>3
<1>9. CASE HandlerStopped(p, t)
  <2>1. /\ st' = [st EXCEPT ![p] = SetTasks(st[p], {t}, "pending")]
        /\ Persist(p, SetTasks(st[p], {t}, "pending")) /\ out' = out /\ FreeSlot(p, t)
    BY <1>9 DEF HandlerStopped, BackToPending, TypeOK
  <2>2. /\ SetTasks(st[p], {t}, "pending") \in ExecutionState
        /\ Decides(st[p], SetTasks(st[p], {t}, "pending"), {t})
        /\ SetTasks(st[p], {t}, "pending").task[t] = "pending"
    BY <1>2, OneTaskTypes, SetOneDecides
  <2> QED BY <1>7, <2>1, <2>2
<1>10. CASE HandlerFailed(p, t)
  <2> DEFINE r == TasksSkipped(TaskFailed(st[p], t), ToSkip(TaskFailed(st[p], t), t))
  <2>1. st' = [st EXCEPT ![p] = r] /\ Persist(p, r) /\ out' = out /\ FreeSlot(p, t)
    BY <1>10 DEF HandlerFailed
  <2>2. r \in ExecutionState /\ Decides(st[p], r, {t}) /\ r.task[t] # "completed"
    BY <1>2, FailureDecides
  <2> HIDE DEF r
  <2> QED BY <1>7, <2>1, <2>2
<1>11. CASE HandlerFailTask(p, t)
  <2> DEFINE r == TaskFailed(st[p], t)
  <2>1. st' = [st EXCEPT ![p] = r] /\ Persist(p, r) /\ out' = out /\ FreeSlot(p, t)
    BY <1>11 DEF HandlerFailTask, TypeOK
  <2>2. r \in ExecutionState /\ Decides(st[p], r, {t}) /\ r.task[t] # "completed"
    BY <1>2, FailureDecides
  <2> HIDE DEF r
  <2> QED BY <1>7, <2>1, <2>2
<1> QED BY <1>5, <1>6, <1>8, <1>9, <1>10, <1>11

LEMMA PassFollows ==
  ASSUME TypeOK, Ownership, Slots, Slots', Follows, NEW p \in Procs, pc[p] \in {"top", "launch"},
         NEW ready \in SUBSET Tasks, NEW sync,
         PrepareNext(p, ready, sync) \/ EndPass(p, ready, sync)
  PROVE  Follows'
<1>1. /\ Active(p) /\ st[p] \in ExecutionState /\ SlotsOf(p) /\ StoreOf(p)
      /\ UNCHANGED <<store, out, aborted>>
  BY DEF PrepareNext, EndPass, Active, Loop, Slots, Follows, TypeOK, durable, flags
<1>2. PICK ts : st' = [st EXCEPT ![p] = Deferred(p, ts)]
  BY DEF PrepareNext, EndPass
<1>3. st'[p] = Deferred(p, ts)
  BY <1>2 DEF TypeOK
<1>4. Decides(st[p], st'[p], {}) /\ KeepsCompleted(st[p], st'[p], {})
  BY <1>1, <1>3, DeferredDecides
<1>5. \A u \in Tasks : phase'[p][u] = IF u \in cur[p] THEN "running" ELSE phase[p][u]
  BY DEF PrepareNext, EndPass, LaunchCur, TypeOK
<1>6. pc[p] = "top" => cur[p] = {}
  BY <1>1 DEF SlotsOf, InHand, Preparing
<1>7. \A q \in Procs \ {p} : pc'[q] = pc[q]
  <2>1. \E l : pc' = [pc EXCEPT ![p] = l]
    BY DEF PrepareNext, EndPass
  <2> QED BY <2>1 DEF TypeOK
<1>8. ASSUME NEW u \in Tasks, Unapplied(p, u)'
      PROVE  Unapplied(p, u) \/ store.s.task[u] # "completed"
  <2>1. CASE u \in cur[p] \/ phase[p][u] \in {"running", "executed", "hit"}
    BY <1>6, <2>1 DEF Unapplied
  <2>2. CASE u \notin cur[p] /\ phase[p][u] \notin {"running", "executed", "hit"}
    <3>1. u \in cur'[p]
      BY <1>5, <1>8, <2>2 DEF Unapplied
    <3>2. PrepareNext(p, ready, sync)
      BY <3>1 DEF EndPass, TypeOK
    <3>3. PICK t \in ready : Launchable(p, t) /\ cur' = [cur EXCEPT ![p] = {t}]
      BY <3>2 DEF PrepareNext
    <3>4. u = t /\ st[p].task[u] # "completed" /\ ~aborted[p]
      BY <3>1, <3>2, <3>3 DEF PrepareNext, MayLaunch, Launchable, Skipped, TypeOK
    <3> QED BY <1>1, <3>4 DEF StoreOf
  <2> QED BY <2>1, <2>2
<1>9. \A u \in Tasks : st[p].task[u] = "completed" => st'[p].task[u] = "completed"
  BY <1>4 DEF KeepsCompleted
<1>9a. \A u \in Tasks : st'[p].task[u] = "completed" =>
         st[p].task[u] = "completed" /\ st'[p].vv[u] = st[p].vv[u]
  BY <1>4 DEF Decides
<1>10. pc[p] # "yield"
  OBVIOUS
<1> QED BY <1>1, <1>7, <1>8, <1>9, <1>9a, <1>10, FollowStep

LEMMA LoopFollows ==
  ASSUME TypeOK, Ownership, Slots, Slots', NoneYielded, Follows, NEW p \in Procs,
         \/ Race(p) \/ DrainStuck(p) \/ LoopThrows(p) \/ RequestCancel(p)
         \/ pc[p] = "top" /\ pc' = [pc EXCEPT ![p] = "drain"]
              /\ UNCHANGED <<durable, st, pass, slots, flags>>
         \/ \E t \in Tasks : \E d \in Datasets : ReadInput(p, t, d)
  PROVE  Follows'
<1>1. Active(p) /\ UNCHANGED <<st, store, out>> /\ (aborted[p] => aborted'[p])
  BY DEF Race, DrainStuck, LoopThrows, RequestCancel, ReadInput, Active, Loop, NoneYielded, Parted,
         durable, flags, TypeOK
<1>2. \/ \E l \in {"top", "throwing", "drain"} : pc' = [pc EXCEPT ![p] = l] /\ pc[p] # "yield"
      \/ pc' = pc /\ cur' = cur
      \/ pc[p] = "read" /\ cur' = cur /\ \E l \in Preparing : pc' = [pc EXCEPT ![p] = l]
  BY ReadInputTarget, ZenonT(60)
     DEF Race, DrainStuck, LoopThrows, RequestCancel, ReadInput, Preparing, pass
<1>3. \A q \in Procs \ {p} : pc'[q] = pc[q]
  BY <1>2 DEF TypeOK
<1>4. pc'[p] # "yield" => pc[p] # "yield"
  BY <1>2 DEF TypeOK
<1>5. \A u \in Tasks : phase'[p][u] \in {phase[p][u], "none"}
  <2>1. phase' = phase \/ \E t \in Tasks : FreeSlot(p, t)
    BY DEF Race, DrainStuck, LoopThrows, RequestCancel, ReadInput, slots, TypeOK
  <2> QED BY <2>1, FreeSlotAt
<1>6. ASSUME NEW u \in Tasks, u \in cur'[p], pc'[p] \in Preparing \union {"launch"}
      PROVE  u \in cur[p] /\ pc[p] \in Preparing \union {"launch"}
  BY <1>2, <1>6 DEF Preparing, TypeOK
<1>7. \A u \in Tasks : Unapplied(p, u)' => Unapplied(p, u)
  BY <1>5, <1>6 DEF Unapplied
<1> QED BY <1>1, <1>3, <1>4, <1>7, FollowStep

LEMMA EndFollows ==
  ASSUME TypeOK, Ownership, Slots, Slots', Follows, NEW p \in Procs, Active(p), Ends(p)
  PROVE  Follows'
<1>1. SlotsOf(p) /\ st[p] \in ExecutionState /\ out' = out /\ store.s \in ExecutionState
  <2>1. out' = out
    BY DEF Ends, YieldCheckpoint, LetGo, Forget, EndCancelled, DrainCancelled, DrainFinalize,
       EndFailed, Crash, durable
  <2> QED BY <2>1 DEF Slots, TypeOK
<1>2. \A q \in Procs \ {p} : pc'[q] = pc[q]
  BY EndsAt
<1>3. /\ Yield(st[p]) \in ExecutionState /\ Finalize(st[p]) \in ExecutionState
      /\ Cancel(Yield(st[p])) \in ExecutionState
      /\ [store.s EXCEPT !.status = "failed"] \in ExecutionState
  BY <1>1, EndTypes
<1>4. ASSUME NEW r \in ExecutionState, st' = [st EXCEPT ![p] = r], Write(p, r),
             \A u \in Tasks : r.task[u] = "completed" => st[p].task[u] = "completed",
             r.vv = st[p].vv, ~Taken(p) => ~Active(p)' \/ aborted'[p],
             \A u \in Tasks : Unapplied(p, u)' => Unapplied(p, u)
      PROVE  Follows'
  <2>1. st'[p] = r
    BY <1>4 DEF TypeOK
  <2>2. CASE Taken(p)
    <3>1. store'.s = r
      BY <1>4, <2>2, WriteEffect
    <3> QED BY <1>1, <1>2, <1>4, <2>1, <3>1, FollowStep
  <2>3. CASE ~Taken(p)
    <3>1. store' = store
      BY <1>4, <2>3, WriteEffect
    <3> QED BY <1>1, <1>2, <1>4, <2>1, <2>3, <3>1, FollowStep
  <2> QED BY <2>2, <2>3
<1>5. \A u \in Tasks : Yield(st[p]).task[u] = "completed" => st[p].task[u] = "completed"
  BY <1>1, YieldAt
<1>5a. \A u \in Tasks : Cancel(Yield(st[p])).task[u] = "completed" => st[p].task[u] = "completed"
  BY <1>3, <1>5, EndAt
<1>6. /\ Yield(st[p]).vv = st[p].vv /\ Cancel(Yield(st[p])).vv = st[p].vv
      /\ Finalize(st[p]).vv = st[p].vv /\ Finalize(st[p]).task = st[p].task
  BY <1>1, <1>3, YieldAt, EndAt
<1>7. ASSUME ~Active(p)', ~Taken(p) \/ UNCHANGED store \/ EndFailed(p),
             \A u \in Tasks : st'[p].task[u] = "completed" =>
               st[p].task[u] = "completed" /\ st'[p].vv[u] = st[p].vv[u],
             store' = store \/ \E s \in ExecutionState :
                                 Write(p, s) /\ s.task = store.s.task /\ s.vv = store.s.vv
      PROVE  Follows'
  <2>1. store'.s.task = store.s.task /\ store'.s.vv = store.s.vv
    BY <1>7, WriteEffect
  <2> QED BY <1>1, <1>2, <1>7, <2>1, FollowStep
<1>8. CASE YieldCheckpoint(p)
  <2>1. /\ st' = [st EXCEPT ![p] = Yield(st[p])] /\ Write(p, Yield(st[p]))
        /\ phase' = phase /\ cur' = cur /\ pc[p] = "yield"
    BY <1>8 DEF YieldCheckpoint, pass, slots, TypeOK
  <2>2. ~Taken(p) => aborted'[p]
    BY <1>8 DEF YieldCheckpoint, Told, Stops, TypeOK
  <2>3. pc'[p] \in {"drain", "leaving"}
    BY <1>8 DEF YieldCheckpoint, TypeOK
  <2>4. \A u \in Tasks : Unapplied(p, u)' => Unapplied(p, u)
    BY <2>1, <2>3 DEF Unapplied, Preparing
  <2> QED BY <1>3, <1>4, <1>5, <1>6, <2>1, <2>2, <2>4
<1>9. CASE EndCancelled(p)
  <2>1. /\ st' = [st EXCEPT ![p] = Cancel(Yield(st[p]))] /\ Write(p, Cancel(Yield(st[p])))
        /\ UNCHANGED <<phase, cur, pc, aborted>> /\ aborted[p]
    BY <1>9 DEF EndCancelled, CancelDue, pass, slots, TypeOK
  <2>2. \A u \in Tasks : Unapplied(p, u)' => Unapplied(p, u)
    BY <2>1 DEF Unapplied
  <2> QED BY <1>3, <1>4, <1>5a, <1>6, <2>1, <2>2
<1>10. CASE DrainFinalize(p)
  <2>1. /\ st' = [st EXCEPT ![p] = Finalize(st[p])] /\ Write(p, Finalize(st[p]))
        /\ UNCHANGED <<phase, cur>>
    BY <1>10 DEF DrainFinalize, pass, slots, TypeOK
  <2>2. pc'[p] \in {"finished", "cancelled"} /\ ~Active(p)'
    BY <1>10 DEF DrainFinalize, Leave, Active, Loop, TypeOK
  <2>3. \A u \in Tasks : Unapplied(p, u)' => Unapplied(p, u)
    BY <2>1, <2>2 DEF Unapplied, Preparing
  <2> QED BY <1>3, <1>4, <1>6, <2>1, <2>2, <2>3
<1>11. CASE DrainCancelled(p)
  <2>1. ~Active(p)' /\ UNCHANGED <<st, store>>
    BY <1>11 DEF DrainCancelled, Leave, Active, Loop, TypeOK
  <2> QED BY <1>7, <2>1
<1>12. CASE EndFailed(p)
  <2>1. ~Active(p)' /\ st' = st /\ Write(p, [store.s EXCEPT !.status = "failed"])
    BY <1>12 DEF EndFailed, Leave, Active, Loop, TypeOK
  <2>2. /\ [store.s EXCEPT !.status = "failed"].task = store.s.task
        /\ [store.s EXCEPT !.status = "failed"].vv = store.s.vv
    BY <1>1 DEF ExecutionState
  <2> QED BY <1>3, <1>7, <1>12, <2>1, <2>2
<1>13. CASE Crash(p)
  <2>1. ~Active(p)' /\ store' = store /\ st'[p] = NoState
    BY <1>13 DEF Crash, Active, Loop, TypeOK
  <2>2. \A t \in Tasks : NoState.task[t] # "completed"
    <3>1. [i \in Inputs |-> Unassigned] \in [Inputs -> Values \union {Unassigned}]
      OBVIOUS
    <3> QED BY <3>1, InitializeAt DEF NoState
  <2> QED BY <1>7, <2>1, <2>2
<1>14. ~LetGo(p) /\ ~Forget(p)
  BY Locations DEF LetGo, Forget, Active
<1> QED BY <1>8, <1>9, <1>10, <1>11, <1>12, <1>13, <1>14 DEF Ends

LEMMA BeginFollows ==
  ASSUME TypeOK, Ownership, Follows, NEW p \in Procs, Start(p) \/ Resume(p)
  PROVE  Follows'
<1>1. ASSUME NEW s, NEW id, Begin(p, s, id),
             \A t \in Tasks : s.task[t] = "completed" => out[t].vv = s.vv[t]
      PROVE  Follows'
  <2>1. /\ pc[p] = "idle" /\ lock = NoProc /\ pc' = [pc EXCEPT ![p] = "top"]
        /\ st' = [st EXCEPT ![p] = s] /\ store' = [id |-> id, s |-> s] /\ out' = out
        /\ phase' = phase
    BY <1>1 DEF Begin, slots
  <2>2. \A q \in Procs : ~Active(q)
    BY <2>1, RunAssumption DEF Ownership, ActiveOwnsStore, RunAssumption
  <2>3. \A q \in Procs \ {p} : ~Active(q)'
    BY <2>1, <2>2 DEF Active, TypeOK
  <2>4. pc'[p] = "top" /\ st'[p] = s /\ store'.s = s
    BY <2>1 DEF TypeOK
  <2>5. \A t \in Tasks : phase[p][t] = "none"
    BY <2>1, <2>2 DEF Ownership, Parted
  <2>6. \A t \in Tasks : ~Unapplied(p, t)'
    BY <2>1, <2>4, <2>5 DEF Unapplied, Preparing
  <2> QED BY <1>1, <2>1, <2>3, <2>4, <2>6 DEF Follows, Behind, StoreOf
<1>2. CASE Start(p)
  <2>1. \A t \in Tasks : Initialize(root).task[t] # "completed"
    BY InitializeAt DEF TypeOK
  <2> QED BY <1>1, <1>2, <2>1 DEF Start
<1>3. CASE Resume(p)
  <2>1. store.s \in ExecutionState
    BY DEF TypeOK
  <2>2. \A t \in Tasks : Yield(store.s).task[t] = "completed" => store.s.task[t] = "completed"
    BY <2>1, YieldAt
  <2>3. Yield(store.s).vv = store.s.vv
    BY <2>1, YieldAt
  <2> QED BY <1>1, <1>3, <2>2, <2>3 DEF Resume, Follows, Behind
<1> QED BY <1>2, <1>3

LEMMA NextNoneYielded ==
  ASSUME TypeOK, Ownership, [Next]_vars, NoneYielded'
  PROVE  NoneYielded
<1> SUFFICES ASSUME NEW p \in Procs, Parted(p) PROVE Parted(p)'
  BY DEF NoneYielded
<1>1. CASE UNCHANGED <<store, pc, st, ended, runId>>
  BY <1>1 DEF Parted
<1>2. ASSUME NEW q \in Procs, Start(q) \/ Resume(q) PROVE Parted(p)'
  BY <1>2 DEF Start, Resume, Begin, Parted, TypeOK
<1>3. ASSUME NEW q \in Procs, Quiet(q) PROVE Parted(p)'
  BY <1>3, QuietAt
<1>4. ASSUME NEW q \in Procs, Ends(q) PROVE Parted(p)'
  <2>1. CASE q = p
    BY <1>4, <2>1, EndsAt
  <2>2. CASE q # p
    BY <1>4, <2>2, EndsAt DEF Parted
  <2> QED BY <2>1, <2>2
<1> QED BY <1>1, <1>2, <1>3, <1>4, StepCases

LEMMA NextFollows ==
  ASSUME TypeOK, Ownership, Slots, Slots', NoneYielded => Follows, [Next]_vars
  PROVE  (NoneYielded => Follows)'
<1> SUFFICES ASSUME NoneYielded' PROVE Follows'
  OBVIOUS
<1>1. NoneYielded /\ Follows
  BY NextNoneYielded
<1>2. CASE UNCHANGED <<out, store, pc, st, pass, slots, flags>>
  BY <1>1, <1>2 DEF Follows, Behind, StoreOf, Unapplied, Active, pass, slots, flags
<1>3. ASSUME NEW i \in Inputs, NEW v \in Values, SetInput(i, v) PROVE Follows'
  BY <1>2, <1>3 DEF SetInput
<1>4. CASE UNCHANGED vars
  BY <1>2, <1>4 DEF vars, durable
<1>5. ASSUME NEW p \in Procs, Ends(p) PROVE Follows'
  <2>1. Active(p)
    BY <1>1, <1>5, EndsFrom DEF NoneYielded
  <2> QED BY <1>1, <1>5, <2>1, EndFollows
<1>6. ASSUME NEW p \in Procs, Top(p) \/ Launch(p) PROVE Follows'
  <2>1. GetReady(st[p]) \in SUBSET Tasks /\ queue[p] \in SUBSET Tasks
    BY DEF GetReady, GetReadyTasks, TypeOK
  <2> QED BY <1>1, <1>6, <2>1, PassFollows, LoopFollows DEF Top, Launch
<1>7. ASSUME NEW p \in Procs, LoopStep(p) PROVE Follows'
  BY <1>1, <1>5, <1>6, <1>7, LoopFollows, LoopTaskFollows DEF LoopStep, Ends
<1>8. ASSUME NEW p \in Procs, EndCancelled(p) \/ Crash(p) PROVE Follows'
  BY <1>5, <1>8 DEF Ends
<1> QED BY <1>1, <1>3, <1>4, <1>7, <1>8, BeginFollows, LoopFollows, HandlerFollows DEF Next

LEMMA AlwaysFollows == Spec => [](NoneYielded => Follows)
<1>1. Init => (NoneYielded => Follows)
  <2> SUFFICES ASSUME Init PROVE Follows
    OBVIOUS
  <2>1. \A p \in Procs : ~Active(p)
    BY Locations DEF Init, Active
  <2>2. \A t \in Tasks : store.s.task[t] # "completed"
    <3>1. [i \in Inputs |-> Unassigned] \in [Inputs -> Values \union {Unassigned}]
      OBVIOUS
    <3> QED BY <3>1, InitializeAt DEF Init, NoState
  <2> QED BY <2>1, <2>2 DEF Follows, Behind, StoreOf
<1>2. TypeOK /\ Ownership /\ Slots /\ Slots' /\ (NoneYielded => Follows) /\ [Next]_vars
        => (NoneYielded => Follows)'
  BY NextFollows
<1> QED BY <1>1, <1>2, AlwaysSlots, PTL DEF Spec

\* While no process has yielded the workspace, whose handlers would go on and
\* whose cancel may come late, a task the store holds as completed has its
\* output's ref in the workspace, with the version vector the store says: a
\* crash at any point leaves a state to resume from that claims no output that
\* was not written.
THEOREM StoreFollows == Spec => [](NoneYielded => StoreNeverAhead)
<1>1. Follows => StoreNeverAhead
  BY DEF Follows, Behind, StoreNeverAhead, TasksIn
<1> QED BY <1>1, AlwaysFollows, PTL

-----------------------------------------------------------------------------
(* The counters of a run                                                   *)

\* The tasks that stand completed by the cache, and by an execution, and the
\* counters that say how many they are.
Hits(s)       == {t \in TasksIn(s, {"completed"}) : s.hit[t]}
Executions(s) == {t \in TasksIn(s, {"completed"}) : ~s.hit[t]}
Agrees(s) == s.cached = Cardinality(Hits(s)) /\ s.executed = Cardinality(Executions(s))

LEMMA OneMore ==
  ASSUME NEW S, NEW x, IsFiniteSet(S), x \notin S
  PROVE  Cardinality(S \union {x}) = Cardinality(S) + 1
BY FS_AddElement, Zenon

LEMMA SomeLess ==
  ASSUME NEW S, NEW T, IsFiniteSet(S)
  PROVE  Cardinality(S \ T) = Cardinality(S) - Cardinality(S \cap T)
BY FS_Difference, Zenon

LEMMA FiniteCounts ==
  ASSUME NEW s
  PROVE  /\ IsFiniteSet(Hits(s)) /\ IsFiniteSet(Executions(s))
         /\ Cardinality(Hits(s)) \in Int /\ Cardinality(Executions(s)) \in Int
<1>1. Hits(s) \in SUBSET Tasks /\ Executions(s) \in SUBSET Tasks
  BY DEF Hits, Executions, TasksIn
<1> QED BY <1>1, GraphAssumption, FS_Subset, CountTasks DEF GraphAssumption

\* A step that completes nothing and takes no completion back.
LEMMA AgreesSame ==
  ASSUME NEW s, NEW r, Agrees(s), r.cached = s.cached, r.executed = s.executed, r.hit = s.hit,
         \A u \in Tasks : r.task[u] = "completed" <=> s.task[u] = "completed"
  PROVE  Agrees(r)
<1>1. Hits(r) = Hits(s) /\ Executions(r) = Executions(s)
  BY DEF Hits, Executions, TasksIn
<1> QED BY <1>1 DEF Agrees

LEMMA AgreesNone ==
  ASSUME NEW s, s.cached = 0, s.executed = 0, \A u \in Tasks : s.task[u] # "completed"
  PROVE  Agrees(s)
<1>1. Hits(s) = {} /\ Executions(s) = {}
  BY DEF Hits, Executions, TasksIn
<1> QED BY <1>1, FS_EmptySet DEF Agrees

\* A completion is counted once, as a hit or as an execution.
LEMMA AgreesCompleted ==
  ASSUME NEW s \in ExecutionState, NEW t \in Tasks, NEW hit \in BOOLEAN, NEW r,
         Agrees(s), s.task[t] # "completed", r.task[t] = "completed", r.hit[t] <=> hit,
         \A u \in Tasks \ {t} : r.hit[u] = s.hit[u],
         \A u \in Tasks \ {t} : r.task[u] = "completed" <=> s.task[u] = "completed",
         r.cached = s.cached + (IF hit THEN 1 ELSE 0),
         r.executed = s.executed + (IF hit THEN 0 ELSE 1)
  PROVE  Agrees(r)
<1>1. t \notin Hits(s) /\ t \notin Executions(s)
  BY DEF Hits, Executions, TasksIn
<1>2. CASE hit
  <2>1. Hits(r) = Hits(s) \union {t}
    BY <1>2 DEF Hits, TasksIn
  <2>2. Executions(r) = Executions(s)
    BY <1>1, <1>2 DEF Executions, TasksIn
  <2>3. Cardinality(Hits(r)) = Cardinality(Hits(s)) + 1
    <3>1. IsFiniteSet(Hits(s)) /\ t \notin Hits(s)
      BY <1>1, FiniteCounts
    <3> QED BY <2>1, <3>1, OneMore, Zenon
  <2> QED BY <1>2, <2>2, <2>3, FiniteCounts DEF Agrees
<1>3. CASE ~hit
  <2>1. Executions(r) = Executions(s) \union {t}
    BY <1>3 DEF Executions, TasksIn
  <2>2. Hits(r) = Hits(s)
    BY <1>1, <1>3 DEF Hits, TasksIn
  <2>3. Cardinality(Executions(r)) = Cardinality(Executions(s)) + 1
    <3>1. IsFiniteSet(Executions(s)) /\ t \notin Executions(s)
      BY <1>1, FiniteCounts
    <3> QED BY <2>1, <3>1, OneMore, Zenon
  <2> QED BY <1>3, <2>2, <2>3, FiniteCounts DEF Agrees
<1> QED BY <1>2, <1>3

\* An invalidation takes back what the completions it resets were counted as.
LEMMA AgreesInvalidated ==
  ASSUME NEW s \in ExecutionState, NEW affected, NEW ts, NEW W \in StopsWaiting(s, ts), Agrees(s)
  PROVE  Agrees(InvalidateTasks(s, affected, W))
<1> DEFINE done == affected \cap TasksIn(s, {"completed"})
           hits == {t \in done : s.hit[t]}
           back == done \union W \union (affected \cap TasksIn(s, {"deferred"}))
           r0   == SetTasks(s, back, "pending")
           r    == InvalidateTasks(s, affected, W)
<1>1. \A u \in Tasks : u \in back /\ s.task[u] = "completed" <=> u \in done
  BY DEF StopsWaiting, TasksIn
<1>2. r = [r0 EXCEPT !.hit = [t \in Tasks |-> s.hit[t] /\ t \notin done],
                     !.cached = s.cached - Cardinality(hits),
                     !.executed = s.executed - Cardinality(done \ hits)]
  BY DEF InvalidateTasks
<1>3. r0 \in ExecutionState
  BY SetTasksType, StatusTypes
<1>4. \A u \in Tasks : r0.task[u] = IF u \in back THEN "pending" ELSE s.task[u]
  BY SetTasksAt
<1>5. hits = Hits(s) \cap done /\ done \ hits = Executions(s) \cap done
  BY DEF Hits, Executions
<1>6. done \subseteq Tasks
  BY DEF TasksIn
<1> HIDE DEF done, hits, back, r0, r
<1>7. /\ r.task = r0.task
      /\ r.hit = [t \in Tasks |-> s.hit[t] /\ t \notin done]
      /\ r.cached = s.cached - Cardinality(hits)
      /\ r.executed = s.executed - Cardinality(done \ hits)
  BY <1>2, <1>3 DEF ExecutionState
<1>8. \A u \in Tasks : r.task[u] = "completed" <=> s.task[u] = "completed" /\ u \notin done
  BY <1>1, <1>4, <1>7
<1>9. \A u \in Tasks \ done : r.hit[u] <=> s.hit[u]
  BY <1>7
<1>10. Hits(r) = Hits(s) \ done
  BY <1>8, <1>9 DEF Hits, TasksIn
<1>11. Executions(r) = Executions(s) \ done
  BY <1>8, <1>9 DEF Executions, TasksIn
<1>12. Cardinality(Hits(s) \ done) = Cardinality(Hits(s)) - Cardinality(hits)
  <2>1. Cardinality(Hits(s) \ done) = Cardinality(Hits(s)) - Cardinality(Hits(s) \cap done)
    BY FiniteCounts, SomeLess, Zenon
  <2> QED BY <1>5, <2>1
<1>13. Cardinality(Executions(s) \ done) = Cardinality(Executions(s)) - Cardinality(done \ hits)
  <2>1. Cardinality(Executions(s) \ done) = Cardinality(Executions(s)) - Cardinality(Executions(s) \cap done)
    BY FiniteCounts, SomeLess, Zenon
  <2> QED BY <1>5, <2>1
<1>14. Agrees(r)
  BY <1>7, <1>10, <1>11, <1>12, <1>13 DEF Agrees
<1> QED BY <1>14 DEF r

LEMMA AgreesDetected ==
  ASSUME TypeOK, NEW p \in Procs, Detect(p), Agrees(st[p])
  PROVE  \E r \in ExecutionState : st' = [st EXCEPT ![p] = r] /\ Persist(p, r) /\ Agrees(r)
<1> DEFINE s1 == DetectInputChanges(st[p], root)
           affected == FindAffectedTasks(InputChanges(st[p], root))
<1>1. PICK W \in StopsWaiting(s1, affected) :
        /\ st' = [st EXCEPT ![p] = InvalidateTasks(s1, affected, W)]
        /\ Persist(p, InvalidateTasks(s1, affected, W))
  BY DEF Detect
<1>2. st[p] \in ExecutionState /\ root \in [Inputs -> Values \union {Unassigned}]
  BY DEF TypeOK
<1>3. s1 \in ExecutionState
  BY <1>2, DetectInputChangesType
<1>4. /\ s1.task = st[p].task /\ s1.hit = st[p].hit
      /\ s1.cached = st[p].cached /\ s1.executed = st[p].executed
  BY <1>2 DEF DetectInputChanges, ExecutionState
<1> HIDE DEF s1, affected
<1>5. Agrees(s1)
  BY <1>4, AgreesSame
<1> QED BY <1>1, <1>3, <1>5, AgreesInvalidated, InvalidateTasksType

\* A completion or a reset of a task that stood completed by nothing.
LEMMA AgreesApplied ==
  ASSUME TypeOK, NEW p \in Procs, NEW t \in Tasks, NEW hit \in BOOLEAN, Agrees(st[p]),
         st[p].task[t] # "completed", Apply(p, t, hit) \/ BackToPending(p, t)
  PROVE  \E r \in ExecutionState : st' = [st EXCEPT ![p] = r] /\ Agrees(r)
<1>1. st[p] \in ExecutionState
  BY DEF TypeOK
<1>2. CASE BackToPending(p, t)
  <2> DEFINE r == SetTasks(st[p], {t}, "pending")
  <2>1. st' = [st EXCEPT ![p] = r] /\ r \in ExecutionState
    BY <1>2, OneTaskTypes DEF BackToPending, TypeOK
  <2>2. Agrees(r)
    BY <1>1, SetTasksAt, AgreesSame
  <2> QED BY <2>1, <2>2
<1>3. CASE Apply(p, t, hit)
  <2>1. PICK W \in StopsWaiting(SetTasks(st[p], {t}, "completed"), DependentsOf(t)) :
          st' = [st EXCEPT ![p] = TaskCompleted(st[p], t, hit, W)]
    BY <1>3 DEF Apply, TypeOK
  <2>2. PICK r \in ExecutionState :
          r = TaskCompleted(st[p], t, hit, W) /\ st' = [st EXCEPT ![p] = r]
    BY <1>1, <2>1, TaskCompletedType
  <2>3. /\ Decides(st[p], r, {t}) /\ KeepsCompleted(st[p], r, {})
        /\ r.task[t] = "completed" /\ (r.hit[t] <=> hit)
        /\ \A u \in Tasks \ {t} : r.hit[u] = st[p].hit[u]
        /\ r.cached = st[p].cached + (IF hit THEN 1 ELSE 0)
        /\ r.executed = st[p].executed + (IF hit THEN 0 ELSE 1)
    BY <1>1, <2>1, <2>2, TaskCompletedDecides
  <2>4. \A u \in Tasks \ {t} : r.task[u] = "completed" <=> st[p].task[u] = "completed"
    BY <2>3 DEF Decides, KeepsCompleted
  <2>5. Agrees(r)
    BY <1>1, <2>3, <2>4, AgreesCompleted
  <2> QED BY <2>2, <2>5
<1> QED BY <1>2, <1>3

\* The counters agree, in memory and in the store, while no completion threw:
\* failTask fails a task that its handler had already counted.
Counted ==
  /\ Agrees(store.s)
  /\ \A p \in Procs : Agrees(st[p]) /\ \A t \in Tasks : phase[p][t] # "thrown"

CountStep(p) ==
  \E r \in ExecutionState :
    /\ st' = [st EXCEPT ![p] = r] /\ Agrees(r)
    /\ store'.s \in {store.s, r, [store.s EXCEPT !.status = "failed"]}

LEMMA CountStepKeeps ==
  ASSUME TypeOK, Counted, NEW p \in Procs, CountStep(p),
         \A q \in Procs : \A t \in Tasks : phase'[q][t] # "thrown"
  PROVE  Counted'
<1>1. PICK r \in ExecutionState :
        /\ st' = [st EXCEPT ![p] = r] /\ Agrees(r)
        /\ store'.s \in {store.s, r, [store.s EXCEPT !.status = "failed"]}
  BY DEF CountStep
<1>2. store.s \in ExecutionState
  BY DEF TypeOK
<1>3. Agrees([store.s EXCEPT !.status = "failed"])
  BY <1>2, AgreesSame DEF Counted, ExecutionState
<1>4. Agrees(store'.s)
  BY <1>1, <1>3 DEF Counted
<1>5. ASSUME NEW q \in Procs PROVE Agrees(st'[q])
  BY <1>1 DEF Counted, TypeOK
<1> QED BY <1>4, <1>5 DEF Counted

LEMMA NextNoneThrown ==
  ASSUME TypeOK, ~CanThrow, [Next]_vars, NEW q \in Procs, NEW t \in Tasks,
         \A p \in Procs : \A u \in Tasks : phase[p][u] # "thrown"
  PROVE  phase'[q][t] # "thrown"
<1>1. CASE phase' = phase
  BY <1>1
<1>2. ASSUME NEW p \in Procs, LaunchCur(p) PROVE phase'[q][t] # "thrown"
  BY <1>2 DEF LaunchCur, TypeOK
<1>3. ASSUME NEW p \in Procs, NEW u \in Tasks, FreeSlot(p, u) PROVE phase'[q][t] # "thrown"
  BY <1>3 DEF FreeSlot, TypeOK
<1>4. ASSUME NEW p \in Procs, NEW u \in Tasks, Handler(p, u) \/ HandlerThrows(p, u)
      PROVE  phase'[q][t] # "thrown"
  <2>1. Handler(p, u)
    BY <1>4 DEF HandlerThrows
  <2>2. \/ FreeSlot(p, u)
        \/ \E x \in {"executed", "hit", "failed", "stopped", "applied"} :
             phase' = [phase EXCEPT ![p][u] = x]
    BY <2>1 DEF Handler, RunnerFinish, HandlerApply, HandlerDetect, HandlerStopped, HandlerFailed,
       HandlerFailTask
  <2>3. ASSUME NEW x, x # "thrown", phase' = [phase EXCEPT ![p][u] = x]
        PROVE  phase'[q][t] # "thrown"
    BY <2>3 DEF TypeOK
  <2> QED BY <1>3, <2>2, <2>3
<1>5. ASSUME NEW p \in Procs, LoopStep(p) PROVE phase'[q][t] # "thrown"
  <2>1. phase' = phase \/ LaunchCur(p) \/ \E u \in Tasks : FreeSlot(p, u)
    BY <1>5 DEF LoopStep, Top, Launch, PrepareNext, EndPass, Race, ReadInput, LoopWaiting, LoopStart,
       LoopHit, LoopDetect, YieldCheckpoint, LetGo, Forget, DrainCancelled, DrainStuck, DrainFinalize,
       EndFailed, slots
  <2> QED BY <1>1, <1>2, <1>3, <2>1
<1>6. ASSUME NEW p \in Procs,
             Start(p) \/ Resume(p) \/ Crash(p) \/ RequestCancel(p) \/ EndCancelled(p) \/ LoopThrows(p)
      PROVE  phase'[q][t] # "thrown"
  <2>1. CASE Crash(p)
    BY <2>1 DEF Crash, TypeOK
  <2>2. CASE ~Crash(p)
    BY <1>1, <1>6, <2>2 DEF Start, Resume, Begin, RequestCancel, EndCancelled, LoopThrows, slots
  <2> QED BY <2>1, <2>2
<1>7. ASSUME NEW i \in Inputs, NEW v \in Values, SetInput(i, v) PROVE phase'[q][t] # "thrown"
  BY <1>1, <1>7 DEF SetInput, slots
<1>8. CASE UNCHANGED vars
  BY <1>1, <1>8 DEF vars, slots
<1> QED BY <1>4, <1>5, <1>6, <1>7, <1>8 DEF Next

\* The steps that leave the run's state, or only its status.
LEMMA IdleCounts ==
  ASSUME TypeOK, Counted, NEW p \in Procs, st' = st,
         store' = store \/ Write(p, [store.s EXCEPT !.status = "failed"])
  PROVE  CountStep(p)
<1>1. st' = [st EXCEPT ![p] = st[p]] /\ st[p] \in ExecutionState /\ store.s \in ExecutionState
  BY DEF TypeOK
<1>2. store'.s \in {store.s, [store.s EXCEPT !.status = "failed"]}
  BY <1>1, EndTypes, WrittenState
<1> QED BY <1>1, <1>2 DEF CountStep, Counted

LEMMA LoopCounts ==
  ASSUME TypeOK, Slots, Counted, NEW p \in Procs, LoopStep(p)
  PROVE  CountStep(p)
<1>1. st[p] \in ExecutionState /\ Agrees(st[p]) /\ SlotsOf(p)
  BY DEF TypeOK, Counted, Slots
<1>2. ASSUME NEW ready, NEW sync, PrepareNext(p, ready, sync) \/ EndPass(p, ready, sync)
      PROVE  CountStep(p)
  <2>1. PICK ts : st' = [st EXCEPT ![p] = Deferred(p, ts)]
    BY <1>2 DEF PrepareNext, EndPass
  <2>2. store' = store
    BY <1>2 DEF PrepareNext, EndPass, durable
  <2>3. Deferred(p, ts) \in ExecutionState
    BY <1>1, SetTasksType, StatusTypes DEF Deferred
  <2>4. \A u \in Tasks : Deferred(p, ts).task[u] = "completed" <=> st[p].task[u] = "completed"
    BY <1>1, DeferredDecides DEF Decides, KeepsCompleted
  <2>5. /\ Deferred(p, ts).hit = st[p].hit /\ Deferred(p, ts).cached = st[p].cached
        /\ Deferred(p, ts).executed = st[p].executed
    BY <1>1, SetTasksAt DEF Deferred
  <2>6. Agrees(Deferred(p, ts))
    BY <1>1, <2>4, <2>5, AgreesSame
  <2> QED BY <2>1, <2>2, <2>3, <2>6 DEF CountStep
<1>3. CASE Top(p) \/ Launch(p)
  BY <1>2, <1>3, IdleCounts DEF Top, Launch, durable
<1>4. CASE \/ Race(p) \/ LetGo(p) \/ Forget(p) \/ DrainCancelled(p) \/ DrainStuck(p) \/ EndFailed(p)
           \/ \E t \in Tasks : \E d \in Datasets : ReadInput(p, t, d)
  BY <1>4, IdleCounts DEF Race, LetGo, Forget, DrainCancelled, DrainStuck, EndFailed, ReadInput, durable
<1>5. ASSUME NEW t \in Tasks, pc[p] \in Preparing, t \in cur[p] PROVE st[p].task[t] # "completed"
  BY <1>1, <1>5 DEF SlotsOf, InHand
<1>6. ASSUME NEW t \in Tasks, LoopWaiting(p, t) PROVE CountStep(p)
  <2> DEFINE r == TasksWaiting(st[p], t)
  <2>1. st' = [st EXCEPT ![p] = r] /\ Persist(p, r) /\ st[p].task[t] # "completed"
    BY <1>5, <1>6 DEF LoopWaiting, Preparing, TypeOK
  <2>2. /\ Decides(st[p], r, {t}) /\ KeepsCompleted(st[p], r, {t}) /\ r.task[t] = "waiting"
        /\ r.hit = st[p].hit /\ r.cached = st[p].cached /\ r.executed = st[p].executed
    BY <1>1, TasksWaitingDecides
  <2>3. r \in ExecutionState
    BY OneTaskTypes
  <2> HIDE DEF r
  <2>4. \A u \in Tasks : r.task[u] = "completed" <=> st[p].task[u] = "completed"
    BY <2>1, <2>2 DEF Decides, KeepsCompleted
  <2>5. Agrees(r)
    BY <1>1, <2>2, <2>4, AgreesSame
  <2> QED BY <2>1, <2>3, <2>5, WrittenState DEF CountStep
<1>7. ASSUME NEW t \in Tasks, LoopStart(p, t) PROVE CountStep(p)
  <2> DEFINE r == TaskStarted(st[p], t)
  <2>1. st' = [st EXCEPT ![p] = r] /\ Persist(p, r) /\ st[p].task[t] # "completed"
    BY <1>5, <1>7 DEF LoopStart, Preparing, TypeOK
  <2>2. r \in ExecutionState
    BY OneTaskTypes
  <2>3. Agrees(r)
    BY <1>1, <2>1, SetTasksAt, AgreesSame DEF TaskStarted
  <2> HIDE DEF r
  <2> QED BY <2>1, <2>2, <2>3, WrittenState DEF CountStep
<1>8. ASSUME NEW t \in Tasks, LoopHit(p, t) PROVE CountStep(p)
  <2>1. store' = store /\ st[p].task[t] # "completed" /\ (Apply(p, t, TRUE) \/ BackToPending(p, t))
    BY <1>5, <1>8 DEF LoopHit, Preparing
  <2> QED BY <1>1, <2>1, AgreesApplied DEF CountStep
<1>9. ASSUME NEW t \in Tasks, LoopDetect(p, t) PROVE CountStep(p)
  <2>1. Detect(p)
    BY <1>9 DEF LoopDetect
  <2> QED BY <1>1, <2>1, AgreesDetected, WrittenState DEF CountStep
<1>10. CASE YieldCheckpoint(p)
  <2>1. st' = [st EXCEPT ![p] = Yield(st[p])] /\ Write(p, Yield(st[p]))
    BY <1>10 DEF YieldCheckpoint, TypeOK
  <2>2. Yield(st[p]) \in ExecutionState
    BY <1>1, EndTypes
  <2>3. Agrees(Yield(st[p]))
    BY <1>1, YieldAt, AgreesSame
  <2> QED BY <2>1, <2>2, <2>3, WrittenState DEF CountStep
<1>11. CASE DrainFinalize(p)
  <2>1. st' = [st EXCEPT ![p] = Finalize(st[p])] /\ Write(p, Finalize(st[p]))
    BY <1>11 DEF DrainFinalize, TypeOK
  <2>2. Finalize(st[p]) \in ExecutionState
    BY <1>1, EndTypes
  <2>3. Agrees(Finalize(st[p]))
    BY <1>1, EndAt, AgreesSame
  <2> QED BY <2>1, <2>2, <2>3, WrittenState DEF CountStep
<1> QED BY <1>3, <1>4, <1>6, <1>7, <1>8, <1>9, <1>10, <1>11 DEF LoopStep

LEMMA HandlerCounts ==
  ASSUME TypeOK, Slots, Counted, ~CanThrow, NEW p \in Procs, NEW t \in Tasks,
         Handler(p, t) \/ HandlerThrows(p, t)
  PROVE  CountStep(p)
<1>1. st[p] \in ExecutionState /\ Agrees(st[p]) /\ SlotsOf(p) /\ phase[p][t] # "thrown"
  BY DEF TypeOK, Counted, Slots
<1>2. phase[p][t] \in Launched => st[p].task[t] # "completed"
  BY <1>1 DEF SlotsOf, NotYetDone
<1>3. CASE RunnerFinish(p, t) \/ HandlerThrows(p, t)
  BY <1>3, IdleCounts DEF RunnerFinish, HandlerThrows
<1>4. CASE HandlerApply(p, t)
  <2>1. PICK hit \in BOOLEAN : Apply(p, t, hit) \/ BackToPending(p, t)
    BY <1>4 DEF HandlerApply
  <2>2. store' = store /\ st[p].task[t] # "completed"
    BY <1>2, <1>4 DEF HandlerApply, Launched
  <2> QED BY <1>1, <2>1, <2>2, AgreesApplied DEF CountStep
<1>5. CASE HandlerDetect(p, t)
  <2>1. Detect(p)
    BY <1>5 DEF HandlerDetect
  <2> QED BY <1>1, <2>1, AgreesDetected, WrittenState DEF CountStep
<1>6. CASE HandlerStopped(p, t)
  <2> DEFINE r == SetTasks(st[p], {t}, "pending")
  <2>1. st' = [st EXCEPT ![p] = r] /\ Persist(p, r) /\ st[p].task[t] # "completed"
    BY <1>2, <1>6 DEF HandlerStopped, BackToPending, Launched, TypeOK
  <2>2. r \in ExecutionState
    BY OneTaskTypes
  <2>3. Agrees(r)
    BY <1>1, <2>1, SetTasksAt, AgreesSame
  <2> HIDE DEF r
  <2> QED BY <2>1, <2>2, <2>3, WrittenState DEF CountStep
<1>7. CASE HandlerFailed(p, t)
  <2> DEFINE r == TasksSkipped(TaskFailed(st[p], t), ToSkip(TaskFailed(st[p], t), t))
  <2>1. st' = [st EXCEPT ![p] = r] /\ Persist(p, r) /\ st[p].task[t] # "completed"
    BY <1>2, <1>7 DEF HandlerFailed, Launched
  <2>2. /\ r \in ExecutionState /\ Decides(st[p], r, {t}) /\ KeepsCompleted(st[p], r, {t})
        /\ r.task[t] # "completed"
        /\ r.hit = st[p].hit /\ r.cached = st[p].cached /\ r.executed = st[p].executed
    BY <1>1, FailureDecides
  <2> HIDE DEF r
  <2>3. \A u \in Tasks : r.task[u] = "completed" <=> st[p].task[u] = "completed"
    BY <2>1, <2>2 DEF Decides, KeepsCompleted
  <2>4. Agrees(r)
    BY <1>1, <2>2, <2>3, AgreesSame
  <2> QED BY <2>1, <2>2, <2>4, WrittenState DEF CountStep
<1>8. ~HandlerFailTask(p, t)
  BY <1>1 DEF HandlerFailTask
<1> QED BY <1>3, <1>4, <1>5, <1>6, <1>7, <1>8 DEF Handler

\* A run that begins, is cancelled or dies.
LEMMA OtherCounts ==
  ASSUME TypeOK, Counted, NEW p \in Procs,
         \/ Start(p) \/ Resume(p) \/ Crash(p) \/ RequestCancel(p) \/ EndCancelled(p) \/ LoopThrows(p)
  PROVE  CountStep(p)
<1>1. st[p] \in ExecutionState /\ Agrees(st[p]) /\ store.s \in ExecutionState /\ Agrees(store.s)
  BY DEF TypeOK, Counted
<1>2. ASSUME NEW roots \in [Inputs -> Values \union {Unassigned}]
      PROVE  Initialize(roots) \in ExecutionState /\ Agrees(Initialize(roots))
  BY InitializeType, InitializeAt, AgreesNone
<1>3. CASE Start(p)
  <2>1. st' = [st EXCEPT ![p] = Initialize(root)] /\ store'.s = Initialize(root)
    BY <1>3 DEF Start, Begin
  <2>2. root \in [Inputs -> Values \union {Unassigned}]
    BY DEF TypeOK
  <2> QED BY <1>2, <2>1, <2>2 DEF CountStep
<1>4. CASE Resume(p)
  <2>1. st' = [st EXCEPT ![p] = Yield(store.s)] /\ store'.s = Yield(store.s)
    BY <1>4 DEF Resume, Begin
  <2>2. Yield(store.s) \in ExecutionState
    BY <1>1, EndTypes
  <2>3. Agrees(Yield(store.s))
    BY <1>1, YieldAt, AgreesSame
  <2> QED BY <2>1, <2>2, <2>3 DEF CountStep
<1>5. CASE Crash(p)
  <2>1. st' = [st EXCEPT ![p] = NoState] /\ store' = store
    BY <1>5 DEF Crash
  <2>2. [i \in Inputs |-> Unassigned] \in [Inputs -> Values \union {Unassigned}]
    OBVIOUS
  <2> QED BY <1>2, <2>1, <2>2 DEF CountStep, NoState
<1>6. CASE RequestCancel(p) \/ LoopThrows(p)
  BY <1>6, IdleCounts DEF RequestCancel, LoopThrows, durable
<1>7. CASE EndCancelled(p)
  <2> DEFINE r == Cancel(Yield(st[p]))
  <2>1. st' = [st EXCEPT ![p] = r] /\ Write(p, r)
    BY <1>7 DEF EndCancelled, TypeOK
  <2>2. r \in ExecutionState /\ Yield(st[p]) \in ExecutionState
    BY <1>1, EndTypes
  <2>3. Agrees(Yield(st[p]))
    BY <1>1, YieldAt, AgreesSame
  <2>4. Agrees(r)
    BY <2>2, <2>3, EndAt, AgreesSame
  <2> HIDE DEF r
  <2> QED BY <2>1, <2>2, <2>4, WrittenState DEF CountStep
<1> QED BY <1>3, <1>4, <1>5, <1>6, <1>7

LEMMA NextCounted ==
  ASSUME TypeOK, Slots, Counted, ~CanThrow, [Next]_vars
  PROVE  Counted'
<1>1. \A q \in Procs : \A t \in Tasks : phase'[q][t] # "thrown"
  BY NextNoneThrown DEF Counted
<1>2. CASE UNCHANGED <<store, st, phase>>
  BY <1>2 DEF Counted
<1>3. ASSUME NEW i \in Inputs, NEW v \in Values, SetInput(i, v) PROVE Counted'
  BY <1>2, <1>3 DEF SetInput, slots
<1>4. CASE UNCHANGED vars
  BY <1>2, <1>4 DEF vars, durable, slots
<1>5. ASSUME NEW p \in Procs, CountStep(p) PROVE Counted'
  BY <1>1, <1>5, CountStepKeeps
<1> QED BY <1>3, <1>4, <1>5, LoopCounts, HandlerCounts, OtherCounts DEF Next

\* Unless a completion throws after it was counted, the counters of every run
\* say how many tasks stand completed by the cache and by an execution:
\* each invalidation takes back what the completions it resets gave, once.
THEOREM CountersKept ==
  ASSUME ~CanThrow
  PROVE  Spec => []CountersAgree
<1>1. Init => Counted
  <2> SUFFICES ASSUME Init PROVE Counted
    OBVIOUS
  <2>1. [i \in Inputs |-> Unassigned] \in [Inputs -> Values \union {Unassigned}]
    OBVIOUS
  <2>2. Agrees(NoState)
    BY <2>1, InitializeAt, AgreesNone DEF NoState
  <2> QED BY <2>2 DEF Init, Counted
<1>2. TypeOK /\ Slots /\ Counted /\ [Next]_vars => Counted'
  BY NextCounted
<1>3. Counted => CountersAgree
  BY DEF Counted, Agrees, Hits, Executions, CountersAgree
<1> QED BY <1>1, <1>2, <1>3, AlwaysSlots, PTL DEF Spec

-----------------------------------------------------------------------------
(* The fixpoint: what an output is computed from                           *)

\* A task is computed from the root inputs it reads and those of the tasks it
\* reads, and from no other; a change affects the tasks computed from it.
LEMMA RootsOfReads ==
  ASSUME NEW t \in Tasks
  PROVE  /\ \A i \in Reads[t] \cap Inputs : i \in RootsOf(t)
         /\ \A d \in DependsOn(t) : RootsOf(d) \subseteq RootsOf(t)
<1>1. ASSUME NEW i \in Reads[t] \cap Inputs PROVE i \in RootsOf(t)
  BY <1>1, GraphAssumption DEF RootsOf, Cone
<1>2. ASSUME NEW d \in DependsOn(t), NEW i \in RootsOf(d) PROVE i \in RootsOf(t)
  <2>1. i \in Inputs /\ d \in Cone({i}, {}) /\ d \in Reads[t] /\ d \in Tasks
    BY <1>2 DEF RootsOf, DependsOn
  <2>2. ASSUME NEW X \in SUBSET Tasks,
               \A u \in Tasks \ {} : Reads[u] \cap ({i} \union X) # {} => u \in X
        PROVE  t \in X
    <3>1. d \in X
      BY <2>1, <2>2 DEF Cone
    <3> QED BY <2>1, <2>2, <3>1
  <2> QED BY <2>1, <2>2 DEF RootsOf, Cone
<1> QED BY <1>1, <1>2

Roots(r) == IF r \in Inputs THEN {r} ELSE RootsOf(r)

LEMMA RootsFromReads ==
  ASSUME NEW t \in Tasks
  PROVE  /\ \A i \in RootsOf(t) : \E r \in Reads[t] : i \in Roots(r)
         /\ \A r \in Reads[t] : Roots(r) \subseteq RootsOf(t)
<1>1. Reads[t] \subseteq Tasks \union Inputs /\ Tasks \cap Inputs = {}
  BY GraphAssumption DEF Datasets
<1>2. \A r \in Reads[t] : Roots(r) \subseteq RootsOf(t)
  BY <1>1, RootsOfReads DEF Roots, DependsOn
<1>3. ASSUME NEW i \in RootsOf(t), \A r \in Reads[t] : i \notin Roots(r) PROVE FALSE
  <2> DEFINE X == Cone({i}, {}) \ {t}
  <2>1. X \in SUBSET Tasks /\ i \in Inputs /\ t \in Cone({i}, {})
    BY <1>3 DEF RootsOf, Cone
  <2>2. ASSUME NEW u \in Tasks, Reads[u] \cap ({i} \union X) # {} PROVE u \in X
    <3>1. PICK r \in Reads[u] : r = i \/ r \in X
      BY <2>2
    <3>2. i \in RootsOf(u)
      <4>1. CASE r = i
        BY <2>1, <3>1, <4>1, RootsOfReads
      <4>2. CASE r \in X
        <5>1. r \in DependsOn(u) /\ i \in RootsOf(r)
          BY <2>1, <3>1, <4>2 DEF DependsOn, RootsOf
        <5> QED BY <5>1, RootsOfReads
      <4> QED BY <3>1, <4>1, <4>2
    <3>3. u # t
      <4> SUFFICES ASSUME u = t PROVE FALSE
        OBVIOUS
      <4>1. r \in Reads[t]
        BY <3>1
      <4>2. r # i
        BY <1>3, <2>1, <4>1 DEF Roots
      <4>3. r \in Tasks /\ i \in RootsOf(r) /\ r \notin Inputs
        BY <1>1, <2>1, <3>1, <4>2 DEF RootsOf
      <4> QED BY <1>3, <4>1, <4>3 DEF Roots
    <3> QED BY <3>2, <3>3 DEF RootsOf
  <2> HIDE DEF X
  <2>3. t \in X
    BY <2>1, <2>2 DEF Cone
  <2> QED BY <2>3 DEF X
<1> QED BY <1>2, <1>3

LEMMA AffectedTasks ==
  ASSUME NEW changed \in SUBSET Inputs, NEW t \in Tasks
  PROVE  t \in FindAffectedTasks(changed) <=> RootsOf(t) \cap changed # {}
<1>1. ASSUME NEW i \in RootsOf(t) \cap changed PROVE t \in Cone(changed, {})
  <2>1. t \in Cone({i}, {})
    BY <1>1 DEF RootsOf
  <2>2. ASSUME NEW X \in SUBSET Tasks,
               \A u \in Tasks \ {} : Reads[u] \cap (changed \union X) # {} => u \in X
        PROVE  t \in X
    <3>1. \A u \in Tasks \ {} : Reads[u] \cap ({i} \union X) # {} => u \in X
      BY <1>1, <2>2
    <3> QED BY <2>1, <3>1 DEF Cone
  <2> QED BY <2>2 DEF Cone
<1>2. ASSUME t \in Cone(changed, {}) PROVE RootsOf(t) \cap changed # {}
  <2> DEFINE X == {u \in Tasks : RootsOf(u) \cap changed # {}}
  <2>1. ASSUME NEW u \in Tasks, Reads[u] \cap (changed \union X) # {} PROVE u \in X
    <3>1. PICK r \in Reads[u] : r \in changed \/ r \in X
      BY <2>1
    <3>2. CASE r \in changed
      BY <3>1, <3>2, RootsOfReads
    <3>3. CASE r \in X
      BY <3>1, <3>3, RootsOfReads DEF DependsOn
    <3> QED BY <3>1, <3>2, <3>3
  <2>2. X \in SUBSET Tasks
    OBVIOUS
  <2> HIDE DEF X
  <2>3. t \in X
    BY <1>2, <2>1, <2>2 DEF Cone
  <2> QED BY <2>3 DEF X
<1> QED BY <1>1, <1>2 DEF FindAffectedTasks

LEMMA SnapshotAt ==
  ASSUME NEW s, NEW t \in Tasks, NEW x
  PROVE  x \in SnapshotOf(s, t) <=>
           \E i \in RootsOf(t) : s.snapshot[i] # Unassigned /\ x = <<i, s.snapshot[i]>>
BY DEF SnapshotOf, VersionOf

LEMMA MergedAt ==
  ASSUME NEW s, NEW t \in Tasks, NEW x
  PROVE  x \in MergedVV(s, t) <=>
           \/ \E i \in Reads[t] \cap Inputs :
                s.snapshot[i] # Unassigned /\ x = <<i, s.snapshot[i]>>
           \/ \E d \in DependsOn(t) : x \in s.vv[d]
<1>1. Reads[t] \subseteq Tasks \union Inputs /\ Tasks \cap Inputs = {}
  BY GraphAssumption DEF Datasets
<1>2. x \in MergedVV(s, t) <=> \E d \in Reads[t] : x \in VersionVector(s, d)
  BY DEF MergedVV
<1>3. ASSUME NEW d \in Reads[t]
      PROVE  x \in VersionVector(s, d) <=>
               \/ d \in Inputs /\ s.snapshot[d] # Unassigned /\ x = <<d, s.snapshot[d]>>
               \/ d \in DependsOn(t) /\ x \in s.vv[d]
  BY <1>1, <1>3 DEF VersionVector, VersionOf, DependsOn
<1> QED BY <1>2, <1>3 DEF DependsOn

\* A task whose dependencies are labelled with the snapshot's versions of their
\* roots is launched with the snapshot's versions of its own.
LEMMA MergedSnapshot ==
  ASSUME NEW s, NEW t \in Tasks,
         \A d \in DependsOn(t) : s.vv[d] = SnapshotOf(s, d)
  PROVE  MergedVV(s, t) = SnapshotOf(s, t)
<1>1. Reads[t] \subseteq Tasks \union Inputs /\ Tasks \cap Inputs = {}
  BY GraphAssumption DEF Datasets
<1>2. ASSUME NEW x \in MergedVV(s, t) PROVE x \in SnapshotOf(s, t)
  <2>1. \E i \in RootsOf(t) : s.snapshot[i] # Unassigned /\ x = <<i, s.snapshot[i]>>
    <3>1. CASE \E i \in Reads[t] \cap Inputs : s.snapshot[i] # Unassigned /\ x = <<i, s.snapshot[i]>>
      BY <3>1, RootsOfReads
    <3>2. CASE \E d \in DependsOn(t) : x \in s.vv[d]
      <4>1. PICK d \in DependsOn(t) : x \in SnapshotOf(s, d)
        BY <3>2
      <4>2. d \in Tasks /\ RootsOf(d) \subseteq RootsOf(t)
        BY RootsOfReads DEF DependsOn
      <4> QED BY <4>1, <4>2, SnapshotAt
    <3> QED BY <1>2, <3>1, <3>2, MergedAt
  <2> QED BY <2>1, SnapshotAt
<1>3. ASSUME NEW x \in SnapshotOf(s, t) PROVE x \in MergedVV(s, t)
  <2>1. PICK i \in RootsOf(t) : s.snapshot[i] # Unassigned /\ x = <<i, s.snapshot[i]>>
    BY <1>3, SnapshotAt
  <2>2. PICK r \in Reads[t] : i \in Roots(r)
    BY RootsFromReads
  <2>3. CASE r \in Inputs
    <3>1. r = i
      BY <2>2, <2>3 DEF Roots
    <3> QED BY <2>1, <2>3, <3>1, MergedAt
  <2>4. CASE r \notin Inputs
    <3>1. r \in DependsOn(t) /\ r \in Tasks /\ i \in RootsOf(r)
      BY <1>1, <2>2, <2>4 DEF Roots, DependsOn
    <3>2. x \in SnapshotOf(s, r)
      BY <2>1, <3>1, SnapshotAt
    <3> QED BY <3>1, <3>2, MergedAt
  <2> QED BY <2>3, <2>4
<1> QED BY <1>2, <1>3

-----------------------------------------------------------------------------
(* What a completion claims, with the outputs o and the root inputs ro     *)

Assigned(s, X) == \A i \in X : s.snapshot[i] # Unassigned

\* A content of r holds a version of each of its roots, and no other: each as
\* new as the snapshot's, and none newer than the dataset's.
Spans(ro, s, r, content) ==
  /\ \A x \in content :
       x[1] \in Roots(r) /\ s.snapshot[x[1]] <= x[2] /\ x[2] <= ro[x[1]]
  /\ \A i \in Roots(r) : \E x \in content : x[1] = i

Backed(s, t) ==
  \A d \in DependsOn(t) : s.task[d] = "completed" /\ Assigned(s, RootsOf(d))
Labelled(o, s, t) ==
  s.vv[t] = SnapshotOf(s, t) /\ o[t].vv = SnapshotOf(s, t)

\* A task's completion as it is applied, and once changes were detected.
Right(o, ro, s, t) == Backed(s, t) /\ Labelled(o, s, t) /\ Spans(ro, s, t, o[t].content)
Exact(o, s, t) ==
  /\ Backed(s, t) /\ Labelled(o, s, t)
  /\ Assigned(s, RootsOf(t)) /\ o[t].content = SnapshotOf(s, t)

\* The version vectors of a state lag behind its snapshot, and that behind the
\* datasets.
AtMost(vv, s) == \A x \in vv : x[2] <= s.snapshot[x[1]]
Versioned(ro, s) ==
  /\ \A i \in Inputs : s.snapshot[i] <= ro[i]
  /\ \A t \in Tasks : AtMost(s.vv[t], s)

Outdated(s, vv) == \E x \in vv : x[2] < s.snapshot[x[1]]

\* A vector t is launched with that is not known to be stale by t's own inputs.
Stays(s, t, vv) ==
  /\ ~Outdated(s, vv)
  /\ \A i \in Reads[t] \cap Inputs : VersionOf(i, s.snapshot[i]) \subseteq vv

\* What it then stands for, as far as the inputs R have been read into g.
Sources(ro, s, t, vv, g, R) ==
  /\ Backed(s, t) /\ vv = SnapshotOf(s, t)
  /\ \A r \in R : g[r] = {} \/ Spans(ro, s, r, g[r])

\* A task that a launch pass found completed, or sent back since.
Steady(s, d) ==
  \/ s.task[d] = "completed" /\ Assigned(s, RootsOf(d))
  \/ Outdated(s, s.vv[d])

Late(s, t, g) == \E i \in Reads[t] \cap Inputs : s.snapshot[i] = Unassigned /\ g[i] # {}

-----------------------------------------------------------------------------
\* A step that changes none of the versions, nor what is completed.
Alike(s, r) ==
  /\ r.snapshot = s.snapshot /\ r.vv = s.vv
  /\ \A u \in Tasks : r.task[u] = "completed" <=> s.task[u] = "completed"

LEMMA AlikeClaims ==
  ASSUME NEW s, NEW r, Alike(s, r), NEW o, NEW ro
  PROVE  /\ Versioned(ro, r) <=> Versioned(ro, s)
         /\ \A vv : (AtMost(vv, r) <=> AtMost(vv, s)) /\ (Outdated(r, vv) <=> Outdated(s, vv))
         /\ \A t \in Tasks :
              /\ MergedVV(r, t) = MergedVV(s, t)
              /\ Right(o, ro, r, t) <=> Right(o, ro, s, t)
              /\ Exact(o, r, t) <=> Exact(o, s, t)
              /\ Steady(r, t) <=> Steady(s, t)
              /\ \A vv : Stays(r, t, vv) <=> Stays(s, t, vv)
              /\ \A vv, g, R : Sources(ro, r, t, vv, g, R) <=> Sources(ro, s, t, vv, g, R)
              /\ \A g : Late(r, t, g) <=> Late(s, t, g)
<1>1. r.snapshot = s.snapshot /\ r.vv = s.vv
  BY DEF Alike
<1>2. \A X : Assigned(r, X) <=> Assigned(s, X)
  BY <1>1 DEF Assigned
<1>3. \A t \in Tasks : SnapshotOf(r, t) = SnapshotOf(s, t)
  BY <1>1 DEF SnapshotOf
<1>4. \A t \in Tasks : MergedVV(r, t) = MergedVV(s, t)
  BY <1>1 DEF MergedVV, VersionVector
<1>5. \A t \in Tasks : Backed(r, t) <=> Backed(s, t)
  BY <1>2 DEF Alike, Backed, DependsOn
<1>6. \A t \in Tasks : Labelled(o, r, t) <=> Labelled(o, s, t)
  BY <1>1, <1>3 DEF Labelled
<1>7. \A x, c : Spans(ro, r, x, c) <=> Spans(ro, s, x, c)
  BY <1>1 DEF Spans
<1>8. \A vv : (AtMost(vv, r) <=> AtMost(vv, s)) /\ (Outdated(r, vv) <=> Outdated(s, vv))
  BY <1>1 DEF AtMost, Outdated
<1>9. Versioned(ro, r) <=> Versioned(ro, s)
  BY <1>1, <1>8 DEF Versioned
<1>10. ASSUME NEW t \in Tasks
       PROVE  /\ Right(o, ro, r, t) <=> Right(o, ro, s, t)
              /\ Exact(o, r, t) <=> Exact(o, s, t)
  BY <1>2, <1>3, <1>5, <1>6, <1>7 DEF Right, Exact
<1>11. ASSUME NEW t \in Tasks PROVE Steady(r, t) <=> Steady(s, t)
  BY <1>1, <1>2, <1>8 DEF Steady, Alike
<1>12. ASSUME NEW t \in Tasks, NEW vv PROVE Stays(r, t, vv) <=> Stays(s, t, vv)
  BY <1>1, <1>8 DEF Stays
<1>13. ASSUME NEW t \in Tasks, NEW vv, NEW g, NEW R
       PROVE  Sources(ro, r, t, vv, g, R) <=> Sources(ro, s, t, vv, g, R)
  BY <1>3, <1>5, <1>7 DEF Sources
<1>14. ASSUME NEW t \in Tasks, NEW g PROVE Late(r, t, g) <=> Late(s, t, g)
  BY <1>1 DEF Late
<1> QED BY <1>4, <1>8, <1>9, <1>10, <1>11, <1>12, <1>13, <1>14

\* The root inputs' values, and what vectors and contents hold of them.
LEMMA InputValues ==
  /\ Values \subseteq Int /\ Unassigned \in Int /\ Unassigned \notin Values
  /\ \A v \in Values : Unassigned < v
  /\ \A x \in Versions : x = <<x[1], x[2]>> /\ x[1] \in Inputs /\ x[2] \in Values
BY StepsAssumption DEF Values, Unassigned, Versions

LEMMA SnapshotValues ==
  ASSUME NEW s \in ExecutionState
  PROVE  /\ \A i \in Inputs : s.snapshot[i] \in Int /\ s.snapshot[i] \in Values \union {Unassigned}
         /\ \A t \in Tasks : s.vv[t] \in SUBSET Versions /\ RootsOf(t) \subseteq Inputs
BY InputValues DEF ExecutionState, RootsOf

\* Where the snapshot says what the datasets hold, what spans it is of it.
LEMMA SpansExactly ==
  ASSUME NEW s \in ExecutionState, NEW ro, NEW t \in Tasks, NEW content \in Content,
         Spans(ro, s, t, content), \A i \in RootsOf(t) : ro[i] = s.snapshot[i]
  PROVE  Assigned(s, RootsOf(t)) /\ content = SnapshotOf(s, t)
<1>1. Roots(t) = RootsOf(t) /\ RootsOf(t) \subseteq Inputs
  BY GraphAssumption DEF Roots, RootsOf
<1>2. ASSUME NEW x \in content
      PROVE  x[1] \in RootsOf(t) /\ x = <<x[1], s.snapshot[x[1]]>> /\ s.snapshot[x[1]] # Unassigned
  <2>1. x \in Versions
    BY DEF Content
  <2>2. x[1] \in RootsOf(t) /\ s.snapshot[x[1]] <= x[2] /\ x[2] <= s.snapshot[x[1]]
    BY <1>1 DEF Spans
  <2>3. x[2] = s.snapshot[x[1]]
    BY <2>1, <2>2, InputValues, SnapshotValues
  <2> QED BY <2>1, <2>2, <2>3, InputValues
<1>3. ASSUME NEW i \in RootsOf(t) PROVE s.snapshot[i] # Unassigned /\ <<i, s.snapshot[i]>> \in content
  <2>1. PICK x \in content : x[1] = i
    BY <1>1 DEF Spans
  <2> QED BY <1>2, <2>1
<1>4. Assigned(s, RootsOf(t))
  BY <1>3 DEF Assigned
<1>5. \A x \in content : x \in SnapshotOf(s, t)
  BY <1>2, SnapshotAt
<1>6. \A x \in SnapshotOf(s, t) : x \in content
  BY <1>3, SnapshotAt
<1> QED BY <1>4, <1>5, <1>6

LEMMA ExactRight ==
  ASSUME NEW s \in ExecutionState, NEW ro, NEW o, NEW t \in Tasks, Versioned(ro, s), Exact(o, s, t)
  PROVE  Right(o, ro, s, t)
<1>1. Roots(t) = RootsOf(t) /\ RootsOf(t) \subseteq Inputs
  BY GraphAssumption DEF Roots, RootsOf
<1>2. ASSUME NEW x \in o[t].content
      PROVE  x[1] \in Roots(t) /\ s.snapshot[x[1]] <= x[2] /\ x[2] <= ro[x[1]]
  <2>1. PICK i \in RootsOf(t) : x = <<i, s.snapshot[i]>>
    BY <1>2, SnapshotAt DEF Exact
  <2> QED BY <1>1, <2>1, SnapshotValues DEF Versioned
<1>3. ASSUME NEW i \in Roots(t) PROVE \E x \in o[t].content : x[1] = i
  <2>1. <<i, s.snapshot[i]>> \in SnapshotOf(s, t)
    BY <1>1, <1>3, SnapshotAt DEF Exact, Assigned
  <2> QED BY <2>1 DEF Exact
<1> QED BY <1>2, <1>3 DEF Right, Exact, Spans

\* A root input set to a later value takes nothing back.
LEMMA RaisedClaims ==
  ASSUME NEW s \in ExecutionState, NEW ro \in [Inputs -> Values \union {Unassigned}],
         NEW n \in [Inputs -> Values \union {Unassigned}], NEW o, NEW t \in Tasks,
         o[t].content \in Content, \A i \in Inputs : ro[i] <= n[i]
  PROVE  /\ Versioned(ro, s) => Versioned(n, s)
         /\ Right(o, ro, s, t) => Right(o, n, s, t)
         /\ \A vv, R : \A g \in [Datasets -> Content] :
              R \subseteq Reads[t] /\ Sources(ro, s, t, vv, g, R) => Sources(n, s, t, vv, g, R)
<1>1. \A i \in Inputs : ro[i] \in Int /\ n[i] \in Int
  BY InputValues
<1>2. Versioned(ro, s) => Versioned(n, s)
  BY <1>1, SnapshotValues DEF Versioned
<1>3. ASSUME NEW r, NEW c \in Content, Spans(ro, s, r, c) PROVE Spans(n, s, r, c)
  <2>1. ASSUME NEW x \in c PROVE x[2] <= n[x[1]]
    <3>1. x \in Versions
      BY DEF Content
    <3>2. x[2] <= ro[x[1]] /\ ro[x[1]] <= n[x[1]] /\ x[1] \in Inputs /\ x[2] \in Int
      BY <1>3, <3>1, InputValues DEF Spans
    <3> QED BY <1>1, <3>2
  <2> QED BY <1>3, <2>1 DEF Spans
<1>4. Right(o, ro, s, t) => Right(o, n, s, t)
  BY <1>3 DEF Right
<1>5. ASSUME NEW vv, NEW R, NEW g \in [Datasets -> Content], R \subseteq Reads[t],
             Sources(ro, s, t, vv, g, R)
      PROVE  Sources(n, s, t, vv, g, R)
  <2>1. \A r \in R : g[r] \in Content
    BY <1>5, GraphAssumption
  <2> QED BY <1>3, <1>5, <2>1 DEF Sources
<1> QED BY <1>2, <1>4, <1>5

\* A result is applied only if nothing it was given has moved, and then it is
\* right: of what its task was launched with, as far as the snapshot says.
LEMMA AppliedRight ==
  ASSUME NEW s \in ExecutionState, NEW r, NEW ro, NEW o, NEW t \in Tasks, NEW vv \in SUBSET Versions,
         NEW g \in [Datasets -> Content], ~ResultStale(s, t, vv),
         Stays(s, t, vv) => Sources(ro, s, t, vv, g, Reads[t]),
         \A d \in Reads[t] : g[d] # {},
         o[t] = [content |-> Output(t, g), vv |-> vv],
         r.snapshot = s.snapshot, r.vv[t] = MergedVV(s, t),
         \A u \in Tasks : s.task[u] = "completed" => r.task[u] = "completed"
  PROVE  Right(o, ro, r, t)
<1>1. MergedVV(s, t) = vv
  BY DEF ResultStale
<1>2. ~Outdated(s, vv)
  <2> SUFFICES ASSUME NEW x \in vv, x[2] < s.snapshot[x[1]] PROVE FALSE
    BY DEF Outdated
  <2>1. s.snapshot[x[1]] \in {Unassigned, x[2]}
    BY DEF ResultStale
  <2>2. x \in Versions
    OBVIOUS
  <2>3. x[2] \in Int /\ Unassigned < x[2] /\ Unassigned \in Int
    BY <2>2, InputValues
  <2> QED BY <2>1, <2>3
<1>3. \A i \in Reads[t] \cap Inputs : VersionOf(i, s.snapshot[i]) \subseteq vv
  BY <1>1, MergedAt DEF VersionOf
<1>4. Sources(ro, s, t, vv, g, Reads[t])
  BY <1>2, <1>3 DEF Stays
<1>5. \A d \in Reads[t] : Spans(ro, r, d, g[d])
  BY <1>4 DEF Sources, Spans
<1>6. Backed(r, t)
  BY <1>4 DEF Sources, Backed, Assigned, DependsOn
<1>7. Labelled(o, r, t)
  BY <1>1, <1>4 DEF Sources, Labelled, SnapshotOf
<1>8. Roots(t) = RootsOf(t)
  BY GraphAssumption DEF Roots
<1>9. Spans(ro, r, t, Output(t, g))
  <2>1. ASSUME NEW x \in Output(t, g)
        PROVE  x[1] \in Roots(t) /\ r.snapshot[x[1]] <= x[2] /\ x[2] <= ro[x[1]]
    <3>1. PICK d \in Reads[t] : x \in g[d]
      BY <2>1 DEF Output
    <3> QED BY <1>5, <1>8, <3>1, RootsFromReads DEF Spans
  <2>2. ASSUME NEW i \in Roots(t) PROVE \E x \in Output(t, g) : x[1] = i
    <3>1. PICK d \in Reads[t] : i \in Roots(d)
      BY <1>8, <2>2, RootsFromReads
    <3>2. PICK x \in g[d] : x[1] = i
      BY <1>5, <3>1 DEF Spans
    <3> QED BY <3>1, <3>2 DEF Output
  <2> QED BY <2>1, <2>2 DEF Spans
<1> QED BY <1>6, <1>7, <1>9 DEF Right

\* A detection takes the snapshot to what the datasets hold, and takes back
\* the completions of what was computed from a root input that moved.
Detected(ro, s, r) ==
  /\ r.vv = s.vv
  /\ \A i \in Inputs : r.snapshot[i] = ro[i]
  /\ \A u \in Tasks : r.task[u] = "completed" <=>
       s.task[u] = "completed" /\ \A i \in RootsOf(u) : ro[i] = s.snapshot[i]

\* What is left completed is exact, whatever was set as it completed.
LEMMA DetectedExact ==
  ASSUME NEW s \in ExecutionState, NEW r \in ExecutionState, NEW ro, Detected(ro, s, r),
         NEW o, NEW t \in Tasks, o[t].content \in Content, Right(o, ro, s, t),
         r.task[t] = "completed"
  PROVE  Exact(o, r, t)
<1>1. \A i \in RootsOf(t) : ro[i] = s.snapshot[i] /\ r.snapshot[i] = s.snapshot[i]
  BY SnapshotValues DEF Detected
<1>2. Assigned(s, RootsOf(t)) /\ o[t].content = SnapshotOf(s, t)
  BY <1>1, SpansExactly DEF Right
<1>3. SnapshotOf(r, t) = SnapshotOf(s, t)
  BY <1>1 DEF SnapshotOf
<1>4. Backed(r, t)
  <2> SUFFICES ASSUME NEW d \in DependsOn(t)
               PROVE  r.task[d] = "completed" /\ Assigned(r, RootsOf(d))
    BY DEF Backed
  <2>1. d \in Tasks /\ RootsOf(d) \subseteq RootsOf(t)
    BY RootsOfReads DEF DependsOn
  <2>2. s.task[d] = "completed" /\ Assigned(s, RootsOf(d))
    BY DEF Right, Backed
  <2> QED BY <1>1, <2>1, <2>2 DEF Detected, Assigned
<1>5. Labelled(o, r, t)
  BY <1>3 DEF Right, Labelled, Detected
<1>6. Assigned(r, RootsOf(t))
  BY <1>1, <1>2 DEF Assigned
<1> QED BY <1>2, <1>3, <1>4, <1>5, <1>6 DEF Exact

LEMMA DetectedVersions ==
  ASSUME NEW s \in ExecutionState, NEW r \in ExecutionState,
         NEW ro \in [Inputs -> Values \union {Unassigned}], Detected(ro, s, r), Versioned(ro, s)
  PROVE  /\ Versioned(ro, r)
         /\ \A i \in Inputs : s.snapshot[i] <= r.snapshot[i]
         /\ \A vv \in SUBSET Versions : AtMost(vv, s) => AtMost(vv, r)
         /\ \A vv \in SUBSET Versions : Outdated(s, vv) => Outdated(r, vv)
<1>1. \A i \in Inputs : /\ s.snapshot[i] \in Int /\ r.snapshot[i] \in Int
                        /\ s.snapshot[i] <= r.snapshot[i] /\ r.snapshot[i] = ro[i]
  BY SnapshotValues DEF Detected, Versioned
<1>2. ASSUME NEW vv \in SUBSET Versions, AtMost(vv, s) PROVE AtMost(vv, r)
  <2> SUFFICES ASSUME NEW x \in vv PROVE x[2] <= r.snapshot[x[1]]
    BY DEF AtMost
  <2>1. x \in Versions /\ x[2] <= s.snapshot[x[1]]
    BY <1>2 DEF AtMost
  <2> QED BY <1>1, <2>1, InputValues
<1>3. ASSUME NEW vv \in SUBSET Versions, Outdated(s, vv) PROVE Outdated(r, vv)
  <2>1. PICK x \in vv : x[2] < s.snapshot[x[1]]
    BY <1>3 DEF Outdated
  <2>2. x \in Versions
    OBVIOUS
  <2>3. x[2] < r.snapshot[x[1]]
    BY <1>1, <2>1, <2>2, InputValues
  <2> QED BY <2>3 DEF Outdated
<1>4. Versioned(ro, r)
  <2>1. \A t \in Tasks : AtMost(r.vv[t], r)
    BY <1>2, SnapshotValues DEF Versioned, Detected
  <2> QED BY <1>1, <2>1 DEF Versioned
<1> QED BY <1>1, <1>2, <1>3, <1>4

\* A task launched, or about to be, that is not known to be stale after the
\* detection, was not before, and what it was given did not move.
LEMMA DetectedSources ==
  ASSUME NEW s \in ExecutionState, NEW r \in ExecutionState,
         NEW ro \in [Inputs -> Values \union {Unassigned}], Detected(ro, s, r), Versioned(ro, s),
         NEW t \in Tasks, NEW vv \in SUBSET Versions, AtMost(vv, s), Stays(r, t, vv),
         NEW g, NEW R \in SUBSET Reads[t],
         Stays(s, t, vv) => Sources(ro, s, t, vv, g, R)
  PROVE  Sources(ro, r, t, vv, g, R)
<1>1. \A i \in Inputs : /\ s.snapshot[i] \in Int /\ r.snapshot[i] \in Int
                        /\ s.snapshot[i] <= r.snapshot[i] /\ r.snapshot[i] = ro[i]
  BY SnapshotValues DEF Detected, Versioned
<1>2. ~Outdated(s, vv) /\ ~Outdated(r, vv)
  BY DetectedVersions DEF Stays
<1>3. ASSUME NEW i \in Reads[t] \cap Inputs, r.snapshot[i] # Unassigned
      PROVE  s.snapshot[i] = r.snapshot[i]
  <2>1. <<i, r.snapshot[i]>> \in vv
    BY <1>3 DEF Stays, VersionOf
  <2>2. r.snapshot[i] <= s.snapshot[i]
    BY <2>1 DEF AtMost
  <2> QED BY <1>1, <2>2
<1>4. ASSUME NEW i \in Reads[t] \cap Inputs, r.snapshot[i] = Unassigned
      PROVE  s.snapshot[i] = r.snapshot[i]
  <2>1. s.snapshot[i] <= Unassigned /\ s.snapshot[i] \in Values \union {Unassigned}
    BY <1>1, <1>4, SnapshotValues
  <2>2. s.snapshot[i] \notin Values
    BY <2>1, InputValues
  <2> QED BY <1>4, <2>1, <2>2
<1>5. \A i \in Reads[t] \cap Inputs : VersionOf(i, s.snapshot[i]) \subseteq vv
  BY <1>3, <1>4 DEF Stays
<1>6. Sources(ro, s, t, vv, g, R)
  BY <1>2, <1>5 DEF Stays
<1>7. ASSUME NEW i \in RootsOf(t) PROVE s.snapshot[i] = r.snapshot[i]
  <2>1. CASE i \in Reads[t]
    BY <1>3, <1>4, <2>1 DEF RootsOf
  <2>2. CASE i \notin Reads[t]
    <3>1. PICK d \in Reads[t] : i \in Roots(d)
      BY RootsFromReads
    <3>2. d \in DependsOn(t) /\ i \in RootsOf(d)
      BY <2>2, <3>1, GraphAssumption DEF Roots, DependsOn, Datasets
    <3>3. s.snapshot[i] # Unassigned
      BY <1>6, <3>2 DEF Sources, Backed, Assigned
    <3>4. <<i, s.snapshot[i]>> \in vv
      BY <1>6, <3>3, SnapshotAt DEF Sources
    <3>5. ~(s.snapshot[i] < r.snapshot[i])
      BY <1>2, <3>4 DEF Outdated
    <3> QED BY <1>1, <3>5 DEF RootsOf
  <2> QED BY <2>1, <2>2
<1>8. SnapshotOf(r, t) = SnapshotOf(s, t)
  BY <1>7 DEF SnapshotOf
<1>9. Backed(r, t)
  <2> SUFFICES ASSUME NEW d \in DependsOn(t)
               PROVE  r.task[d] = "completed" /\ Assigned(r, RootsOf(d))
    BY DEF Backed
  <2>1. d \in Tasks /\ RootsOf(d) \subseteq RootsOf(t) /\ RootsOf(d) \subseteq Inputs
    BY RootsOfReads DEF DependsOn, RootsOf
  <2>2. s.task[d] = "completed" /\ Assigned(s, RootsOf(d))
    BY <1>6 DEF Sources, Backed
  <2>3. \A i \in RootsOf(d) : ro[i] = s.snapshot[i] /\ r.snapshot[i] = s.snapshot[i]
    BY <1>1, <1>7, <2>1
  <2> QED BY <2>1, <2>2, <2>3 DEF Detected, Assigned
<1>10. ASSUME NEW d \in R, Spans(ro, s, d, g[d]) PROVE Spans(ro, r, d, g[d])
  <2>1. Roots(d) \subseteq RootsOf(t)
    BY RootsFromReads
  <2> QED BY <1>7, <1>10, <2>1 DEF Spans
<1> QED BY <1>6, <1>8, <1>9, <1>10 DEF Sources

LEMMA DetectedSteady ==
  ASSUME NEW s \in ExecutionState, NEW r \in ExecutionState,
         NEW ro \in [Inputs -> Values \union {Unassigned}], Detected(ro, s, r), Versioned(ro, s),
         NEW o, NEW d \in Tasks, s.task[d] = "completed" => Right(o, ro, s, d), Steady(s, d)
  PROVE  Steady(r, d)
<1>1. \A i \in Inputs : /\ s.snapshot[i] \in Int /\ r.snapshot[i] \in Int
                        /\ s.snapshot[i] <= r.snapshot[i] /\ r.snapshot[i] = ro[i]
  BY SnapshotValues DEF Detected, Versioned
<1>2. RootsOf(d) \subseteq Inputs /\ s.vv[d] \in SUBSET Versions /\ r.vv = s.vv
  BY SnapshotValues DEF Detected
<1>3. CASE Outdated(s, s.vv[d])
  BY <1>2, <1>3, DetectedVersions DEF Steady
<1>4. CASE /\ s.task[d] = "completed" /\ Assigned(s, RootsOf(d))
           /\ \A i \in RootsOf(d) : ro[i] = s.snapshot[i]
  BY <1>1, <1>2, <1>4 DEF Steady, Detected, Assigned
<1>5. ASSUME s.task[d] = "completed", Assigned(s, RootsOf(d)),
             NEW i \in RootsOf(d), ro[i] # s.snapshot[i]
      PROVE  Steady(r, d)
  <2>1. <<i, s.snapshot[i]>> \in r.vv[d]
    BY <1>2, <1>5, SnapshotAt DEF Assigned, Right, Labelled
  <2>2. s.snapshot[i] < r.snapshot[i]
    BY <1>1, <1>2, <1>5
  <2> QED BY <2>1, <2>2 DEF Steady, Outdated
<1> QED BY <1>3, <1>4, <1>5 DEF Steady

LEMMA InvalidateCompleted ==
  ASSUME NEW s \in ExecutionState, NEW affected, NEW ts, NEW W \in StopsWaiting(s, ts)
  PROVE  LET r == InvalidateTasks(s, affected, W)
         IN  /\ r.vv = s.vv /\ r.snapshot = s.snapshot
             /\ \A u \in Tasks : r.task[u] = "completed" <=> s.task[u] = "completed" /\ u \notin affected
<1> DEFINE done == affected \cap TasksIn(s, {"completed"})
           back == done \union W \union (affected \cap TasksIn(s, {"deferred"}))
           s1 == SetTasks(s, back, "pending")
           r == InvalidateTasks(s, affected, W)
<1>1. s1 \in ExecutionState
  BY SetTasksType, StatusTypes
<1>2. r.task = s1.task /\ r.vv = s1.vv /\ r.snapshot = s1.snapshot
  BY <1>1 DEF InvalidateTasks, ExecutionState
<1>3. /\ \A u \in Tasks : s1.task[u] = IF u \in back THEN "pending" ELSE s.task[u]
      /\ s1.vv = s.vv /\ s1.snapshot = s.snapshot
  BY SetTasksAt
<1>4. \A u \in W : u \in Tasks /\ s.task[u] = "waiting"
  BY DEF StopsWaiting, TasksIn
<1> HIDE DEF s1, r
<1>5. ASSUME NEW u \in Tasks
      PROVE  s1.task[u] = "completed" <=> s.task[u] = "completed" /\ u \notin affected
  BY <1>3, <1>4 DEF TasksIn
<1> QED BY <1>2, <1>3, <1>5 DEF r

LEMMA DetectDetects ==
  ASSUME TypeOK, NEW p \in Procs, Detect(p), Versioned(root, st[p])
  PROVE  \E r \in ExecutionState :
           st' = [st EXCEPT ![p] = r] /\ Persist(p, r) /\ Detected(root, st[p], r)
<1> DEFINE s1 == DetectInputChanges(st[p], root)
           changed == InputChanges(st[p], root)
           affected == FindAffectedTasks(changed)
<1>1. PICK W \in StopsWaiting(s1, affected) :
        /\ st' = [st EXCEPT ![p] = InvalidateTasks(s1, affected, W)]
        /\ Persist(p, InvalidateTasks(s1, affected, W))
  BY DEF Detect
<1>2. st[p] \in ExecutionState /\ root \in [Inputs -> Values \union {Unassigned}]
  BY DEF TypeOK
<1>3. s1 \in ExecutionState
  BY <1>2, DetectInputChangesType
<1>4. ASSUME NEW i \in Inputs
      PROVE  /\ i \in changed <=> root[i] # st[p].snapshot[i]
             /\ s1.snapshot[i] = root[i]
  <2>1. s1.snapshot[i] = IF i \in changed THEN root[i] ELSE st[p].snapshot[i]
    BY <1>2 DEF DetectInputChanges, ExecutionState
  <2>2. i \in changed <=> root[i] \notin {Unassigned, st[p].snapshot[i]}
    BY DEF InputChanges
  <2>3. root[i] = Unassigned => st[p].snapshot[i] = Unassigned
    <3>1. st[p].snapshot[i] <= root[i] /\ st[p].snapshot[i] \in Values \union {Unassigned}
      BY <1>2, SnapshotValues DEF Versioned
    <3> QED BY <3>1, InputValues
  <2> QED BY <2>1, <2>2, <2>3
<1>5. s1.task = st[p].task /\ s1.vv = st[p].vv
  BY <1>2 DEF DetectInputChanges, ExecutionState
<1>6. \A u \in Tasks : u \notin affected <=> \A i \in RootsOf(u) : root[i] = st[p].snapshot[i]
  <2>1. changed \in SUBSET Inputs
    BY DEF InputChanges
  <2> SUFFICES ASSUME NEW u \in Tasks
               PROVE  RootsOf(u) \cap changed = {} <=> \A i \in RootsOf(u) : root[i] = st[p].snapshot[i]
    BY <2>1, AffectedTasks
  <2>2. RootsOf(u) \subseteq Inputs
    BY DEF RootsOf
  <2> HIDE DEF changed
  <2> QED BY <1>4, <2>2
<1> HIDE DEF s1, affected, changed
<1> DEFINE r == InvalidateTasks(s1, affected, W)
<1>7. r \in ExecutionState
  BY <1>3, InvalidateTasksType
<1>8. /\ r.vv = s1.vv /\ r.snapshot = s1.snapshot
      /\ \A u \in Tasks : r.task[u] = "completed" <=> s1.task[u] = "completed" /\ u \notin affected
  BY <1>3, InvalidateCompleted
<1>9. st' = [st EXCEPT ![p] = r] /\ Persist(p, r)
  BY <1>1
<1> HIDE DEF r
<1>10. Detected(root, st[p], r)
  BY <1>4, <1>5, <1>6, <1>8 DEF Detected
<1> QED BY <1>7, <1>9, <1>10

-----------------------------------------------------------------------------
(* What holds of a run that is neither cancelled nor over                  *)

\* The inputs of t read so far, a task launched or about to be, one all of
\* whose inputs were read, and one whose completion was not followed by a
\* detection yet.
ReadBy(p, t) ==
  IF t \in cur[p] /\ pc[p] = "read" THEN Reads[t] \ left[p] ELSE Reads[t]
Prepared(p, t) ==
  \/ phase[p][t] \in Launched
  \/ t \in cur[p] /\ pc[p] \in Preparing \union {"launch"}
Served(p, t) ==
  \/ phase[p][t] \in Launched \union {"applied"}
  \/ t \in cur[p] /\ pc[p] \in {"hit", "start", "launch"}
InWindow(p, t) ==
  \/ phase[p][t] = "applied"
  \/ pc[p] = "applied" /\ t \in cur[p]

\* Nothing is newer than the datasets.
NoneNewer(p) ==
  /\ Versioned(root, st[p])
  /\ \A t \in Tasks : AtMost(given[p][t], st[p])
  /\ \A t \in Tasks : \A i \in Inputs : got[p][t][i] # {} => root[i] # Unassigned

\* Each completion is right, and exact once a detection followed it.
CompletionsRight(p) ==
  \A t \in Tasks : st[p].task[t] = "completed" =>
    /\ Right(out, root, st[p], t)
    /\ ~InWindow(p, t) => Exact(out, st[p], t)

\* What is in flight was given what it was launched with, or is known stale.
GivenSources(p) ==
  \A t \in Tasks :
    /\ Prepared(p, t) /\ Stays(st[p], t, given[p][t]) =>
         Sources(root, st[p], t, given[p][t], got[p][t], ReadBy(p, t))
    /\ Served(p, t) => \A r \in Reads[t] : got[p][t][r] # {}

\* A ready list does not age: what its tasks read is not run again while the
\* pass goes on, and what was sent back meanwhile makes them stale.
QueueSteady(p) ==
  \A t \in queue[p] : \A d \in DependsOn(t) :
    d \notin queue[p] /\ d \notin cur[p] /\ phase[p][d] \notin Launched /\ Steady(st[p], d)

\* A run takes a new ready list only after a detection of all it has read.
Listing(p) ==
  /\ ~failure[p]
  /\ \/ pc[p] = "top"
     \/ pc[p] = "race" /\ ~(watch[p] \subseteq InFlight(p))
NoneLate(p) ==
  Listing(p) => \A t \in Tasks :
    phase[p][t] \in Launched \union {"applied"} => ~Late(st[p], t, got[p][t])

NoneStopped(p) ==
  /\ \A t \in Tasks : phase[p][t] \notin {"stopped", "thrown"}
  /\ pc[p] \in {"drain", "throwing"} => InFlight(p) = {}

RunRight(p) ==
  /\ NoneNewer(p) /\ CompletionsRight(p) /\ GivenSources(p)
  /\ QueueSteady(p) /\ NoneLate(p) /\ NoneStopped(p)

LEMMA MergedAtMost ==
  ASSUME NEW ro, NEW s \in ExecutionState, Versioned(ro, s), NEW t \in Tasks
  PROVE  AtMost(MergedVV(s, t), s)
<1> SUFFICES ASSUME NEW x \in MergedVV(s, t) PROVE x[2] <= s.snapshot[x[1]]
  BY DEF AtMost
<1>1. CASE \E i \in Reads[t] \cap Inputs : s.snapshot[i] # Unassigned /\ x = <<i, s.snapshot[i]>>
  BY <1>1, SnapshotValues
<1>2. CASE \E d \in DependsOn(t) : x \in s.vv[d]
  BY <1>2 DEF Versioned, AtMost, DependsOn
<1> QED BY <1>1, <1>2, MergedAt

\* A step that writes no output, and leaves the versions and what is
\* completed.
LEMMA StillRight ==
  ASSUME TypeOK, NEW p \in Procs, RunRight(p), root' = root, out' = out, Alike(st[p], st'[p]),
         \A t \in Tasks : InWindow(p, t) => InWindow(p, t)',
         \A t \in Tasks : given'[p][t] \in {given[p][t], {}, MergedVV(st[p], t)},
         \A t \in Tasks : \A i \in Inputs :
           got'[p][t][i] \in {got[p][t][i], {}, VersionOf(i, root[i])},
         \A t \in Tasks : Prepared(p, t)' =>
           \/ /\ Prepared(p, t) /\ given'[p][t] = given[p][t]
              /\ \A r \in ReadBy(p, t)' : r \in ReadBy(p, t) /\ got'[p][t][r] = got[p][t][r]
           \/ Stays(st[p], t, given'[p][t]) =>
                Sources(root, st[p], t, given'[p][t], got'[p][t], ReadBy(p, t)'),
         \A t \in Tasks : Served(p, t)' =>
           \/ Served(p, t) /\ got'[p][t] = got[p][t]
           \/ \A r \in Reads[t] : got'[p][t][r] # {},
         \/ /\ queue'[p] \subseteq queue[p] /\ cur'[p] \subseteq cur[p] \union queue[p]
            /\ \A t \in Tasks : phase'[p][t] \in Launched =>
                 phase[p][t] \in Launched \/ t \in cur[p]
         \/ \A t \in queue'[p] : \A d \in DependsOn(t) :
              d \notin queue'[p] /\ d \notin cur'[p] /\ phase'[p][d] \notin Launched
              /\ Steady(st[p], d),
         Listing(p)' =>
           \/ /\ Listing(p)
              /\ \A t \in Tasks : phase'[p][t] \in Launched \union {"applied"} =>
                   phase[p][t] \in Launched \union {"applied"} /\ got'[p][t] = got[p][t]
           \/ \A t \in Tasks : phase'[p][t] = "none",
         NoneStopped(p)'
  PROVE  RunRight(p)'
<1> DEFINE s == st[p]
           r == st'[p]
<1>1. s \in ExecutionState /\ queue[p] \in SUBSET Tasks
  BY DEF TypeOK
<1>2. /\ Versioned(root, r) <=> Versioned(root, s)
      /\ \A vv : (AtMost(vv, r) <=> AtMost(vv, s)) /\ (Outdated(r, vv) <=> Outdated(s, vv))
      /\ \A t \in Tasks :
           /\ Right(out, root, r, t) <=> Right(out, root, s, t)
           /\ Exact(out, r, t) <=> Exact(out, s, t)
           /\ Steady(r, t) <=> Steady(s, t)
           /\ \A vv : Stays(r, t, vv) <=> Stays(s, t, vv)
           /\ \A vv, g, R : Sources(root, r, t, vv, g, R) <=> Sources(root, s, t, vv, g, R)
           /\ \A g : Late(r, t, g) <=> Late(s, t, g)
  BY AlikeClaims
<1>3. \A u \in Tasks : r.task[u] = "completed" <=> s.task[u] = "completed"
  BY DEF Alike
<1>4. NoneNewer(p)'
  <2>1. Versioned(root, s)
    BY DEF RunRight, NoneNewer
  <2>2. ASSUME NEW t \in Tasks PROVE AtMost(given'[p][t], r)
    <3>1. AtMost(given[p][t], s) /\ AtMost({}, s) /\ AtMost(MergedVV(s, t), s)
      BY <1>1, <2>1, MergedAtMost DEF RunRight, NoneNewer, AtMost
    <3> QED BY <1>2, <3>1
  <2>3. ASSUME NEW t \in Tasks, NEW i \in Inputs, got'[p][t][i] # {} PROVE root[i] # Unassigned
    BY <2>3 DEF RunRight, NoneNewer, VersionOf
  <2> QED BY <1>2, <2>1, <2>2, <2>3 DEF NoneNewer
<1>5. CompletionsRight(p)'
  BY <1>2, <1>3 DEF RunRight, CompletionsRight
<1>6. GivenSources(p)'
  <2>1. ASSUME NEW t \in Tasks, Prepared(p, t)', Stays(r, t, given'[p][t])
        PROVE  Sources(root, r, t, given'[p][t], got'[p][t], ReadBy(p, t)')
    <3>1. Stays(s, t, given'[p][t])
      BY <1>2, <2>1
    <3>2. CASE /\ Prepared(p, t) /\ given'[p][t] = given[p][t]
               /\ \A x \in ReadBy(p, t)' : x \in ReadBy(p, t) /\ got'[p][t][x] = got[p][t][x]
      <4>1. Sources(root, s, t, given[p][t], got[p][t], ReadBy(p, t))
        BY <3>1, <3>2 DEF RunRight, GivenSources
      <4>2. Sources(root, s, t, given'[p][t], got'[p][t], ReadBy(p, t)')
        BY <3>2, <4>1 DEF Sources
      <4> QED BY <1>2, <4>2
    <3>3. CASE Sources(root, s, t, given'[p][t], got'[p][t], ReadBy(p, t)')
      BY <1>2, <3>3
    <3> QED BY <2>1, <3>1, <3>2, <3>3
  <2>2. ASSUME NEW t \in Tasks, Served(p, t)' PROVE \A x \in Reads[t] : got'[p][t][x] # {}
    BY <2>2 DEF RunRight, GivenSources
  <2> QED BY <2>1, <2>2 DEF GivenSources
<1>7. QueueSteady(p)'
  <2> SUFFICES ASSUME NEW t \in queue'[p], NEW d \in DependsOn(t)
               PROVE  /\ d \notin queue'[p] /\ d \notin cur'[p] /\ phase'[p][d] \notin Launched
                      /\ Steady(r, d)
    BY DEF QueueSteady
  <2>1. d \in Tasks
    BY DEF DependsOn
  <2>2. CASE /\ queue'[p] \subseteq queue[p] /\ cur'[p] \subseteq cur[p] \union queue[p]
             /\ \A u \in Tasks : phase'[p][u] \in Launched => phase[p][u] \in Launched \/ u \in cur[p]
    <3>1. d \notin queue[p] /\ d \notin cur[p] /\ phase[p][d] \notin Launched /\ Steady(s, d)
      BY <2>2 DEF RunRight, QueueSteady
    <3> QED BY <1>2, <2>1, <2>2, <3>1
  <2>3. CASE /\ d \notin queue'[p] /\ d \notin cur'[p] /\ phase'[p][d] \notin Launched
             /\ Steady(s, d)
    BY <1>2, <2>1, <2>3
  <2> QED BY <2>2, <2>3
<1>8. NoneLate(p)'
  <2> SUFFICES ASSUME Listing(p)', NEW t \in Tasks, phase'[p][t] \in Launched \union {"applied"}
               PROVE  ~Late(r, t, got'[p][t])
    BY DEF NoneLate
  <2>1. "none" \notin Launched \union {"applied"}
    BY DEF Launched
  <2>2. /\ Listing(p) /\ phase[p][t] \in Launched \union {"applied"} /\ got'[p][t] = got[p][t]
    BY <2>1
  <2>3. ~Late(s, t, got'[p][t])
    BY <2>2 DEF RunRight, NoneLate
  <2> QED BY <1>2, <2>3
<1> QED BY <1>4, <1>5, <1>6, <1>7, <1>8 DEF RunRight

\* The steps that are so.
LEMMA AlikeSteps ==
  ASSUME NEW s \in ExecutionState, NEW t \in Tasks, s.task[t] # "completed"
  PROVE  /\ Alike(s, SetTasks(s, {t}, "pending")) /\ Alike(s, TaskStarted(s, t))
         /\ Alike(s, TasksWaiting(s, t))
         /\ LET f == TaskFailed(s, t) IN Alike(s, TasksSkipped(f, ToSkip(f, t)))
<1>1. ASSUME NEW status \in TaskStatus \ {"completed"} PROVE Alike(s, SetTasks(s, {t}, status))
  BY SetTasksAt DEF Alike
<1>2. Alike(s, SetTasks(s, {t}, "pending")) /\ Alike(s, TaskStarted(s, t))
  BY <1>1, StatusTypes DEF TaskStarted, TaskStatus
<1>3. Alike(s, TasksWaiting(s, t))
  <2> DEFINE s1 == SetTasks(s, {t}, "waiting")
             ds == GetDependentsToSkip(t, TasksIn(s1, {"completed"}),
                                       TasksIn(s1, {"skipped", "waiting"}))
             more == ds \cap RunSet \cap TasksIn(s1, {"pending", "ready", "deferred"})
  <2>1. s1 \in ExecutionState /\ Alike(s, s1)
    BY <1>1, SetTasksType, StatusTypes DEF TaskStatus
  <2>2. \A u \in more : s1.task[u] # "completed"
    BY DEF TasksIn
  <2>3. TasksWaiting(s, t) = SetTasks(s1, more, "waiting")
    BY DEF TasksWaiting
  <2> HIDE DEF s1, more
  <2>4. Alike(s1, SetTasks(s1, more, "waiting"))
    BY <2>1, <2>2, SetTasksAt DEF Alike
  <2> QED BY <2>1, <2>3, <2>4 DEF Alike
<1>4. LET f == TaskFailed(s, t) IN Alike(s, TasksSkipped(f, ToSkip(f, t)))
  <2> DEFINE s1 == SetTasks(s, {t}, "failed")
             f == TaskFailed(s, t)
             skip == ToSkip(f, t)
             s2 == SetTasks(f, skip, "skipped")
             r == TasksSkipped(f, skip)
  <2>1. s1 \in ExecutionState /\ Alike(s, s1)
    BY <1>1, SetTasksType, StatusTypes DEF TaskStatus
  <2>2. f = [s1 EXCEPT !.failed = s.failed + 1]
    BY DEF TaskFailed
  <2> HIDE DEF s1
  <2>3. f \in ExecutionState /\ f.task = s1.task /\ f.vv = s1.vv /\ f.snapshot = s1.snapshot
    BY <2>1, <2>2 DEF ExecutionState
  <2> HIDE DEF f
  <2>4. \A u \in skip : f.task[u] # "completed"
    BY DEF ToSkip, GetDependentsToSkip, TasksIn, Cone
  <2> HIDE DEF skip
  <2>5. Alike(f, s2)
    BY <2>3, <2>4, SetTasksAt DEF Alike
  <2>6. s2 \in ExecutionState
    BY <2>3, SetTasksType, StatusTypes
  <2>7. r = [s2 EXCEPT !.skipped = f.skipped + Cardinality(skip)]
    BY DEF TasksSkipped
  <2> HIDE DEF s2
  <2>8. r.task = s2.task /\ r.vv = s2.vv /\ r.snapshot = s2.snapshot
    BY <2>6, <2>7 DEF ExecutionState
  <2> HIDE DEF r
  <2>9. Alike(s, r)
    BY <2>1, <2>3, <2>5, <2>8 DEF Alike
  <2> QED BY <2>9 DEF r, skip, f
<1> QED BY <1>2, <1>3, <1>4

LEMMA AlikeDeferred ==
  ASSUME NEW p \in Procs, NEW ts, st[p] \in ExecutionState
  PROVE  Alike(st[p], Deferred(p, ts))
<1>1. \A u \in {u \in ts : ~Skipped(p, u)} : st[p].task[u] # "completed"
  BY DEF Skipped
<1> QED BY <1>1, SetTasksAt DEF Deferred, Alike

LEMMA AlikeEnds ==
  ASSUME NEW s \in ExecutionState
  PROVE  Alike(s, Yield(s)) /\ Alike(s, Finalize(s))
<1>1. Alike(s, Yield(s))
  BY YieldAt, SetTasksAt DEF Alike, Yield
<1>2. Alike(s, Finalize(s))
  BY DEF Finalize, Alike, ExecutionState
<1> QED BY <1>1, <1>2

\* What a completion changes of the versions and of what is completed.
LEMMA CompletedVersions ==
  ASSUME NEW s \in ExecutionState, NEW t \in Tasks, NEW hit \in BOOLEAN, NEW ts,
         NEW W \in StopsWaiting(SetTasks(s, {t}, "completed"), ts)
  PROVE  LET r == TaskCompleted(s, t, hit, W)
         IN  /\ r.snapshot = s.snapshot
             /\ r.vv[t] = MergedVV(s, t) /\ r.task[t] = "completed"
             /\ \A u \in Tasks \ {t} : r.vv[u] = s.vv[u]
             /\ \A u \in Tasks \ {t} : r.task[u] = "completed" <=> s.task[u] = "completed"
<1> DEFINE s0 == SetTasks(s, {t}, "completed")
           s1 == [s0 EXCEPT
                    !.hit = [s.hit EXCEPT ![t] = hit],
                    !.cached = s.cached + (IF hit THEN 1 ELSE 0),
                    !.executed = s.executed + (IF hit THEN 0 ELSE 1),
                    !.vv = [s.vv EXCEPT ![t] = MergedVV(s, t)]]
           back == W \union (DependentsOf(t) \cap TasksIn(s, {"deferred"}))
           s2 == SetTasks(s1, back, "pending")
           r == TaskCompleted(s, t, hit, W)
<1>1. Decides(s, r, {t}) /\ KeepsCompleted(s, r, {}) /\ r.task[t] = "completed"
      /\ r.vv[t] = MergedVV(s, t)
  BY TaskCompletedDecides
<1>2. s0 \in ExecutionState /\ s0.snapshot = s.snapshot
  BY SetTasksType, SetTasksAt, StatusTypes
<1>3. r = MarkReady(s2)
  BY DEF TaskCompleted
<1> HIDE DEF s0
<1>4. s1 \in ExecutionState
  <2>1. MergedVV(s, t) \in SUBSET Versions
    BY MergedVVType
  <2>2. /\ [s.hit EXCEPT ![t] = hit] \in [Tasks -> BOOLEAN]
        /\ [s.vv EXCEPT ![t] = MergedVV(s, t)] \in [Tasks -> SUBSET Versions]
        /\ s.cached + (IF hit THEN 1 ELSE 0) \in Int
        /\ s.executed + (IF hit THEN 0 ELSE 1) \in Int
    BY <2>1 DEF ExecutionState
  <2> QED BY <1>2, <2>2 DEF ExecutionState
<1>5. s1.snapshot = s0.snapshot
  BY <1>2 DEF ExecutionState
<1> HIDE DEF s1
<1>6. s2 \in ExecutionState /\ s2.snapshot = s1.snapshot
  BY <1>4, SetTasksType, SetTasksAt, StatusTypes
<1> HIDE DEF s2
<1>7. r.snapshot = s.snapshot
  BY <1>2, <1>3, <1>5, <1>6, MarkReadyAt
<1> HIDE DEF r
<1>8. /\ \A u \in Tasks \ {t} : r.vv[u] = s.vv[u]
      /\ \A u \in Tasks \ {t} : r.task[u] = "completed" <=> s.task[u] = "completed"
  BY <1>1 DEF Decides, KeepsCompleted
<1> QED BY <1>1, <1>7, <1>8 DEF r

\* A detection leaves every completion exact, and all of the run right.
LEMMA DetectRight ==
  ASSUME TypeOK, NEW p \in Procs, RunRight(p), root' = root, out' = out,
         NEW r \in ExecutionState, st' = [st EXCEPT ![p] = r], Detected(root, st[p], r),
         \A t \in Tasks : given'[p][t] \in {given[p][t], {}} /\ got'[p][t] \in {got[p][t], Nothing},
         \A t \in Tasks : Prepared(p, t)' =>
           /\ Prepared(p, t) /\ given'[p][t] = given[p][t] /\ got'[p][t] = got[p][t]
           /\ ReadBy(p, t)' = ReadBy(p, t),
         \A t \in Tasks : Served(p, t)' => Served(p, t) /\ got'[p][t] = got[p][t],
         queue'[p] = queue[p], cur'[p] \subseteq cur[p],
         \A t \in Tasks : phase'[p][t] \in Launched => phase[p][t] \in Launched,
         NoneStopped(p)'
  PROVE  /\ RunRight(p)'
         /\ \A t \in Tasks : r.task[t] = "completed" => Exact(out, r, t)
<1> DEFINE s == st[p]
<1>1. /\ s \in ExecutionState /\ st'[p] = r
      /\ root \in [Inputs -> Values \union {Unassigned}]
      /\ queue[p] \in SUBSET Tasks
      /\ \A t \in Tasks : given[p][t] \in SUBSET Versions /\ out[t].content \in Content
  BY DEF TypeOK
<1>2. Versioned(root, s) /\ Detected(root, s, r)
  BY DEF RunRight, NoneNewer
<1>3. \A t \in Tasks : s.task[t] = "completed" => Right(out, root, s, t)
  BY DEF RunRight, CompletionsRight
<1> HIDE DEF s
<1>4. ASSUME NEW t \in Tasks, r.task[t] = "completed" PROVE Exact(out, r, t)
  <2>1. s.task[t] = "completed"
    BY <1>2, <1>4 DEF Detected
  <2> QED BY <1>1, <1>2, <1>3, <1>4, <2>1, DetectedExact
<1>5. Versioned(root, r)
  BY <1>1, <1>2, DetectedVersions
<1>6. NoneNewer(p)'
  <2>1. ASSUME NEW t \in Tasks PROVE AtMost(given'[p][t], r)
    <3>1. AtMost(given[p][t], s) /\ AtMost({}, r)
      BY DEF RunRight, NoneNewer, AtMost, s
    <3> QED BY <1>1, <1>2, <3>1, DetectedVersions
  <2>2. ASSUME NEW t \in Tasks, NEW i \in Inputs, got'[p][t][i] # {} PROVE root[i] # Unassigned
    BY <2>2 DEF RunRight, NoneNewer, Nothing, Datasets
  <2> QED BY <1>1, <1>5, <2>1, <2>2 DEF NoneNewer
<1>7. CompletionsRight(p)'
  BY <1>1, <1>4, <1>5, ExactRight DEF CompletionsRight
<1>8. GivenSources(p)'
  <2>1. ASSUME NEW t \in Tasks, Prepared(p, t)', Stays(r, t, given'[p][t])
        PROVE  Sources(root, r, t, given'[p][t], got'[p][t], ReadBy(p, t)')
    <3>1. /\ Prepared(p, t) /\ given'[p][t] = given[p][t] /\ got'[p][t] = got[p][t]
          /\ ReadBy(p, t)' = ReadBy(p, t)
      BY <2>1
    <3>2. AtMost(given[p][t], s)
      BY DEF RunRight, NoneNewer, s
    <3>3. Stays(s, t, given[p][t]) =>
            Sources(root, s, t, given[p][t], got[p][t], ReadBy(p, t))
      BY <3>1 DEF RunRight, GivenSources, s
    <3>4. ReadBy(p, t) \in SUBSET Reads[t]
      BY DEF ReadBy
    <3>5. Stays(r, t, given[p][t])
      BY <2>1, <3>1
    <3>6. Sources(root, r, t, given[p][t], got[p][t], ReadBy(p, t))
      BY <1>1, <1>2, <3>2, <3>3, <3>4, <3>5, DetectedSources
    <3> QED BY <3>1, <3>6
  <2>2. ASSUME NEW t \in Tasks, Served(p, t)' PROVE \A x \in Reads[t] : got'[p][t][x] # {}
    BY <2>2 DEF RunRight, GivenSources
  <2> QED BY <1>1, <2>1, <2>2 DEF GivenSources
<1>9. QueueSteady(p)'
  <2> SUFFICES ASSUME NEW t \in queue[p], NEW d \in DependsOn(t)
               PROVE  /\ d \notin queue[p] /\ d \notin cur'[p] /\ phase'[p][d] \notin Launched
                      /\ Steady(r, d)
    BY <1>1 DEF QueueSteady
  <2>1. d \in Tasks
    BY DEF DependsOn
  <2>2. d \notin queue[p] /\ d \notin cur[p] /\ phase[p][d] \notin Launched /\ Steady(s, d)
    BY DEF RunRight, QueueSteady, s
  <2>3. Steady(r, d)
    BY <1>1, <1>2, <1>3, <2>1, <2>2, DetectedSteady
  <2> QED BY <2>1, <2>2, <2>3
<1>10. NoneLate(p)'
  <2> SUFFICES ASSUME NEW t \in Tasks, NEW i \in Reads[t] \cap Inputs,
                      r.snapshot[i] = Unassigned, got'[p][t][i] # {}
               PROVE  FALSE
    BY <1>1 DEF NoneLate, Late
  <2>1. root[i] # Unassigned
    BY <1>6 DEF NoneNewer
  <2> QED BY <1>2, <2>1 DEF Detected
<1> QED BY <1>4, <1>6, <1>7, <1>8, <1>9, <1>10 DEF RunRight

\* A result that is not stale, applied.
LEMMA ApplyRight ==
  ASSUME TypeOK, NEW p \in Procs, NEW t \in Tasks, NEW hit \in BOOLEAN, RunRight(p),
         st[p].task[t] # "completed", root' = root, Apply(p, t, hit),
         ~ResultStale(st[p], t, given[p][t]), Prepared(p, t), Served(p, t),
         ReadBy(p, t) = Reads[t], InWindow(p, t)',
         \A u \in Tasks : InWindow(p, u) => InWindow(p, u)',
         \A u \in Tasks : given'[p][u] = given[p][u] /\ got'[p][u] = got[p][u],
         \A u \in Tasks : Prepared(p, u)' => Prepared(p, u) /\ ReadBy(p, u)' = ReadBy(p, u),
         \A u \in Tasks : Served(p, u)' => Served(p, u),
         queue'[p] = queue[p], cur'[p] \subseteq cur[p],
         \A u \in Tasks : phase'[p][u] \in Launched => phase[p][u] \in Launched,
         Listing(p)' =>
           /\ Listing(p)
           /\ \A u \in Tasks : phase'[p][u] \in Launched \union {"applied"} =>
                phase[p][u] \in Launched \union {"applied"},
         NoneStopped(p)'
  PROVE  RunRight(p)'
<1> DEFINE s == st[p]
           r == st'[p]
<1>1. /\ s \in ExecutionState
      /\ queue[p] \in SUBSET Tasks
      /\ \A u \in Tasks : given[p][u] \in SUBSET Versions /\ got[p][u] \in [Datasets -> Content]
      /\ \A u \in Tasks : out[u].content \in Content
  BY DEF TypeOK
<1>2. /\ r.snapshot = s.snapshot
      /\ r.vv[t] = MergedVV(s, t) /\ r.task[t] = "completed"
      /\ \A u \in Tasks \ {t} : r.vv[u] = s.vv[u]
      /\ \A u \in Tasks \ {t} : r.task[u] = "completed" <=> s.task[u] = "completed"
  <2>1. PICK W \in StopsWaiting(SetTasks(st[p], {t}, "completed"), DependentsOf(t)) :
          st' = [st EXCEPT ![p] = TaskCompleted(@, t, hit, W)]
    BY DEF Apply
  <2>2. r = TaskCompleted(s, t, hit, W)
    BY <2>1 DEF TypeOK
  <2> HIDE DEF r, s
  <2> QED BY <1>1, <2>1, <2>2, CompletedVersions DEF s
<1>3. /\ out'[t] = [content |-> Output(t, got[p][t]), vv |-> given[p][t]]
      /\ \A u \in Tasks \ {t} : out'[u] = out[u]
  BY DEF Apply, TypeOK
<1> HIDE DEF s, r
<1>4. Versioned(root, s)
  BY DEF RunRight, NoneNewer, s
<1>5. \A u \in Tasks : SnapshotOf(r, u) = SnapshotOf(s, u)
  BY <1>2 DEF SnapshotOf
<1>6. \A u \in Tasks : s.task[u] = "completed" => r.task[u] = "completed"
  BY <1>2
<1>7. \A vv : (AtMost(vv, r) <=> AtMost(vv, s)) /\ (Outdated(r, vv) <=> Outdated(s, vv))
  BY <1>2 DEF AtMost, Outdated
<1>8. \A u \in Tasks : Backed(s, u) => Backed(r, u)
  BY <1>2, <1>6 DEF Backed, Assigned, DependsOn
<1>9. \A x, c : Spans(root, r, x, c) <=> Spans(root, s, x, c)
  BY <1>2 DEF Spans
<1>10. NoneNewer(p)'
  <2>1. AtMost(MergedVV(s, t), s)
    BY <1>1, <1>4, MergedAtMost
  <2>2. \A u \in Tasks : AtMost(r.vv[u], r)
    BY <1>2, <1>4, <1>7, <2>1 DEF Versioned
  <2>3. Versioned(root, r)
    BY <1>2, <1>4, <2>2 DEF Versioned
  <2>4. \A u \in Tasks : AtMost(given'[p][u], r)
    BY <1>7 DEF RunRight, NoneNewer, s
  <2> QED BY <2>3, <2>4 DEF RunRight, NoneNewer, r
<1>11. CompletionsRight(p)'
  <2>1. Right(out', root, r, t)
    <3>1. Stays(s, t, given[p][t]) =>
            Sources(root, s, t, given[p][t], got[p][t], Reads[t])
      BY DEF RunRight, GivenSources, s
    <3>2. \A d \in Reads[t] : got[p][t][d] # {}
      BY DEF RunRight, GivenSources
    <3>3. ~ResultStale(s, t, given[p][t])
      BY DEF s
    <3> QED BY <1>1, <1>2, <1>3, <1>6, <3>1, <3>2, <3>3, AppliedRight
  <2>2. ASSUME NEW u \in Tasks \ {t}, r.task[u] = "completed"
        PROVE  /\ Right(out', root, r, u)
               /\ ~InWindow(p, u)' => Exact(out', r, u)
    <3>1. /\ Right(out, root, s, u)
          /\ ~InWindow(p, u) => Exact(out, s, u)
      BY <1>2, <2>2 DEF RunRight, CompletionsRight, s
    <3>2. Labelled(out, s, u) => Labelled(out', r, u)
      BY <1>2, <1>3, <1>5 DEF Labelled
    <3>3. Right(out', root, r, u)
      BY <1>3, <1>8, <1>9, <3>1, <3>2 DEF Right
    <3>4. Assigned(s, RootsOf(u)) => Assigned(r, RootsOf(u))
      BY <1>2 DEF Assigned
    <3>5. Exact(out, s, u) => Exact(out', r, u)
      BY <1>3, <1>5, <1>8, <3>2, <3>4 DEF Exact
    <3> QED BY <3>1, <3>3, <3>5
  <2> QED BY <2>1, <2>2 DEF CompletionsRight, r
<1>12. GivenSources(p)'
  <2>1. ASSUME NEW u \in Tasks, Prepared(p, u)', Stays(r, u, given'[p][u])
        PROVE  Sources(root, r, u, given'[p][u], got'[p][u], ReadBy(p, u)')
    <3>1. Prepared(p, u) /\ ReadBy(p, u)' = ReadBy(p, u)
      BY <2>1
    <3>2. Stays(s, u, given[p][u])
      BY <1>2, <1>7, <2>1 DEF Stays
    <3>3. Sources(root, s, u, given[p][u], got[p][u], ReadBy(p, u))
      BY <3>1, <3>2 DEF RunRight, GivenSources, s
    <3>4. Sources(root, r, u, given[p][u], got[p][u], ReadBy(p, u))
      BY <1>5, <1>8, <1>9, <3>3 DEF Sources
    <3> QED BY <3>1, <3>4
  <2>2. ASSUME NEW u \in Tasks, Served(p, u)' PROVE \A x \in Reads[u] : got'[p][u][x] # {}
    BY <2>2 DEF RunRight, GivenSources
  <2> QED BY <2>1, <2>2 DEF GivenSources, r
<1>13. QueueSteady(p)'
  <2> SUFFICES ASSUME NEW u \in queue[p], NEW d \in DependsOn(u)
               PROVE  /\ d \notin queue[p] /\ d \notin cur'[p] /\ phase'[p][d] \notin Launched
                      /\ Steady(r, d)
    BY DEF QueueSteady, r
  <2>1. d \in Tasks
    BY DEF DependsOn
  <2>2. d \notin queue[p] /\ d \notin cur[p] /\ phase[p][d] \notin Launched /\ Steady(s, d)
    BY DEF RunRight, QueueSteady, s
  <2>3. d # t
    BY <2>2 DEF Prepared
  <2>4. Steady(r, d)
    BY <1>2, <1>7, <2>1, <2>2, <2>3 DEF Steady, Assigned
  <2> QED BY <2>1, <2>2, <2>4
<1>14. NoneLate(p)'
  <2> SUFFICES ASSUME Listing(p)', NEW u \in Tasks, phase'[p][u] \in Launched \union {"applied"}
               PROVE  ~Late(r, u, got'[p][u])
    BY DEF NoneLate, r
  <2>1. ~Late(s, u, got[p][u])
    BY DEF RunRight, NoneLate, s
  <2> QED BY <1>2, <2>1 DEF Late
<1> QED BY <1>10, <1>11, <1>12, <1>13, <1>14 DEF RunRight

-----------------------------------------------------------------------------
(* The fixpoint: which runs keep it                                        *)

\* The launch pass prepares one task at a time, and a process that has not run
\* has nothing of a run.
Unused ==
  /\ \A p \in Procs : \A t, u \in cur[p] : t = u
  /\ \A p \in Procs : pc[p] = "idle" =>
       /\ queue[p] = {} /\ cur[p] = {}
       /\ \A t \in Tasks : given[p][t] = {} /\ got[p][t] = Nothing

\* What a step of p may do to what it prepares.
UnusedStep(p) ==
  /\ \A q \in Procs \ {p} :
       /\ pc'[q] = pc[q] /\ queue'[q] = queue[q] /\ cur'[q] = cur[q]
       /\ given'[q] = given[q] /\ got'[q] = got[q]
  /\ pc'[p] # "idle"
  /\ \A t, u \in cur'[p] : t = u

LEMMA UnusedKeeps ==
  ASSUME Unused, NEW p \in Procs, UnusedStep(p)
  PROVE  Unused'
<1>1. ASSUME NEW q \in Procs
      PROVE  /\ \A t, u \in cur'[q] : t = u
             /\ pc'[q] = "idle" =>
                  /\ queue'[q] = {} /\ cur'[q] = {}
                  /\ \A t \in Tasks : given'[q][t] = {} /\ got'[q][t] = Nothing
  <2>1. CASE q = p
    BY <2>1 DEF UnusedStep
  <2>2. CASE q \in Procs \ {p}
    BY <2>2 DEF UnusedStep, Unused
  <2> QED BY <2>1, <2>2
<1> QED BY <1>1 DEF Unused

LEMMA InitUnused == Init => Unused
BY DEF Init, Unused

LEMMA PassUnused ==
  ASSUME NEW p \in Procs, NEW ready, NEW sync, TypeOK, Unused, pc[p] \in {"top", "launch"},
         PrepareNext(p, ready, sync) \/ EndPass(p, ready, sync)
  PROVE  Unused'
<1> USE DEF vars, durable, pass, slots, flags
<1>1. CASE PrepareNext(p, ready, sync)
  BY <1>1, UnusedKeeps DEF UnusedStep, Unused, PrepareNext, LaunchCur, TypeOK
<1>2. CASE EndPass(p, ready, sync)
  BY <1>2, UnusedKeeps DEF UnusedStep, Unused, EndPass, LaunchCur, TypeOK
<1> QED BY <1>1, <1>2

LEMMA LoopUnused ==
  ASSUME TypeOK, Unused, NEW p \in Procs, Top(p) \/ Launch(p) \/ Race(p)
  PROVE  Unused'
<1>1. CASE Race(p)
  BY <1>1, UnusedKeeps DEF UnusedStep, Unused, Race, TypeOK, slots
<1>2. CASE pc' = [pc EXCEPT ![p] = "drain"] /\ UNCHANGED <<pass, slots>>
  BY <1>2, UnusedKeeps DEF UnusedStep, Unused, TypeOK, pass, slots
<1>3. CASE Top(p)
  BY <1>2, <1>3, PassUnused DEF Top
<1>4. CASE Launch(p)
  BY <1>4, PassUnused DEF Launch
<1> QED BY <1>1, <1>3, <1>4

LEMMA NextUnused ==
  ASSUME TypeOK, Ownership, Unused, [Next]_vars
  PROVE  Unused'
<1> USE DEF vars, durable, pass, slots, flags
<1>1. CASE UNCHANGED vars
  BY <1>1 DEF Unused
<1>2. CASE \E i \in Inputs, v \in Values : SetInput(i, v)
  BY <1>2 DEF Unused, SetInput
<1>3. ASSUME NEW p \in Procs, Start(p) \/ Resume(p) \/ Crash(p) \/ RequestCancel(p)
      PROVE  Unused'
  <2>1. CASE Start(p) \/ Resume(p)
    <3>1. PICK r, id : Begin(p, r, id)
      BY <2>1 DEF Start, Resume
    <3>2. pc[p] = "idle" /\ pc' = [pc EXCEPT ![p] = "top"] /\ UNCHANGED <<pass, slots>>
      BY <3>1 DEF Begin
    <3> QED BY <3>2, UnusedKeeps DEF UnusedStep, Unused, TypeOK
  <2>2. CASE Crash(p)
    BY <2>2, UnusedKeeps DEF UnusedStep, Unused, Crash, TypeOK
  <2>3. CASE RequestCancel(p)
    BY <2>3, UnusedKeeps DEF UnusedStep, Unused, RequestCancel, Active, Loop
  <2> QED BY <1>3, <2>1, <2>2, <2>3
<1>5. ASSUME NEW p \in Procs, Top(p) \/ Launch(p) \/ Race(p)
      PROVE  Unused'
  BY <1>5, LoopUnused
<1>6. ASSUME NEW p \in Procs, NEW t \in Tasks, NEW d \in Datasets, ReadInput(p, t, d)
      PROVE  Unused'
  <2>1. PICK l \in {"read", "wait", "hit", "start"} : pc' = [pc EXCEPT ![p] = l]
    BY <1>6, ReadInputTarget
  <2>2. /\ got' = [got EXCEPT ![p][t] = [got[p][t] EXCEPT ![d] = DatasetContent(d)]]
        /\ UNCHANGED <<queue, cur, given>>
    BY <1>6 DEF ReadInput
  <2> QED BY <2>1, <2>2, UnusedKeeps DEF UnusedStep, Unused, TypeOK
<1>7. ASSUME NEW p \in Procs, NEW t \in Tasks,
             LoopWaiting(p, t) \/ LoopStart(p, t) \/ LoopHit(p, t) \/ LoopDetect(p, t)
      PROVE  Unused'
  <2>1. ASSUME NEW sync, NEW started, NextLaunch(p, sync, started), started \in {{}, {t}},
               FreeSlot(p, t) \/ UNCHANGED slots
        PROVE  Unused'
    <3>1. UnusedStep(p)
      BY <2>1 DEF UnusedStep, Unused, NextLaunch, FreeSlot, TypeOK
    <3> QED BY <3>1, UnusedKeeps
  <2>2. CASE pc' = [pc EXCEPT ![p] = "applied"] /\ UNCHANGED <<pass, slots>>
    BY <2>2, UnusedKeeps DEF UnusedStep, Unused, TypeOK
  <2> QED BY <1>7, <2>1, <2>2 DEF LoopWaiting, LoopStart, LoopHit, LoopDetect
<1>8. ASSUME NEW p \in Procs, NEW t \in Tasks, Handler(p, t) \/ HandlerThrows(p, t)
      PROVE  Unused'
  <2>1. phase[p][t] # "none" /\ UNCHANGED <<pc, queue, cur>>
    BY <1>8 DEF Handler, HandlerThrows, RunnerFinish, HandlerApply, HandlerDetect, HandlerStopped,
       HandlerFailed, HandlerFailTask
  <2>2. pc[p] # "idle"
    BY <2>1 DEF Ownership, Active, Parted, Loop
  <2>3. FreeSlot(p, t) \/ UNCHANGED <<given, got>>
    BY <1>8 DEF Handler, HandlerThrows, RunnerFinish, HandlerApply, HandlerDetect, HandlerStopped,
       HandlerFailed, HandlerFailTask
  <2>4. UnusedStep(p)
    BY <2>1, <2>2, <2>3 DEF UnusedStep, Unused, FreeSlot, TypeOK
  <2> QED BY <2>4, UnusedKeeps
<1>9. ASSUME NEW p \in Procs,
             \/ YieldCheckpoint(p) \/ EndCancelled(p) \/ DrainCancelled(p) \/ DrainStuck(p)
             \/ DrainFinalize(p) \/ EndFailed(p) \/ LoopThrows(p) \/ LetGo(p) \/ Forget(p)
      PROVE  Unused'
  <2>1. CASE EndCancelled(p)
    BY <2>1, UnusedKeeps DEF UnusedStep, Unused, EndCancelled, CancelDue
  <2>2. CASE LoopThrows(p)
    BY <2>2, UnusedKeeps DEF UnusedStep, Unused, LoopThrows, FreeSlot, TypeOK
  <2>3. ASSUME NEW l \in PC \ {"idle"}, pc' = [pc EXCEPT ![p] = l], UNCHANGED <<queue, cur, given, got>>
        PROVE  Unused'
    <3>1. UnusedStep(p)
      BY <2>3 DEF UnusedStep, Unused, TypeOK
    <3> QED BY <3>1, UnusedKeeps
  <2>4. {"leaving", "yielded", "drain", "cancelled", "throwing", "finished", "failed"}
          \subseteq PC \ {"idle"}
    BY DEF PC, Loop, Ended
  <2>5. CASE YieldCheckpoint(p) \/ Forget(p)
    BY <2>3, <2>4, <2>5 DEF YieldCheckpoint, Forget
  <2>6. CASE DrainCancelled(p) \/ DrainStuck(p) \/ DrainFinalize(p) \/ EndFailed(p)
    BY <2>3, <2>4, <2>6 DEF DrainCancelled, DrainStuck, DrainFinalize, EndFailed, Leave
  <2>7. CASE LetGo(p)
    BY <2>7, UnusedKeeps DEF UnusedStep, Unused, LetGo
  <2> QED BY <1>9, <2>1, <2>2, <2>5, <2>6, <2>7
<1> QED BY <1>1, <1>2, <1>3, <1>5, <1>6, <1>7, <1>8, <1>9 DEF Next, LoopStep

\* The loop turns, with nothing prepared.
LEMMA TurnRight ==
  ASSUME TypeOK, NEW p \in Procs, RunRight(p),
         \/ Race(p) \/ DrainStuck(p)
         \/ /\ pc[p] = "top" /\ InFlight(p) = {} /\ pc' = [pc EXCEPT ![p] = "drain"]
            /\ UNCHANGED <<durable, st, pass, slots, flags>>
  PROVE  RunRight(p)'
<1>1. /\ UNCHANGED <<root, out, st, given, got, queue, cur, phase>>
      /\ failure' = failure
      /\ pc[p] \in {"top", "race", "drain"} /\ pc'[p] \in {"top", "drain", "throwing"}
      /\ pc'[p] = "top" => ~(watch[p] \subseteq InFlight(p)) /\ pc[p] = "race"
      /\ pc'[p] # "top" => InFlight(p) = {}
  BY DEF Race, DrainStuck, TypeOK, durable, slots, flags, pass
<1>2. Alike(st[p], st'[p])
  BY <1>1 DEF Alike
<1>3. \A t \in Tasks : InWindow(p, t) => InWindow(p, t)'
  BY <1>1 DEF InWindow
<1>4. ASSUME NEW t \in Tasks, Prepared(p, t)'
      PROVE  /\ Prepared(p, t) /\ given'[p][t] = given[p][t]
             /\ \A r \in ReadBy(p, t)' : r \in ReadBy(p, t) /\ got'[p][t][r] = got[p][t][r]
  BY <1>1, <1>4 DEF Prepared, Preparing, ReadBy
<1>5. \A t \in Tasks : Served(p, t)' => Served(p, t) /\ got'[p][t] = got[p][t]
  BY <1>1 DEF Served
<1>6. Listing(p)' => Listing(p)
  BY <1>1 DEF Listing
<1>7. NoneStopped(p)'
  <2>1. InFlight(p) = {} /\ pc'[p] # "launch" => InFlight(p)' = {}
    BY <1>1 DEF InFlight
  <2> QED BY <1>1, <2>1 DEF RunRight, NoneStopped
<1> QED BY <1>1, <1>2, <1>3, <1>4, <1>5, <1>6, <1>7, StillRight

\* What the loop finds completed as it takes a new ready list was computed
\* from assigned root inputs.
LEMMA ListedAssigned ==
  ASSUME TypeOK, NEW p \in Procs, NEW d \in Tasks, SlotsOf(p), RunRight(p), Listing(p), pc[p] = "top",
         st[p].task[d] = "completed"
  PROVE  Steady(st[p], d)
<1>1. Right(out, root, st[p], d) /\ (~InWindow(p, d) => Exact(out, st[p], d))
  BY DEF RunRight, CompletionsRight
<1>2. CASE ~InWindow(p, d)
  BY <1>1, <1>2 DEF Exact, Steady
<1>3. CASE InWindow(p, d)
  <2>1. phase[p][d] = "applied"
    BY <1>3 DEF InWindow
  <2>2. ~Late(st[p], d, got[p][d]) /\ \A r \in Reads[d] : got[p][d][r] # {}
    BY <2>1 DEF RunRight, NoneLate, GivenSources, Served
  <2>3. \A i \in Reads[d] \cap Inputs : st[p].snapshot[i] # Unassigned
    BY <2>2 DEF Late
  <2>4. \A e \in DependsOn(d) : Assigned(st[p], RootsOf(e))
    BY <1>1 DEF Right, Backed
  <2>5. ASSUME NEW i \in RootsOf(d) PROVE st[p].snapshot[i] # Unassigned
    <3>1. PICK r \in Reads[d] : i \in Roots(r)
      BY RootsFromReads
    <3>2. CASE r \in Inputs
      BY <2>3, <3>1, <3>2 DEF Roots
    <3>3. CASE r \notin Inputs
      <4>1. r \in DependsOn(d)
        BY <3>3, GraphAssumption DEF DependsOn, Datasets
      <4> QED BY <2>4, <3>1, <3>3, <4>1 DEF Roots, Assigned
    <3> QED BY <3>2, <3>3
  <2> QED BY <2>5 DEF Steady, Assigned
<1> QED BY <1>2, <1>3

\* What a task is launched with, when the tasks it reads are steady.
LEMMA LaunchedSources ==
  ASSUME NEW p \in Procs, NEW t \in Tasks, NEW g, TypeOK, RunRight(p),
         \A d \in DependsOn(t) : Steady(st[p], d),
         Stays(st[p], t, MergedVV(st[p], t))
  PROVE  Sources(root, st[p], t, MergedVV(st[p], t), g, {})
<1>1. ASSUME NEW d \in DependsOn(t)
      PROVE  /\ st[p].task[d] = "completed" /\ Assigned(st[p], RootsOf(d))
             /\ st[p].vv[d] = SnapshotOf(st[p], d)
  <2>1. d \in Tasks
    BY DEF DependsOn
  <2>2. ~Outdated(st[p], st[p].vv[d])
    BY MergedAt DEF Stays, Outdated
  <2>3. st[p].task[d] = "completed" /\ Assigned(st[p], RootsOf(d))
    BY <2>2 DEF Steady
  <2> QED BY <2>1, <2>3 DEF RunRight, CompletionsRight, Right, Labelled
<1>2. MergedVV(st[p], t) = SnapshotOf(st[p], t)
  BY <1>1, MergedSnapshot
<1> QED BY <1>1, <1>2 DEF Sources, Backed

\* The launch pass prepares a task of its list, or ends.
LEMMA PassRight ==
  ASSUME NEW p \in Procs, NEW ready \in SUBSET Tasks, NEW sync,
         TypeOK, SlotsOf(p), RunRight(p), ~aborted[p],
         PrepareNext(p, ready, sync) \/ EndPass(p, ready, sync),
         \/ pc[p] = "top" /\ ready = GetReady(st[p])
         \/ pc[p] = "launch" /\ ready = queue[p]
  PROVE  RunRight(p)'
<1>1. /\ root' = root /\ out' = out /\ got' = got /\ failure' = failure
      /\ \A t \in Tasks : phase'[p][t] = IF t \in cur[p] THEN "running" ELSE phase[p][t]
      /\ \E ts : st'[p] = Deferred(p, ts)
  BY DEF PrepareNext, EndPass, LaunchCur, durable, flags, TypeOK
<1>2. Alike(st[p], st'[p])
  BY <1>1, AlikeDeferred DEF TypeOK
<1>3. /\ \A t \in cur[p] : phase[p][t] = "none" /\ st[p].task[t] # "completed"
      /\ pc[p] = "top" => cur[p] = {}
      /\ cur[p] \subseteq Tasks
  BY DEF SlotsOf, InHand, Preparing, TypeOK
<1>4. \A t \in Tasks : InWindow(p, t) => InWindow(p, t)'
  BY <1>1, <1>3 DEF InWindow
<1>5. "running" \in Launched /\ "none" \notin Launched \union {"applied"}
  BY DEF Launched
<1>6. ASSUME NEW t \in Tasks, phase'[p][t] \in Launched
      PROVE  Prepared(p, t) /\ ReadBy(p, t) = Reads[t]
  <2>1. t \in cur[p] => pc[p] = "launch"
    BY <1>3
  <2>2. phase[p][t] \in Launched \/ t \in cur[p]
    BY <1>1, <1>6
  <2>3. Prepared(p, t)
    BY <2>1, <2>2 DEF Prepared
  <2>4. ~(t \in cur[p] /\ pc[p] = "read")
    BY <2>1
  <2> QED BY <2>3, <2>4 DEF ReadBy
<1>7. ASSUME NEW t \in Tasks, phase'[p][t] \in Launched \union {"applied"} PROVE Served(p, t)
  BY <1>1, <1>3, <1>7 DEF Served
<1>8. ASSUME NEW t \in ready, NEW d \in DependsOn(t), ~failure[p]
      PROVE  /\ d \notin ready /\ d \notin cur[p] /\ phase[p][d] \notin Launched
             /\ Steady(st[p], d)
  <2>1. d \in Tasks
    BY DEF DependsOn
  <2>2. CASE pc[p] = "top" /\ ready = GetReady(st[p])
    <3>1. st[p].task[d] = "completed"
      BY <1>8, <2>2 DEF GetReady, GetReadyTasks, TasksIn
    <3>2. Listing(p)
      BY <1>8, <2>2, Zenon DEF Listing
    <3>3. d \notin ready /\ phase[p][d] \notin Launched
      BY <2>1, <2>2, <3>1 DEF GetReady, SlotsOf, NotYetDone
    <3> QED BY <1>3, <2>1, <2>2, <3>1, <3>2, <3>3, ListedAssigned
  <2>3. CASE pc[p] = "launch" /\ ready = queue[p]
    BY <1>8, <2>3 DEF RunRight, QueueSteady
  <2> QED BY <2>2, <2>3
<1>9. CASE PrepareNext(p, ready, sync)
  <2>1. PICK t \in ready : \E before \in SUBSET (ready \ {t}) :
          /\ Launchable(p, t)
          /\ queue' = [queue EXCEPT ![p] = ready \ (before \union {t})]
          /\ cur' = [cur EXCEPT ![p] = {t}]
          /\ left' = [left EXCEPT ![p] = Reads[t]]
          /\ given' = [given EXCEPT ![p][t] = MergedVV(st[p], t)]
    BY <1>9 DEF PrepareNext
  <2>2. /\ Launchable(p, t) /\ queue'[p] \subseteq ready
        /\ cur'[p] = {t} /\ left'[p] = Reads[t] /\ pc'[p] = "read" /\ ~failure[p]
        /\ given'[p][t] = MergedVV(st[p], t)
        /\ \A u \in Tasks \ {t} : given'[p][u] = given[p][u]
    BY <1>9, <2>1 DEF PrepareNext, MayLaunch, TypeOK
  <2>3. phase'[p][t] = "none"
    BY <1>1, <1>3, <2>2 DEF Launchable, Skipped, InFlight
  <2>4. \A u \in Tasks : given'[p][u] \in {given[p][u], {}, MergedVV(st[p], u)}
    BY <2>2
  <2>5. ASSUME NEW u \in Tasks, Prepared(p, u)'
        PROVE  \/ /\ Prepared(p, u) /\ given'[p][u] = given[p][u]
                  /\ \A r \in ReadBy(p, u)' : r \in ReadBy(p, u) /\ got'[p][u][r] = got[p][u][r]
               \/ Stays(st[p], u, given'[p][u]) =>
                    Sources(root, st[p], u, given'[p][u], got'[p][u], ReadBy(p, u)')
    <3>1. CASE u = t
      <4>1. ReadBy(p, t)' = {}
        BY <2>2 DEF ReadBy
      <4>2. \A d \in DependsOn(t) : Steady(st[p], d)
        BY <1>8, <2>2
      <4> QED BY <2>2, <3>1, <4>1, <4>2, LaunchedSources
    <3>2. CASE u # t
      <4>1. phase'[p][u] \in Launched
        BY <2>2, <2>5, <3>2 DEF Prepared
      <4>2. ReadBy(p, u)' = Reads[u]
        BY <2>2, <3>2 DEF ReadBy
      <4> QED BY <1>1, <1>6, <2>2, <3>2, <4>1, <4>2
    <3> QED BY <3>1, <3>2
  <2>6. ASSUME NEW u \in Tasks, Served(p, u)' PROVE Served(p, u) /\ got'[p][u] = got[p][u]
    BY <1>1, <1>7, <2>2, <2>6 DEF Served
  <2>7. \A u \in queue'[p] : \A d \in DependsOn(u) :
          d \notin queue'[p] /\ d \notin cur'[p] /\ phase'[p][d] \notin Launched
          /\ Steady(st[p], d)
    <3> SUFFICES ASSUME NEW u \in queue'[p], NEW d \in DependsOn(u)
                 PROVE  /\ d \notin queue'[p] /\ d \notin cur'[p] /\ phase'[p][d] \notin Launched
                        /\ Steady(st[p], d)
      OBVIOUS
    <3>1. d \notin ready /\ d \notin cur[p] /\ phase[p][d] \notin Launched /\ Steady(st[p], d)
      BY <1>8, <2>2
    <3>2. d \in Tasks
      BY DEF DependsOn
    <3> QED BY <1>1, <2>2, <3>1, <3>2
  <2>8. ~Listing(p)' /\ NoneStopped(p)'
    BY <1>1, <2>2 DEF Listing, NoneStopped, RunRight
  <2> QED BY <1>1, <1>2, <1>4, <2>4, <2>5, <2>6, <2>7, <2>8, StillRight
<1>10. CASE EndPass(p, ready, sync)
  <2>1. /\ cur'[p] = {} /\ queue'[p] = {} /\ given' = given
        /\ pc'[p] \in {"yield", "race", "drain", "top"}
        /\ pc'[p] = "race" => watch'[p] = InFlight(p)
        /\ pc'[p] \in {"drain", "top"} => InFlight(p) = {}
    BY <1>10 DEF EndPass, TypeOK
  <2>2. InFlight(p)' = InFlight(p)
    BY <1>1, <1>3, <2>1, <1>10 DEF InFlight, EndPass
  <2>3. ASSUME NEW u \in Tasks, Prepared(p, u)'
        PROVE  /\ Prepared(p, u) /\ given'[p][u] = given[p][u]
               /\ \A r \in ReadBy(p, u)' : r \in ReadBy(p, u) /\ got'[p][u][r] = got[p][u][r]
    <3>1. phase'[p][u] \in Launched /\ ReadBy(p, u)' = Reads[u]
      BY <2>1, <2>3 DEF Prepared, ReadBy
    <3> QED BY <1>1, <1>6, <2>1, <3>1
  <2>4. ASSUME NEW u \in Tasks, Served(p, u)' PROVE Served(p, u) /\ got'[p][u] = got[p][u]
    BY <1>1, <1>7, <2>1, <2>4 DEF Served
  <2>5. Listing(p)' => \A u \in Tasks : phase'[p][u] = "none"
    <3>1. pc'[p] = "race" => ~Listing(p)'
      BY <2>1, <2>2 DEF Listing
    <3>2. InFlight(p)' = {} => \A u \in Tasks : phase'[p][u] = "none"
      BY DEF InFlight
    <3> QED BY <2>1, <2>2, <3>1, <3>2 DEF Listing
  <2>6. NoneStopped(p)'
    BY <1>1, <2>1, <2>2 DEF NoneStopped, RunRight
  <2> QED BY <1>1, <1>2, <1>4, <2>1, <2>3, <2>4, <2>5, <2>6, StillRight
<1> QED BY <1>9, <1>10

\* A read of an input of the task the pass prepares.
LEMMA ReadRight ==
  ASSUME NEW p \in Procs, NEW t \in Tasks, NEW d \in Datasets,
         TypeOK, Unused, SlotsOf(p), RunRight(p), ReadInput(p, t, d)
  PROVE  RunRight(p)'
<1> DEFINE read == [got[p][t] EXCEPT ![d] = DatasetContent(d)]
<1>1. PICK l \in {"read", "wait", "hit", "start"} : pc' = [pc EXCEPT ![p] = l]
  BY ReadInputTarget
<1>2. /\ UNCHANGED <<root, out, st, given, queue, cur, phase, failure>>
      /\ pc[p] = "read" /\ t \in cur[p] /\ d \in left[p]
      /\ got' = [got EXCEPT ![p][t] = read]
      /\ left' = [left EXCEPT ![p] = @ \ {d}]
  BY DEF ReadInput, durable, flags
<1>3. /\ pc'[p] = l /\ left'[p] = left[p] \ {d} /\ got'[p][t] = read
      /\ \A u \in Tasks \ {t} : got'[p][u] = got[p][u]
      /\ \A r \in Datasets : read[r] = IF r = d THEN DatasetContent(d) ELSE got[p][t][r]
  <2>1. got[p][t] \in [Datasets -> Content]
    BY DEF TypeOK
  <2>2. \A r \in Datasets : read[r] = IF r = d THEN DatasetContent(d) ELSE got[p][t][r]
    BY <2>1
  <2> HIDE DEF read
  <2>3. /\ pc'[p] = l /\ left'[p] = left[p] \ {d} /\ got'[p][t] = read
        /\ \A u \in Tasks \ {t} : got'[p][u] = got[p][u]
    BY <1>1, <1>2 DEF TypeOK
  <2> QED BY <2>2, <2>3
<1>4. cur[p] = {t} /\ phase[p][t] = "none"
  BY <1>2 DEF Unused, SlotsOf, InHand
<1>5. /\ l # "read" => left[p] = {d}
      /\ l \in {"hit", "start"} => \A r \in Reads[t] : read[r] # {}
  <2>1. pc'[p] = CASE left[p] # {d} -> "read"
                   [] left[p] = {d} /\ \E r \in Reads[t] : read[r] = {} -> "wait"
                   [] left[p] = {d} /\ \A r \in Reads[t] : read[r] # {} ->
                        IF /\ t \notin Forced
                           /\ <<t, read>> \in cache
                           /\ out[t].content = Output(t, read)
                        THEN "hit" ELSE "start"
    BY DEF ReadInput, TypeOK
  <2> HIDE DEF read
  <2>2. CASE left[p] # {d}
    BY <1>3, <2>1, <2>2
  <2>3. CASE left[p] = {d} /\ \E r \in Reads[t] : read[r] = {}
    <3>1. pc'[p] = "wait"
      BY <2>1, <2>3
    <3> QED BY <1>3, <2>3, <3>1
  <2>4. CASE left[p] = {d} /\ \A r \in Reads[t] : read[r] # {}
    BY <2>4
  <2> QED BY <2>2, <2>3, <2>4
<1> HIDE DEF read
<1>6. Alike(st[p], st'[p])
  BY <1>2 DEF Alike
<1>7. \A u \in Tasks : InWindow(p, u) => InWindow(p, u)'
  BY <1>2 DEF InWindow
<1>8. ASSUME NEW u \in Tasks, NEW i \in Inputs
      PROVE  got'[p][u][i] \in {got[p][u][i], {}, VersionOf(i, root[i])}
  BY <1>3 DEF Datasets, DatasetContent
<1>9. "none" \notin Launched \union {"applied"}
  BY DEF Launched
<1>10. ASSUME NEW u \in Tasks, Prepared(p, u)'
       PROVE  \/ /\ Prepared(p, u) /\ given'[p][u] = given[p][u]
                 /\ \A r \in ReadBy(p, u)' : r \in ReadBy(p, u) /\ got'[p][u][r] = got[p][u][r]
              \/ Stays(st[p], u, given'[p][u]) =>
                   Sources(root, st[p], u, given'[p][u], got'[p][u], ReadBy(p, u)')
  <2>1. CASE u # t
    <3>1. phase[p][u] \in Launched
      BY <1>2, <1>4, <1>10, <2>1 DEF Prepared
    <3>2. ReadBy(p, u)' = Reads[u] /\ ReadBy(p, u) = Reads[u]
      BY <1>2, <1>4, <2>1 DEF ReadBy
    <3> QED BY <1>2, <1>3, <2>1, <3>1, <3>2 DEF Prepared
  <2>2. CASE u = t
    <3> SUFFICES ASSUME Stays(st[p], t, given[p][t])
                 PROVE  Sources(root, st[p], t, given[p][t], got'[p][t], ReadBy(p, t)')
      BY <1>2, <2>2
    <3>1. Prepared(p, t) /\ ReadBy(p, t) = Reads[t] \ left[p]
      BY <1>2 DEF Prepared, Preparing, ReadBy
    <3>2. Sources(root, st[p], t, given[p][t], got[p][t], Reads[t] \ left[p])
      BY <3>1 DEF RunRight, GivenSources
    <3>3. ReadBy(p, t)' \subseteq Reads[t] \ (left[p] \ {d})
      BY <1>2, <1>3, <1>5 DEF ReadBy
    <3>4. ASSUME NEW r \in Reads[t] \ (left[p] \ {d})
          PROVE  got'[p][t][r] = {} \/ Spans(root, st[p], r, got'[p][t][r])
      <4>1. r \in Datasets
        BY GraphAssumption
      <4>2. CASE r # d
        BY <1>3, <3>2, <4>1, <4>2 DEF Sources
      <4>3. CASE r = d /\ d \in Inputs
        <5>1. got'[p][t][r] = VersionOf(d, root[d])
          BY <1>3, <4>1, <4>3 DEF DatasetContent
        <5>2. st[p].snapshot[d] <= root[d] /\ root[d] <= root[d] /\ Roots(d) = {d}
          <6>1. st[p].snapshot[d] <= root[d] /\ Roots(d) = {d}
            BY <4>3 DEF RunRight, NoneNewer, Versioned, Roots
          <6>2. root[d] \in Int
            BY <4>3, InputValues DEF TypeOK
          <6> QED BY <6>1, <6>2
        <5>3. CASE root[d] = Unassigned
          BY <5>1, <5>3 DEF VersionOf
        <5>4. CASE root[d] # Unassigned
          <6>1. got'[p][t][r] = {<<d, root[d]>>}
            BY <5>1, <5>4 DEF VersionOf
          <6> QED BY <4>3, <5>2, <6>1 DEF Spans
        <5> QED BY <5>3, <5>4
      <4>4. CASE r = d /\ d \notin Inputs
        <5>1. d \in DependsOn(t) /\ d \in Tasks
          BY <4>4 DEF DependsOn, Datasets
        <5>2. Spans(root, st[p], d, out[d].content)
          BY <3>2, <5>1 DEF Sources, Backed, RunRight, CompletionsRight, Right
        <5>3. got'[p][t][r] = out[d].content
          BY <1>3, <4>1, <4>4 DEF DatasetContent
        <5> QED BY <4>4, <5>2, <5>3
      <4> QED BY <4>2, <4>3, <4>4
    <3> QED BY <3>2, <3>3, <3>4 DEF Sources
  <2> QED BY <2>1, <2>2
<1>11. ASSUME NEW u \in Tasks, Served(p, u)'
       PROVE  \/ Served(p, u) /\ got'[p][u] = got[p][u]
              \/ \A r \in Reads[u] : got'[p][u][r] # {}
  BY <1>2, <1>3, <1>4, <1>5, <1>9, <1>11 DEF Served
<1>12. ~Listing(p)' /\ NoneStopped(p)'
  BY <1>2, <1>3 DEF Listing, NoneStopped, RunRight
<1> QED BY <1>2, <1>6, <1>7, <1>8, <1>10, <1>11, <1>12, StillRight

LEMMA FreedSlot ==
  ASSUME TypeOK, NEW p \in Procs, NEW t \in Tasks, FreeSlot(p, t)
  PROVE  /\ phase'[p][t] = "none" /\ given'[p][t] = {} /\ got'[p][t] = Nothing
         /\ \A u \in Tasks \ {t} :
              phase'[p][u] = phase[p][u] /\ given'[p][u] = given[p][u] /\ got'[p][u] = got[p][u]
         /\ \A i \in Datasets : Nothing[i] = {}
BY DEF FreeSlot, TypeOK, Nothing

\* The pass goes on, its task waiting, sent back, or started.
LEMMA NextRight ==
  ASSUME NEW p \in Procs, NEW t \in Tasks, NEW sync, NEW started,
         TypeOK, Unused, SlotsOf(p), RunRight(p),
         t \in cur[p], pc[p] \in {"wait", "start", "hit"}, out' = out, Alike(st[p], st'[p]),
         NextLaunch(p, sync, started),
         \/ started = {} /\ FreeSlot(p, t)
         \/ started = {t} /\ pc[p] = "start" /\ UNCHANGED slots
  PROVE  RunRight(p)'
<1>1. /\ cur[p] = {t} /\ phase[p][t] = "none"
  BY DEF Unused, SlotsOf, InHand
<1>2. /\ root' = root /\ queue' = queue /\ pc'[p] = "launch" /\ cur'[p] = started
      /\ started \in {{}, {t}}
  BY DEF NextLaunch, TypeOK
<1>3. /\ \A u \in Tasks : phase'[p][u] = phase[p][u]
      /\ \A u \in Tasks \ {t} : given'[p][u] = given[p][u] /\ got'[p][u] = got[p][u]
      /\ given'[p][t] \in {given[p][t], {}} /\ got'[p][t] \in {got[p][t], Nothing}
      /\ started = {t} => given'[p][t] = given[p][t] /\ got'[p][t] = got[p][t] /\ pc[p] = "start"
      /\ \A i \in Datasets : Nothing[i] = {}
  <2>1. CASE FreeSlot(p, t) /\ started = {}
    BY <1>1, <2>1, FreedSlot
  <2>2. CASE started = {t} /\ UNCHANGED slots /\ pc[p] = "start"
    BY <2>2 DEF slots, Nothing
  <2> QED BY <2>1, <2>2
<1>4. \A u \in Tasks : InWindow(p, u) => InWindow(p, u)'
  BY <1>3 DEF InWindow
<1>5. \A u \in Tasks : given'[p][u] \in {given[p][u], {}, MergedVV(st[p], u)}
  BY <1>3
<1>6. \A u \in Tasks : \A i \in Inputs : got'[p][u][i] \in {got[p][u][i], {}, VersionOf(i, root[i])}
  BY <1>3 DEF Datasets
<1>7. "none" \notin Launched \union {"applied"}
  BY DEF Launched
<1>8. ASSUME NEW u \in Tasks, Prepared(p, u)'
      PROVE  /\ Prepared(p, u) /\ given'[p][u] = given[p][u]
             /\ \A r \in ReadBy(p, u)' : r \in ReadBy(p, u) /\ got'[p][u][r] = got[p][u][r]
  <2>1. ReadBy(p, u)' = Reads[u] /\ ReadBy(p, u) = Reads[u]
    BY <1>2 DEF ReadBy
  <2>2. CASE u # t
    BY <1>1, <1>2, <1>3, <1>8, <2>1, <2>2 DEF Prepared
  <2>3. CASE u = t
    <3>1. started = {t}
      BY <1>1, <1>2, <1>3, <1>7, <1>8, <2>3 DEF Prepared
    <3> QED BY <1>1, <1>3, <2>1, <2>3, <3>1 DEF Prepared, Preparing
  <2> QED BY <2>2, <2>3
<1>9. ASSUME NEW u \in Tasks, Served(p, u)'
      PROVE  Served(p, u) /\ got'[p][u] = got[p][u]
  <2>1. CASE u # t
    BY <1>1, <1>2, <1>3, <1>9, <2>1 DEF Served
  <2>2. CASE u = t
    <3>1. started = {t}
      BY <1>1, <1>2, <1>3, <1>7, <1>9, <2>2 DEF Served
    <3> QED BY <1>1, <1>3, <2>2, <3>1 DEF Served
  <2> QED BY <2>1, <2>2
<1>10. ~Listing(p)' /\ NoneStopped(p)'
  BY <1>2, <1>3 DEF Listing, NoneStopped, RunRight
<1>11. queue'[p] \subseteq queue[p] /\ cur'[p] \subseteq cur[p] \union queue[p]
  BY <1>1, <1>2
<1> QED BY <1>2, <1>3, <1>4, <1>5, <1>6, <1>8, <1>9, <1>10, <1>11, StillRight

\* What is claimed of the outputs by a state that nobody is applying to.
Claims(o, ro, s) ==
  /\ Versioned(ro, s)
  /\ \A t \in Tasks : s.task[t] = "completed" => Exact(o, s, t)
Settles(p) == store' = store \/ Claims(out', root', store'.s)

LEMMA MutexClaims ==
  ASSUME NEW p \in Procs, RunRight(p), \A t \in Tasks : ~InWindow(p, t)
  PROVE  Claims(out, root, st[p])
BY DEF Claims, RunRight, NoneNewer, CompletionsRight

LEMMA PersistSettles ==
  ASSUME NEW p \in Procs, NEW s, Persist(p, s), Claims(out', root', s), TypeOK
  PROVE  Settles(p)
<1>1. store' = store \/ store' = [store EXCEPT !.s = s]
  BY DEF Persist, Write
<1>2. store' = [store EXCEPT !.s = s] => store'.s = s
  BY DEF TypeOK
<1> QED BY <1>1, <1>2 DEF Settles

\* After a step that persists the state it leaves, the mutex being free.
LEMMA FreeSettles ==
  ASSUME NEW p \in Procs, NEW s, TypeOK, Persist(p, s), st'[p] = s, RunRight(p)',
         \A t \in Tasks : ~InWindow(p, t)'
  PROVE  Settles(p)
<1>1. Claims(out', root', st'[p])
  BY DEF Claims, RunRight, NoneNewer, CompletionsRight
<1> QED BY <1>1, PersistSettles

\* The changes a loop makes of its run.
LEMMA LoopTaskRight ==
  ASSUME NEW p \in Procs, NEW t \in Tasks, TypeOK, Unused, SlotsOf(p), RunRight(p),
         LoopWaiting(p, t) \/ LoopStart(p, t) \/ LoopHit(p, t) \/ LoopDetect(p, t)
  PROVE  RunRight(p)' /\ Settles(p)
<1>1. st[p] \in ExecutionState
  BY DEF TypeOK
<1>2. ASSUME NEW r, st' = [st EXCEPT ![p] = r] PROVE st'[p] = r
  BY <1>2 DEF TypeOK
<1>3. ASSUME t \in cur[p], pc[p] \in {"wait", "start", "hit"}
      PROVE  st[p].task[t] # "completed"
  BY <1>3 DEF SlotsOf, InHand, Preparing
<1>4. CASE LoopWaiting(p, t)
  <2>1. /\ t \in cur[p] /\ pc[p] = "wait" /\ MutexFree(p) /\ FreeSlot(p, t)
        /\ NextLaunch(p, TRUE, {}) /\ out' = out
        /\ st'[p] = TasksWaiting(st[p], t) /\ Persist(p, TasksWaiting(st[p], t))
    BY <1>4 DEF LoopWaiting, TypeOK
  <2>2. Alike(st[p], st'[p])
    BY <1>1, <1>3, <2>1, AlikeSteps
  <2>3. RunRight(p)'
    BY <2>1, <2>2, NextRight
  <2>4. \A u \in Tasks : ~InWindow(p, u)'
    <3>1. pc'[p] = "launch" /\ \A u \in Tasks : phase'[p][u] # "applied"
      <4>1. pc'[p] = "launch" /\ \A u \in Tasks : phase[p][u] # "applied"
        BY <2>1 DEF NextLaunch, TypeOK, MutexFree
      <4>2. \A u \in Tasks : phase'[p][u] \in {phase[p][u], "none"}
        BY <2>1, FreedSlot
      <4> QED BY <4>1, <4>2
    <3> QED BY <3>1 DEF InWindow
  <2> QED BY <2>1, <2>3, <2>4, FreeSettles
<1>5. CASE LoopStart(p, t)
  <2>1. /\ t \in cur[p] /\ pc[p] = "start" /\ MutexFree(p) /\ UNCHANGED slots
        /\ NextLaunch(p, synced[p], {t}) /\ out' = out
        /\ st'[p] = TaskStarted(st[p], t) /\ Persist(p, TaskStarted(st[p], t))
    BY <1>5 DEF LoopStart, TypeOK
  <2>2. Alike(st[p], st'[p])
    BY <1>1, <1>3, <2>1, AlikeSteps
  <2>3. RunRight(p)'
    BY <2>1, <2>2, NextRight
  <2>4. \A u \in Tasks : ~InWindow(p, u)'
    <3>1. pc'[p] = "launch" /\ \A u \in Tasks : phase'[p][u] # "applied"
      BY <2>1 DEF NextLaunch, TypeOK, MutexFree, slots
    <3> QED BY <3>1 DEF InWindow
  <2> QED BY <2>1, <2>3, <2>4, FreeSettles
<1>6. CASE LoopHit(p, t) /\ ResultStale(st[p], t, given[p][t])
  <2>1. /\ t \in cur[p] /\ pc[p] = "hit" /\ FreeSlot(p, t)
        /\ NextLaunch(p, TRUE, {}) /\ out' = out /\ store' = store
        /\ st'[p] = SetTasks(st[p], {t}, "pending")
    BY <1>6 DEF LoopHit, BackToPending, TypeOK
  <2>2. Alike(st[p], st'[p])
    BY <1>1, <1>3, <2>1, AlikeSteps
  <2> QED BY <2>1, <2>2, NextRight DEF Settles
<1>7. CASE LoopHit(p, t) /\ ~ResultStale(st[p], t, given[p][t])
  <2>1. /\ t \in cur[p] /\ pc[p] = "hit" /\ Apply(p, t, TRUE) /\ pc'[p] = "applied"
        /\ UNCHANGED <<root, queue, cur, phase, given, got>> /\ store' = store
    BY <1>7 DEF LoopHit, TypeOK, pass, slots
  <2>2. Prepared(p, t) /\ Served(p, t) /\ ReadBy(p, t) = Reads[t] /\ InWindow(p, t)'
    BY <2>1 DEF Prepared, Served, ReadBy, InWindow, Preparing
  <2>3. \A u \in Tasks : InWindow(p, u) => InWindow(p, u)'
    BY <2>1 DEF InWindow
  <2>4. ASSUME NEW u \in Tasks, Prepared(p, u)' PROVE Prepared(p, u) /\ ReadBy(p, u)' = ReadBy(p, u)
    BY <2>1, <2>4 DEF Prepared, ReadBy, Preparing
  <2>5. ASSUME NEW u \in Tasks, Served(p, u)' PROVE Served(p, u)
    BY <2>1, <2>5 DEF Served
  <2>6. ~Listing(p)' /\ NoneStopped(p)'
    BY <2>1 DEF Listing, NoneStopped, RunRight
  <2>7. RunRight(p)'
    BY <1>3, <1>7, <2>1, <2>2, <2>3, <2>4, <2>5, <2>6, ApplyRight
  <2> QED BY <2>1, <2>7 DEF Settles
<1>8. CASE LoopDetect(p, t)
  <2>1. /\ t \in cur[p] /\ pc[p] = "applied" /\ Detect(p) /\ FreeSlot(p, t)
        /\ NextLaunch(p, TRUE, {}) /\ out' = out
    BY <1>8 DEF LoopDetect
  <2>2. PICK r \in ExecutionState :
          st' = [st EXCEPT ![p] = r] /\ Persist(p, r) /\ Detected(root, st[p], r)
    BY <2>1, DetectDetects DEF RunRight, NoneNewer
  <2>3. /\ root' = root /\ queue' = queue /\ pc'[p] = "launch" /\ cur'[p] = {}
    BY <2>1 DEF NextLaunch, TypeOK
  <2>4. "none" \notin Launched \union {"applied"}
    BY DEF Launched
  <2>5. /\ \A u \in Tasks : given'[p][u] \in {given[p][u], {}} /\ got'[p][u] \in {got[p][u], Nothing}
        /\ \A u \in Tasks : phase'[p][u] \in Launched \union {"applied"} =>
             /\ phase'[p][u] = phase[p][u] /\ given'[p][u] = given[p][u]
             /\ got'[p][u] = got[p][u]
        /\ \A u \in Tasks : phase'[p][u] \in {phase[p][u], "none"}
    BY <2>1, <2>4, FreedSlot
  <2>6. ASSUME NEW u \in Tasks, Prepared(p, u)'
        PROVE  /\ Prepared(p, u) /\ given'[p][u] = given[p][u] /\ got'[p][u] = got[p][u]
               /\ ReadBy(p, u)' = ReadBy(p, u)
    BY <2>1, <2>3, <2>5, <2>6 DEF Prepared, ReadBy
  <2>7. ASSUME NEW u \in Tasks, Served(p, u)' PROVE Served(p, u) /\ got'[p][u] = got[p][u]
    BY <2>3, <2>5, <2>7 DEF Served
  <2>8. NoneStopped(p)'
    BY <2>3, <2>5 DEF NoneStopped, RunRight
  <2>9. \A u \in Tasks : phase'[p][u] \in Launched => phase[p][u] \in Launched
    BY <2>5
  <2>10. /\ RunRight(p)'
         /\ \A u \in Tasks : r.task[u] = "completed" => Exact(out, r, u)
    BY <2>1, <2>2, <2>3, <2>5, <2>6, <2>7, <2>8, <2>9, DetectRight
  <2>11. st'[p] = r
    BY <1>2, <2>2
  <2>12. Claims(out', root', r)
    BY <2>1, <2>10, <2>11 DEF Claims, RunRight, NoneNewer
  <2> QED BY <2>2, <2>10, <2>12, PersistSettles
<1> QED BY <1>4, <1>5, <1>6, <1>7, <1>8

\* The changes the handlers make of their run.
LEMMA HandlerRight ==
  ASSUME NEW p \in Procs, NEW t \in Tasks, TypeOK, SlotsOf(p), RunRight(p), ~aborted[p],
         Handler(p, t)
  PROVE  RunRight(p)' /\ Settles(p)
<1>1. st[p] \in ExecutionState
  BY DEF TypeOK
<1>2. /\ pc' = pc /\ root' = root /\ queue' = queue /\ cur' = cur /\ left' = left /\ watch' = watch
      /\ phase[p][t] # "none"
  BY DEF Handler, RunnerFinish, HandlerApply, HandlerDetect, HandlerStopped, HandlerFailed,
     HandlerFailTask, pass
<1>3. pc[p] \notin {"drain", "throwing"}
  BY <1>2 DEF RunRight, NoneStopped, InFlight
<1>4. /\ "none" \notin Launched \union {"applied"} /\ "applied" \notin Launched
      /\ {"running", "executed", "hit", "failed"} \subseteq Launched
  BY DEF Launched
<1>5. /\ t \notin cur[p]
      /\ phase[p][t] \in Launched => st[p].task[t] # "completed"
  BY <1>2 DEF SlotsOf, NotYetDone, InHand
<1>6. ASSUME NEW u \in Tasks PROVE ReadBy(p, u)' = ReadBy(p, u)
  BY <1>2 DEF ReadBy
<1>7. ASSUME NEW x \in Launched \union {"applied"}, x # "stopped", UNCHANGED <<given, got>>,
             phase[p][t] \in Launched, phase' = [phase EXCEPT ![p][t] = x]
      PROVE  /\ \A u \in Tasks : InWindow(p, u) => InWindow(p, u)'
             /\ \A u \in Tasks : Prepared(p, u)' => Prepared(p, u)
             /\ \A u \in Tasks : Served(p, u)' => Served(p, u)
             /\ \A u \in Tasks : phase'[p][u] \in Launched => phase[p][u] \in Launched
             /\ \A u \in Tasks : phase'[p][u] \in Launched \union {"applied"} =>
                  phase[p][u] \in Launched \union {"applied"}
             /\ NoneStopped(p)'
             /\ failure' = failure => (Listing(p)' => Listing(p))
  <2>1. \A u \in Tasks : phase'[p][u] = IF u = t THEN x ELSE phase[p][u]
    BY <1>7 DEF TypeOK
  <2>2. InFlight(p)' = InFlight(p)
    BY <1>2, <1>4, <1>7, <2>1 DEF InFlight
  <2>3. NoneStopped(p)'
    <3>1. x # "thrown"
      BY <1>7 DEF Launched
    <3> QED BY <1>2, <1>3, <1>7, <2>1, <3>1 DEF NoneStopped, RunRight
  <2>4. \A u \in Tasks : InWindow(p, u) => InWindow(p, u)'
    BY <1>2, <1>4, <1>7, <2>1 DEF InWindow
  <2>5. \A u \in Tasks : Prepared(p, u)' => Prepared(p, u)
    BY <1>2, <1>7, <2>1 DEF Prepared
  <2>6. \A u \in Tasks : Served(p, u)' => Served(p, u)
    BY <1>2, <1>7, <2>1 DEF Served
  <2>7. failure' = failure => (Listing(p)' => Listing(p))
    BY <1>2, <2>2 DEF Listing
  <2> QED BY <1>4, <1>7, <2>1, <2>3, <2>4, <2>5, <2>6, <2>7
<1>8. ASSUME FreeSlot(p, t)
      PROVE  /\ \A u \in Tasks : given'[p][u] \in {given[p][u], {}} /\ got'[p][u] \in {got[p][u], Nothing}
             /\ \A u \in Tasks : phase'[p][u] \in {phase[p][u], "none"}
             /\ \A u \in Tasks : Prepared(p, u)' =>
                  Prepared(p, u) /\ given'[p][u] = given[p][u] /\ got'[p][u] = got[p][u]
             /\ \A u \in Tasks : Served(p, u)' => Served(p, u) /\ got'[p][u] = got[p][u]
             /\ \A u \in Tasks : phase'[p][u] \in Launched => phase[p][u] \in Launched
             /\ NoneStopped(p)'
             /\ \A i \in Datasets : Nothing[i] = {}
  <2>1. /\ phase'[p][t] = "none" /\ given'[p][t] = {} /\ got'[p][t] = Nothing
        /\ \A u \in Tasks \ {t} :
             phase'[p][u] = phase[p][u] /\ given'[p][u] = given[p][u] /\ got'[p][u] = got[p][u]
        /\ \A i \in Datasets : Nothing[i] = {}
    BY <1>8, FreedSlot
  <2>2. NoneStopped(p)'
    BY <1>2, <1>3, <2>1 DEF NoneStopped, RunRight
  <2>3. ASSUME NEW u \in Tasks, Prepared(p, u)'
        PROVE  Prepared(p, u) /\ given'[p][u] = given[p][u] /\ got'[p][u] = got[p][u]
    <3>1. u # t
      BY <1>2, <1>4, <1>5, <2>1, <2>3 DEF Prepared
    <3> QED BY <1>2, <2>1, <2>3, <3>1 DEF Prepared
  <2>4. ASSUME NEW u \in Tasks, Served(p, u)'
        PROVE  Served(p, u) /\ got'[p][u] = got[p][u]
    <3>1. u # t
      BY <1>2, <1>4, <1>5, <2>1, <2>4 DEF Served
    <3> QED BY <1>2, <2>1, <2>4, <3>1 DEF Served
  <2> QED BY <1>4, <2>1, <2>2, <2>3, <2>4
<1>9. CASE RunnerFinish(p, t)
  <2>1. PICK x \in {"executed", "hit", "failed", "stopped"} :
          Outcome(p, t, x) /\ phase' = [phase EXCEPT ![p][t] = x]
    BY <1>9 DEF RunnerFinish
  <2>2. x # "stopped"
    BY <1>3, <2>1 DEF Outcome
  <2>3. /\ UNCHANGED <<st, out, given, got, failure, store>> /\ phase[p][t] \in Launched
        /\ x \in Launched
    BY <1>4, <1>9, <2>1, <2>2 DEF RunnerFinish, slots, flags
  <2>4. Alike(st[p], st'[p])
    BY <2>3 DEF Alike
  <2>5. RunRight(p)'
    BY <1>2, <1>6, <1>7, <2>1, <2>2, <2>3, <2>4, StillRight
  <2> QED BY <2>3, <2>5 DEF Settles
<1>10. CASE HandlerApply(p, t)
  <2>1. /\ phase[p][t] \in {"executed", "hit"} /\ phase' = [phase EXCEPT ![p][t] = "applied"]
        /\ UNCHANGED <<given, got, failure, store>>
    BY <1>10 DEF HandlerApply, flags
  <2>2. /\ \A u \in Tasks : InWindow(p, u) => InWindow(p, u)'
        /\ \A u \in Tasks : Prepared(p, u)' => Prepared(p, u)
        /\ \A u \in Tasks : Served(p, u)' => Served(p, u)
        /\ \A u \in Tasks : phase'[p][u] \in Launched => phase[p][u] \in Launched
        /\ \A u \in Tasks : phase'[p][u] \in Launched \union {"applied"} =>
             phase[p][u] \in Launched \union {"applied"}
        /\ NoneStopped(p)'
        /\ Listing(p)' => Listing(p)
    BY <1>4, <1>7, <2>1
  <2>3. phase[p][t] \in Launched /\ st[p].task[t] # "completed"
    BY <1>4, <1>5, <2>1
  <2>4. CASE ResultStale(st[p], t, given[p][t])
    <3>1. st'[p] = SetTasks(st[p], {t}, "pending") /\ out' = out
      BY <1>10, <2>4 DEF HandlerApply, BackToPending, TypeOK
    <3>2. Alike(st[p], st'[p])
      BY <1>1, <2>3, <3>1, AlikeSteps
    <3>3. RunRight(p)'
      BY <1>2, <1>6, <2>1, <2>2, <3>1, <3>2, StillRight
    <3> QED BY <2>1, <3>3 DEF Settles
  <2>5. CASE ~ResultStale(st[p], t, given[p][t])
    <3>1. Apply(p, t, phase[p][t] = "hit") /\ (phase[p][t] = "hit") \in BOOLEAN
      BY <1>10, <2>5 DEF HandlerApply
    <3>2. Prepared(p, t) /\ Served(p, t) /\ ReadBy(p, t) = Reads[t]
      BY <1>5, <2>3 DEF Prepared, Served, ReadBy
    <3>3. InWindow(p, t)'
      BY <2>1 DEF InWindow, TypeOK
    <3> DEFINE hit == phase[p][t] = "hit"
    <3> HIDE DEF hit
    <3>4. Apply(p, t, hit) /\ hit \in BOOLEAN
      BY <3>1 DEF hit
    <3>5. RunRight(p)'
      BY <1>2, <1>6, <2>1, <2>2, <2>3, <2>5, <3>2, <3>3, <3>4, ApplyRight
    <3> QED BY <2>1, <3>5 DEF Settles
  <2> QED BY <2>4, <2>5
<1>11. CASE HandlerDetect(p, t)
  <2>1. Detect(p) /\ FreeSlot(p, t) /\ out' = out
    BY <1>11 DEF HandlerDetect
  <2>2. PICK r \in ExecutionState :
          st' = [st EXCEPT ![p] = r] /\ Persist(p, r) /\ Detected(root, st[p], r)
    BY <2>1, DetectDetects DEF RunRight, NoneNewer
  <2>3. /\ RunRight(p)'
        /\ \A u \in Tasks : r.task[u] = "completed" => Exact(out, r, u)
    BY <1>2, <1>6, <1>8, <2>1, <2>2, DetectRight
  <2>4. st'[p] = r
    BY <2>2 DEF TypeOK
  <2>5. Claims(out', root', r)
    BY <1>2, <2>1, <2>3, <2>4 DEF Claims, RunRight, NoneNewer
  <2> QED BY <2>2, <2>3, <2>5, PersistSettles
<1>12. CASE HandlerFailed(p, t)
  <2> DEFINE f == TaskFailed(st[p], t)
             r == TasksSkipped(f, ToSkip(f, t))
  <2>1. /\ phase[p][t] = "failed" /\ MutexFree(p) /\ st'[p] = r /\ Persist(p, r)
        /\ failure'[p] = TRUE /\ FreeSlot(p, t) /\ out' = out
    BY <1>12 DEF HandlerFailed, TypeOK
  <2>2. Alike(st[p], r)
    BY <1>1, <1>4, <1>5, <2>1, AlikeSteps
  <2> HIDE DEF r
  <2>3. \A u \in Tasks : ~InWindow(p, u)'
    <3>1. pc'[p] # "applied" /\ \A u \in Tasks : phase'[p][u] # "applied"
      BY <1>2, <1>8, <2>1 DEF MutexFree
    <3> QED BY <3>1 DEF InWindow
  <2>4. ~Listing(p)'
    BY <2>1 DEF Listing
  <2>5. \A u \in Tasks : InWindow(p, u) => InWindow(p, u)'
    BY <1>2, <2>1 DEF InWindow, MutexFree
  <2>6. \A u \in Tasks : \A i \in Inputs : got'[p][u][i] \in {got[p][u][i], {}, VersionOf(i, root[i])}
    BY <1>8, <2>1 DEF Datasets
  <2>7. RunRight(p)'
    BY <1>2, <1>6, <1>8, <2>1, <2>2, <2>4, <2>5, <2>6, StillRight
  <2> QED BY <2>1, <2>3, <2>7, FreeSettles
<1>13. ~HandlerStopped(p, t) /\ ~HandlerFailTask(p, t)
  BY DEF HandlerStopped, HandlerFailTask, RunRight, NoneStopped
<1> QED BY <1>9, <1>10, <1>11, <1>12, <1>13 DEF Handler

\* A dataset set to a later value takes no claim back.
LEMMA RaisedVersions ==
  ASSUME NEW s \in ExecutionState, NEW ro \in [Inputs -> Values \union {Unassigned}],
         NEW n \in [Inputs -> Values \union {Unassigned}], \A i \in Inputs : ro[i] <= n[i],
         Versioned(ro, s)
  PROVE  Versioned(n, s)
<1>1. \A i \in Inputs : s.snapshot[i] \in Int /\ ro[i] \in Int /\ n[i] \in Int
  BY InputValues, SnapshotValues
<1>2. \A i \in Inputs : s.snapshot[i] <= ro[i] /\ ro[i] <= n[i]
  BY DEF Versioned
<1> QED BY <1>1, <1>2 DEF Versioned

LEMMA SetRaises ==
  ASSUME NEW i \in Inputs, NEW v \in Values, TypeOK, ~Reuse, SetInput(i, v)
  PROVE  /\ root' \in [Inputs -> Values \union {Unassigned}]
         /\ \A j \in Inputs : root[j] <= root'[j]
         /\ \A j \in Inputs : root[j] # Unassigned => root'[j] # Unassigned
         /\ UNCHANGED <<out, store, pc, st, queue, cur, left, watch, phase, given, got,
                        failure, aborted, runId>>
<1>1. /\ root' = [root EXCEPT ![i] = v] /\ v > root[i]
      /\ UNCHANGED <<out, store, pc, st, queue, cur, left, watch, phase, given, got,
                     failure, aborted, runId>>
  BY DEF SetInput, pass, slots, flags
<1>2. ASSUME NEW j \in Inputs PROVE root[j] \in Int /\ root[j] <= root[j]
  <2>1. root[j] \in Values \union {Unassigned}
    BY DEF TypeOK
  <2>2. root[j] \in Int
    BY <2>1, InputValues
  <2> QED BY <2>2
<1>3. \A j \in Inputs : root'[j] = IF j = i THEN v ELSE root[j]
  BY <1>1 DEF TypeOK
<1>4. v \in Int /\ v # Unassigned
  BY InputValues
<1> QED BY <1>1, <1>2, <1>3, <1>4 DEF TypeOK

LEMMA SetRight ==
  ASSUME NEW i \in Inputs, NEW v \in Values, TypeOK, ~Reuse, SetInput(i, v),
         NEW p \in Procs, RunRight(p)
  PROVE  RunRight(p)'
<1>1. /\ root' \in [Inputs -> Values \union {Unassigned}]
      /\ root \in [Inputs -> Values \union {Unassigned}]
      /\ \A j \in Inputs : root[j] <= root'[j]
      /\ \A j \in Inputs : root[j] # Unassigned => root'[j] # Unassigned
      /\ UNCHANGED <<out, store, pc, st, queue, cur, left, watch, phase, given, got, failure>>
  BY SetRaises DEF TypeOK
<1>2. st[p] \in ExecutionState /\ \A t \in Tasks : out[t].content \in Content
  BY DEF TypeOK
<1>3. NoneNewer(p)'
  <2>1. Versioned(root', st[p])
    BY <1>1, <1>2, RaisedVersions DEF RunRight, NoneNewer
  <2> QED BY <1>1, <2>1 DEF RunRight, NoneNewer
<1>4. CompletionsRight(p)'
  <2>1. ASSUME NEW t \in Tasks, Right(out, root, st[p], t) PROVE Right(out, root', st[p], t)
    BY <1>1, <1>2, <2>1, RaisedClaims
  <2> QED BY <1>1, <2>1 DEF RunRight, CompletionsRight, InWindow
<1>5. GivenSources(p)'
  <2>1. \A t \in Tasks : ReadBy(p, t)' = ReadBy(p, t) /\ ReadBy(p, t) \subseteq Reads[t]
    BY <1>1 DEF ReadBy
  <2>2. ASSUME NEW t \in Tasks, Sources(root, st[p], t, given[p][t], got[p][t], ReadBy(p, t))
        PROVE  Sources(root', st[p], t, given[p][t], got[p][t], ReadBy(p, t))
    <3>1. got[p][t] \in [Datasets -> Content]
      BY DEF TypeOK
    <3> QED BY <1>1, <1>2, <2>1, <2>2, <3>1, RaisedClaims
  <2> QED BY <1>1, <2>1, <2>2 DEF RunRight, GivenSources, Prepared, Served
<1>6. QueueSteady(p)' /\ NoneLate(p)' /\ NoneStopped(p)'
  <2>1. InFlight(p)' = InFlight(p)
    BY <1>1 DEF InFlight
  <2>2. Listing(p)' <=> Listing(p)
    BY <1>1, <2>1 DEF Listing
  <2> QED BY <1>1, <2>1, <2>2 DEF RunRight, QueueSteady, NoneLate, NoneStopped
<1> QED BY <1>3, <1>4, <1>5, <1>6 DEF RunRight

\* A run begins or resumes from a state that claims no more than holds.
LEMMA BeginRight ==
  ASSUME NEW p \in Procs, NEW s \in ExecutionState, NEW id, TypeOK, Unused, Ownership,
         Begin(p, s, id), Claims(out, root, s)
  PROVE  RunRight(p)'
<1>1. /\ UNCHANGED <<root, out, queue, cur, left, phase, given, got>>
      /\ st'[p] = s /\ pc'[p] = "top"
  BY DEF Begin, pass, slots, TypeOK
<1>2. /\ cur[p] = {} /\ queue[p] = {}
      /\ \A t \in Tasks : phase[p][t] = "none" /\ given[p][t] = {} /\ got[p][t] = Nothing
  BY DEF Begin, Unused, Ownership, Active, Parted, Loop
<1>3. \A i \in Datasets : Nothing[i] = {}
  BY DEF Nothing
<1>4. "none" \notin Launched \union {"applied"}
  BY DEF Launched
<1>5. NoneNewer(p)'
  BY <1>1, <1>2, <1>3 DEF NoneNewer, Claims, AtMost, Datasets
<1>6. CompletionsRight(p)'
  BY <1>1, ExactRight DEF CompletionsRight, Claims
<1>7. GivenSources(p)'
  BY <1>1, <1>2, <1>4 DEF GivenSources, Prepared, Served
<1>8. QueueSteady(p)'
  BY <1>1, <1>2 DEF QueueSteady
<1>9. NoneLate(p)' /\ NoneStopped(p)'
  BY <1>1, <1>2, <1>4 DEF NoneLate, NoneStopped
<1> QED BY <1>5, <1>6, <1>7, <1>8, <1>9 DEF RunRight

-----------------------------------------------------------------------------
(* What holds of the store and of every run                                *)

\* A finished run, while the store holds it: nobody else runs the workspace.
DoneRight(p) ==
  pc[p] = "finished" /\ store.id = runId[p] =>
    /\ \A t \in Tasks : st[p].task[t] = "completed" => Exact(out, st[p], t)
    /\ \A t \in Tasks : st[p].task[t] = "failed" => st[p].status = "failed"
    /\ \A q \in Procs : ~Active(q)
StoreRight == store.id # NoProc /\ store.s.status = "running" => Claims(out, root, store.s)
Faithful ==
  /\ StoreRight
  /\ \A p \in Procs : (Active(p) /\ ~aborted[p] => RunRight(p)) /\ DoneRight(p)

LEMMA StoreStays ==
  ASSUME StoreRight, root' = root, store' = store,
         \A t \in Tasks : store.s.task[t] = "completed" => out'[t] = out[t]
  PROVE  StoreRight'
BY DEF StoreRight, Claims, Exact, Labelled

\* A step of the active process that does not end its run.
LEMMA QuietFaithful ==
  ASSUME NEW p \in Procs, TypeOK, Ownership, Faithful, Active(p), Quiet(p), root' = root,
         ~aborted'[p] => RunRight(p)', Settles(p),
         \A t \in Tasks : store.s.task[t] = "completed" => out'[t] = out[t]
  PROVE  Faithful'
<1>1. /\ Active(p)' /\ pc'[p] # "finished"
      /\ \A q \in Procs \ {p} : pc'[q] = pc[q]
      /\ runId' = runId /\ store'.id = store.id
  BY QuietAt, QuietStore DEF Quiet, Active, Loop
<1>2. StoreRight'
  BY StoreStays DEF Settles, StoreRight, Faithful
<1>3. ASSUME NEW q \in Procs, Active(q)', ~aborted'[q] PROVE RunRight(q)'
  <2>1. q = p
    BY <1>1, <1>3, OneActive DEF Ownership, Active
  <2> QED BY <1>3, <2>1
<1>4. ASSUME NEW q \in Procs PROVE DoneRight(q)'
  <2>1. pc'[q] = "finished" /\ store'.id = runId'[q] => FALSE
    BY <1>1 DEF Faithful, DoneRight
  <2> QED BY <2>1 DEF DoneRight
<1> QED BY <1>2, <1>3, <1>4 DEF Faithful

\* A result is applied over no completion the store holds, and a cancelled
\* run writes nothing.
LEMMA TaskStepStore ==
  ASSUME NEW p \in Procs, NEW t \in Tasks, TypeOK, Ownership, NoneYielded, Follows, Active(p),
         \/ LoopWaiting(p, t) \/ LoopStart(p, t) \/ LoopHit(p, t) \/ LoopDetect(p, t)
         \/ Handler(p, t)
  PROVE  /\ \A u \in Tasks : store.s.task[u] = "completed" => out'[u] = out[u]
         /\ aborted[p] => store' = store
         /\ root' = root /\ aborted' = aborted
<1>1. ASSUME NEW hit \in BOOLEAN, Apply(p, t, hit), Unapplied(p, t), NEW u \in Tasks,
             store.s.task[u] = "completed"
      PROVE  out'[u] = out[u]
  <2>1. u # t
    BY <1>1 DEF Follows, StoreOf
  <2>2. \A x \in Tasks \ {t} : out'[x] = out[x]
    BY <1>1 DEF Apply, TypeOK
  <2> QED BY <1>1, <2>1, <2>2
<1>2. CASE LoopHit(p, t)
  <2>1. Unapplied(p, t)
    BY <1>2 DEF LoopHit, Unapplied, Preparing
  <2>2. /\ out' = out \/ Apply(p, t, TRUE)
        /\ store' = store /\ root' = root /\ aborted' = aborted
    BY <1>2 DEF LoopHit, BackToPending, NextLaunch, flags
  <2> QED BY <1>1, <2>1, <2>2
<1>3. CASE HandlerApply(p, t)
  <2>1. Unapplied(p, t)
    BY <1>3 DEF HandlerApply, Unapplied
  <2> DEFINE hit == phase[p][t] = "hit"
  <2>2. /\ out' = out \/ Apply(p, t, hit)
        /\ store' = store /\ root' = root /\ aborted' = aborted
    BY <1>3 DEF HandlerApply, BackToPending, flags
  <2>3. hit \in BOOLEAN
    OBVIOUS
  <2> HIDE DEF hit
  <2> QED BY <1>1, <2>1, <2>2, <2>3
<1>4. CASE \/ LoopWaiting(p, t) \/ LoopStart(p, t) \/ LoopDetect(p, t)
           \/ HandlerDetect(p, t) \/ HandlerStopped(p, t)
           \/ HandlerFailed(p, t) \/ HandlerFailTask(p, t)
  <2>1. /\ out' = out /\ root' = root
        /\ \E r : Persist(p, r)
    BY <1>4 DEF LoopWaiting, LoopStart, LoopDetect, NextLaunch, HandlerDetect, HandlerStopped,
       HandlerFailed, HandlerFailTask, BackToPending, Detect
  <2> QED BY <2>1, AlonePersist DEF Persist
<1>5. CASE RunnerFinish(p, t)
  BY <1>5 DEF RunnerFinish, flags
<1> QED BY <1>2, <1>3, <1>4, <1>5 DEF Handler

\* The steps of an active run that do not end it.
LEMMA RunFaithful ==
  ASSUME NEW p \in Procs, TypeOK, Ownership, Slots, Unused, NoneYielded, Follows, Faithful,
         ~CanThrow,
         \/ Top(p) \/ Launch(p) \/ Race(p) \/ DrainStuck(p) \/ LoopThrows(p) \/ RequestCancel(p)
         \/ \E t \in Tasks : \E d \in Datasets : ReadInput(p, t, d)
         \/ \E t \in Tasks :
              LoopWaiting(p, t) \/ LoopStart(p, t) \/ LoopHit(p, t) \/ LoopDetect(p, t)
         \/ Active(p) /\ \E t \in Tasks : Handler(p, t) \/ HandlerThrows(p, t)
  PROVE  Faithful'
<1>1. SlotsOf(p) /\ Quiet(p)
  BY QuietSteps DEF Slots
<1>2. Active(p) /\ ~aborted[p] => RunRight(p)
  BY DEF Faithful
<1>3. CASE \E t \in Tasks : \/ LoopWaiting(p, t) \/ LoopStart(p, t) \/ LoopHit(p, t) \/ LoopDetect(p, t)
                            \/ Active(p) /\ Handler(p, t)
  <2>1. PICK t \in Tasks : \/ LoopWaiting(p, t) \/ LoopStart(p, t) \/ LoopHit(p, t) \/ LoopDetect(p, t)
                           \/ Active(p) /\ Handler(p, t)
    BY <1>3
  <2>2. Active(p)
    BY <2>1 DEF LoopWaiting, LoopStart, LoopHit, LoopDetect, Active, Loop
  <2>3. /\ \A u \in Tasks : store.s.task[u] = "completed" => out'[u] = out[u]
        /\ aborted[p] => store' = store
        /\ root' = root /\ aborted' = aborted
    BY <2>1, <2>2, TaskStepStore
  <2>4. ~aborted[p] => RunRight(p)' /\ Settles(p)
    BY <1>1, <1>2, <2>1, <2>2, LoopTaskRight, HandlerRight
  <2>5. Settles(p)
    BY <2>3, <2>4 DEF Settles
  <2> QED BY <1>1, <2>2, <2>3, <2>4, <2>5, QuietFaithful
<1>4. ASSUME Active(p), UNCHANGED <<root, out, store>>, ~aborted'[p] => RunRight(p)'
      PROVE  Faithful'
  BY <1>1, <1>4, QuietFaithful DEF Settles
<1>5. CASE Top(p) \/ Launch(p)
  <2>1. GetReady(st[p]) \in SUBSET Tasks /\ queue[p] \in SUBSET Tasks
    BY DEF GetReady, GetReadyTasks, TypeOK
  <2>2. Active(p)
    BY <1>5 DEF Top, Launch, Active, Loop
  <2>3. UNCHANGED <<root, out, store, aborted>>
    BY <1>5 DEF Top, Launch, PrepareNext, EndPass, durable, flags
  <2>4. ~aborted[p] => RunRight(p)'
    BY <1>1, <1>2, <1>5, <2>1, <2>2, PassRight, TurnRight DEF Top, Launch
  <2> QED BY <1>4, <2>2, <2>3, <2>4
<1>6. CASE Race(p) \/ DrainStuck(p)
  BY <1>2, <1>4, <1>6, TurnRight DEF Race, DrainStuck, Active, Loop, durable, flags
<1>7. CASE \E t \in Tasks : \E d \in Datasets : ReadInput(p, t, d)
  <2>1. PICK t \in Tasks, d \in Datasets : ReadInput(p, t, d)
    BY <1>7
  <2>2. Active(p) /\ UNCHANGED <<root, out, store, aborted>>
    BY <2>1 DEF ReadInput, Active, Loop, durable, flags
  <2>3. ~aborted[p] => RunRight(p)'
    BY <1>1, <1>2, <2>1, <2>2, ReadRight
  <2> QED BY <1>4, <2>2, <2>3
<1>8. CASE RequestCancel(p)
  BY <1>4, <1>8 DEF RequestCancel, NoneYielded, Parted, durable, TypeOK
<1>9. ~LoopThrows(p) /\ \A t \in Tasks : ~HandlerThrows(p, t)
  BY DEF LoopThrows, HandlerThrows
<1> QED BY <1>3, <1>5, <1>6, <1>7, <1>8, <1>9

\* How a run that no yield cut short ends: the store has its end, or is left.
LEMMA EndWrites ==
  ASSUME NEW p \in Procs, TypeOK, Ownership, Slots, Ends(p), NoneYielded, NoneYielded'
  PROVE  /\ Active(p)
         /\ YieldCheckpoint(p) => ~Taken(p) /\ store' = store /\ ended[p] /\ aborted'[p]
         /\ store' = store \/ store'.s.status # "running"
<1>1. Active(p)
  BY EndsFrom DEF NoneYielded
<1>2. st[p] \in ExecutionState /\ store.s \in ExecutionState
  BY DEF TypeOK
<1>3. ASSUME NEW s \in ExecutionState, Write(p, s), s.status # "running"
      PROVE  store' = store \/ store'.s.status # "running"
  BY <1>3, WriteEffect
<1>4. ASSUME YieldCheckpoint(p) PROVE ~Taken(p) /\ store' = store /\ ended[p] /\ aborted'[p]
  <2>1. ~Taken(p)
    <3>1. Taken(p) => pc'[p] = "leaving"
      BY <1>4 DEF YieldCheckpoint, TypeOK
    <3> QED BY <3>1 DEF NoneYielded, Parted
  <2>2. store' = store
    BY <1>4, <2>1 DEF YieldCheckpoint, Write
  <2>3. ended[p]
    BY <1>1, <2>1, AloneTaken
  <2>4. aborted'[p]
    BY <1>4, <2>1 DEF YieldCheckpoint, Told, Stops, TypeOK
  <2> QED BY <2>1, <2>2, <2>3, <2>4
<1>5. CASE EndCancelled(p)
  <2>1. /\ Cancel(Yield(st[p])) \in ExecutionState /\ Cancel(Yield(st[p])).status = "cancelled"
        /\ Write(p, Cancel(Yield(st[p])))
    BY <1>2, <1>5, EndTypes DEF EndCancelled
  <2> QED BY <1>1, <1>3, <1>4, <2>1
<1>6. CASE DrainFinalize(p)
  <2>1. /\ Finalize(st[p]) \in ExecutionState /\ Finalize(st[p]).status # "running"
        /\ Write(p, Finalize(st[p]))
    BY <1>2, <1>6, EndTypes DEF DrainFinalize
  <2> QED BY <1>1, <1>3, <1>4, <2>1
<1>7. CASE EndFailed(p)
  <2> DEFINE f == [store.s EXCEPT !.status = "failed"]
  <2>1. f \in ExecutionState /\ f.status # "running" /\ Write(p, f)
    BY <1>2, <1>7, EndTypes DEF EndFailed, ExecutionState
  <2> HIDE DEF f
  <2> QED BY <1>1, <1>3, <1>4, <2>1
<1>8. CASE YieldCheckpoint(p) \/ DrainCancelled(p) \/ Crash(p)
  <2>1. store' = store
    BY <1>4, <1>8 DEF DrainCancelled, Crash
  <2> QED BY <1>1, <1>4, <2>1
<1>9. ~LetGo(p) /\ ~Forget(p)
  BY <1>1, Locations DEF LetGo, Forget, Active
<1> QED BY <1>5, <1>6, <1>7, <1>8, <1>9 DEF Ends

\* How a run ends.
LEMMA EndFaithful ==
  ASSUME NEW p \in Procs, TypeOK, Ownership, RunsSound, Slots, Faithful, Ends(p), NoneYielded,
         NoneYielded'
  PROVE  Faithful'
<1>1. Active(p)
  BY EndsFrom DEF NoneYielded
<1>2. /\ \A q \in Procs \ {p} : pc'[q] = pc[q] /\ st'[q] = st[q]
      /\ runId' = runId
      /\ store'.id = store.id
      /\ pc'[p] = "finished" => DrainFinalize(p)
  <2>1. /\ \A q \in Procs \ {p} : pc'[q] = pc[q] /\ st'[q] = st[q]
        /\ runId' = runId
        /\ store' = store \/ \E s \in ExecutionState : Write(p, s)
        /\ pc'[p] = "finished" => DrainFinalize(p)
    BY EndsAt
  <2> QED BY <2>1, WriteEffect
<1>3. UNCHANGED <<root, out>>
  BY DEF Ends, YieldCheckpoint, LetGo, Forget, EndCancelled, DrainCancelled, DrainFinalize,
     EndFailed, Crash, durable
<1>4. st[p] \in ExecutionState /\ store.s \in ExecutionState
  BY DEF TypeOK
<1>5. YieldCheckpoint(p) => aborted'[p]
  BY EndWrites
<1>6. store' = store \/ store'.s.status # "running"
  BY EndWrites
<1>7. StoreRight'
  <2>1. CASE store' = store
    BY <1>3, <2>1, StoreStays DEF Faithful
  <2>2. CASE store'.s.status # "running"
    BY <2>2 DEF StoreRight
  <2> QED BY <1>6, <2>1, <2>2
<1>8. ASSUME NEW q \in Procs, Active(q)', ~aborted'[q] PROVE RunRight(q)'
  <2>1. q = p
    BY <1>1, <1>2, <1>8, OneActive DEF Ownership, Active
  <2>2. EndCancelled(p) \/ YieldCheckpoint(p)
    BY <1>8, <2>1, EndsAt
  <2>3. EndCancelled(p) => aborted'[p]
    BY <1>1 DEF EndCancelled, CancelDue
  <2> QED BY <1>5, <1>8, <2>1, <2>2, <2>3
<1>9. ASSUME NEW q \in Procs, pc'[q] = "finished", store'.id = runId'[q]
      PROVE  /\ \A t \in Tasks : st'[q].task[t] = "completed" => Exact(out', st'[q], t)
             /\ \A t \in Tasks : st'[q].task[t] = "failed" => st'[q].status = "failed"
             /\ \A u \in Procs : ~Active(u)'
  <2>1. q = p
    BY <1>1, <1>2, <1>9 DEF Faithful, DoneRight
  <2>2. DrainFinalize(p)
    BY <1>2, <1>9, <2>1
  <2>3. ~aborted[p] /\ InFlight(p) = {} /\ st'[p] = Finalize(st[p]) /\ pc[p] = "drain"
    BY <2>2 DEF DrainFinalize, TypeOK
  <2>4. RunRight(p)
    BY <1>1, <2>3 DEF Faithful
  <2>5. \A t \in Tasks : ~InWindow(p, t)
    BY <2>3, NothingTracked DEF InWindow
  <2>6. Claims(out, root, st[p])
    BY <2>4, <2>5, MutexClaims
  <2>7. ASSUME NEW t \in Tasks, st'[p].task[t] = "completed" PROVE Exact(out', st'[p], t)
    <3>1. Alike(st[p], st'[p])
      BY <1>4, <2>3, AlikeEnds
    <3>2. Exact(out, st[p], t)
      BY <2>6, <2>7, <3>1 DEF Claims, Alike
    <3> QED BY <1>3, <3>1, <3>2, AlikeClaims
  <2>8. ASSUME NEW t \in Tasks, st'[p].task[t] = "failed" PROVE st'[p].status = "failed"
    <3>1. st[p].task[t] = "failed"
      BY <1>4, <2>3, <2>8, EndAt
    <3>2. st[p].failed # 0
      BY <3>1 DEF RunsSound, Sound, Blame, TasksIn
    <3> QED BY <1>4, <2>3, <3>2 DEF Finalize, ExecutionState
  <2>9. \A u \in Procs : ~Active(u)'
    <3>1. \A u \in Procs \ {p} : ~Active(u)'
      BY <1>1, <1>2, OneActive DEF Ownership, Active
    <3> QED BY <1>9, <2>1, <3>1 DEF Active, Loop
  <2> QED BY <2>1, <2>7, <2>8, <2>9
<1>10. ASSUME NEW q \in Procs PROVE DoneRight(q)'
  BY <1>9 DEF DoneRight
<1> QED BY <1>7, <1>8, <1>10 DEF Faithful

\* How a run begins, or is taken up.
LEMMA InitializeVersions ==
  ASSUME NEW roots \in [Inputs -> Values \union {Unassigned}]
  PROVE  /\ Initialize(roots).snapshot = roots
         /\ \A t \in Tasks : Initialize(roots).vv[t] = {}
BY DEF Initialize, MarkReady, SetTasks

LEMMA BeginFaithful ==
  ASSUME NEW p \in Procs, TypeOK, Ownership, Fresh, EndRecorded, Unused, Faithful,
         Start(p) \/ Resume(p)
  PROVE  Faithful'
<1>1. ASSUME NEW s \in ExecutionState, NEW id, Begin(p, s, id), Claims(out, root, s),
             \A q \in Procs : pc[q] = "finished" => runId[q] # id
      PROVE  Faithful'
  <2>1. /\ UNCHANGED <<root, out>> /\ store' = [id |-> id, s |-> s]
        /\ pc'[p] = "top" /\ runId'[p] = id
        /\ \A q \in Procs \ {p} : pc'[q] = pc[q] /\ runId'[q] = runId[q]
        /\ lock = NoProc
    BY <1>1 DEF Begin, TypeOK
  <2>2. StoreRight'
    BY <1>1, <2>1 DEF StoreRight
  <2>3. RunRight(p)'
    BY <1>1, BeginRight
  <2>4. \A q \in Procs : Active(q)' => q = p
    <3>1. \A q \in Procs : ~Active(q)
      BY <2>1, RunAssumption DEF Ownership, ActiveOwnsStore
    <3> QED BY <2>1, <3>1 DEF Active
  <2>5. ASSUME NEW q \in Procs PROVE DoneRight(q)'
    <3>1. ~(pc'[q] = "finished" /\ store'.id = runId'[q])
      BY <1>1, <2>1
    <3> QED BY <3>1 DEF DoneRight
  <2> QED BY <2>2, <2>3, <2>4, <2>5 DEF Faithful
<1>2. CASE Start(p)
  <2> DEFINE s == Initialize(root)
  <2>1. s \in ExecutionState /\ s.snapshot = root /\ \A t \in Tasks : s.vv[t] = {}
    <3>1. root \in [Inputs -> Values \union {Unassigned}]
      BY DEF TypeOK
    <3> QED BY <3>1, InitializeType, InitializeVersions
  <2>2. \A t \in Tasks : s.task[t] # "completed"
    <3>1. root \in [Inputs -> Values \union {Unassigned}]
      BY DEF TypeOK
    <3> QED BY <3>1, InitializeAt
  <2>3. Begin(p, s, p)
    BY <1>2 DEF Start
  <2>4. \A q \in Procs : runId[q] # p
    BY <2>3 DEF Begin, Fresh
  <2> HIDE DEF s
  <2>5. Claims(out, root, s)
    <3>1. \A i \in Inputs : root[i] <= root[i]
      BY <2>1, SnapshotValues
    <3> QED BY <2>1, <2>2, <3>1 DEF Claims, Versioned, AtMost
  <2> QED BY <1>1, <2>1, <2>3, <2>4, <2>5
<1>3. CASE Resume(p)
  <2> DEFINE s == Yield(store.s)
  <2>1. /\ store.s \in ExecutionState /\ s \in ExecutionState /\ Alike(store.s, s)
        /\ Begin(p, s, store.id) /\ Claims(out, root, store.s)
    <3>1. store.s \in ExecutionState
      BY DEF TypeOK
    <3>2. Claims(out, root, store.s)
      BY <1>3 DEF Resume, Faithful, StoreRight
    <3> QED BY <1>3, <3>1, <3>2, EndTypes, AlikeEnds DEF Resume
  <2> HIDE DEF s
  <2>2. Claims(out, root, s)
    BY <2>1, AlikeClaims DEF Claims, Alike
  <2>3. \A q \in Procs : pc[q] = "finished" => runId[q] # store.id
    BY <1>3 DEF Resume, EndRecorded
  <2> QED BY <1>1, <2>1, <2>2, <2>3
<1> QED BY <1>2, <1>3

LEMMA SetFaithful ==
  ASSUME NEW i \in Inputs, NEW v \in Values, TypeOK, ~Reuse, Faithful, SetInput(i, v)
  PROVE  Faithful'
<1>1. /\ root' \in [Inputs -> Values \union {Unassigned}]
      /\ root \in [Inputs -> Values \union {Unassigned}]
      /\ \A j \in Inputs : root[j] <= root'[j]
      /\ UNCHANGED <<out, store, pc, st, aborted, runId>>
      /\ store.s \in ExecutionState
  BY SetRaises DEF TypeOK
<1>2. StoreRight'
  BY <1>1, RaisedVersions DEF Faithful, StoreRight, Claims
<1>3. ASSUME NEW p \in Procs PROVE (Active(p) /\ ~aborted[p] => RunRight(p))' /\ DoneRight(p)'
  <2>1. Active(p)' /\ ~aborted'[p] => RunRight(p)'
    BY <1>1, SetRight DEF Faithful, Active
  <2>2. DoneRight(p)'
    BY <1>1 DEF Faithful, DoneRight, Active
  <2> QED BY <2>1, <2>2
<1> QED BY <1>2, <1>3 DEF Faithful

LEMMA NextFaithful ==
  ASSUME TypeOK, Ownership, Fresh, RunsSound, Slots, Unused, EndRecorded,
         NoneYielded => Follows, NoneYielded => Faithful, ~Reuse, ~CanThrow, [Next]_vars
  PROVE  (NoneYielded => Faithful)'
<1> SUFFICES ASSUME NoneYielded' PROVE Faithful'
  OBVIOUS
<1>1. NoneYielded /\ Follows /\ Faithful
  BY NextNoneYielded
<1>2. CASE UNCHANGED vars
  <2>1. ASSUME NEW p \in Procs PROVE RunRight(p) => RunRight(p)'
    <3>1. InFlight(p)' = InFlight(p) /\ Listing(p)' = Listing(p)
      BY <1>2 DEF vars, InFlight, Listing, pass, slots, flags
    <3> QED BY <1>2, <3>1 DEF RunRight, NoneNewer, CompletionsRight, GivenSources, QueueSteady,
               NoneLate, NoneStopped, Prepared, Served, InWindow, ReadBy, vars, durable, pass,
               slots, flags
  <2> QED BY <1>1, <1>2, <2>1 DEF Faithful, StoreRight, DoneRight, Active, vars, durable, flags
<1>3. ASSUME NEW p \in Procs, NEW t \in Tasks, Handler(p, t) \/ HandlerThrows(p, t)
      PROVE  Faithful'
  <2>1. phase[p][t] # "none"
    BY <1>3 DEF Handler, HandlerThrows, RunnerFinish, HandlerApply, HandlerDetect, HandlerStopped,
       HandlerFailed, HandlerFailTask
  <2>2. Active(p)
    BY <1>1, <2>1 DEF Ownership, NoneYielded
  <2> QED BY <1>1, <1>3, <2>2, RunFaithful
<1>4. ASSUME NEW p \in Procs, LoopStep(p) PROVE Faithful'
  BY <1>1, <1>4, RunFaithful, EndFaithful DEF LoopStep, Ends
<1>5. ASSUME NEW p \in Procs, Start(p) \/ Resume(p) PROVE Faithful'
  BY <1>1, <1>5, BeginFaithful
<1>6. ASSUME NEW p \in Procs, Crash(p) \/ EndCancelled(p) PROVE Faithful'
  BY <1>1, <1>6, EndFaithful DEF Ends
<1>7. ASSUME NEW p \in Procs, LoopThrows(p) \/ RequestCancel(p) PROVE Faithful'
  BY <1>1, <1>7, RunFaithful
<1>8. ASSUME NEW i \in Inputs, NEW v \in Values, SetInput(i, v) PROVE Faithful'
  BY <1>1, <1>8, SetFaithful
<1> QED BY <1>2, <1>3, <1>4, <1>5, <1>6, <1>7, <1>8 DEF Next

LEMMA AlwaysFaithful ==
  ASSUME ~Reuse, ~CanThrow
  PROVE  Spec => [](NoneYielded => Faithful)
<1>1. Init => Unused /\ (NoneYielded => Faithful)
  <2> SUFFICES ASSUME Init PROVE Unused /\ Faithful
    OBVIOUS
  <2>1. store.id = NoProc /\ \A p \in Procs : pc[p] = "idle"
    BY DEF Init
  <2> QED BY <2>1, InitUnused DEF Faithful, StoreRight, DoneRight, Active, Loop
<1>2. TypeOK /\ Ownership /\ Unused /\ [Next]_vars => Unused'
  BY NextUnused
<1>3. TypeOK /\ Ownership /\ Fresh /\ RunsSound /\ Slots /\ Unused /\ EndRecorded
        /\ (NoneYielded => Follows) /\ (NoneYielded => Faithful) /\ [Next]_vars
        => (NoneYielded => Faithful)'
  BY NextFaithful
<1> QED BY <1>1, <1>2, <1>3, AlwaysSound, AlwaysSlots, AlwaysEndRecorded, AlwaysFollows, PTL DEF Spec

\* While no process yields the workspace, no task throws and no version comes
\* back, a run that finished leaves every task it completed with the output of
\* exactly the versions its snapshot ends with, and says so in its version
\* vector: whatever was set while its tasks were read, ran, failed and were
\* invalidated, in this run or in one a crash cut short before it.
THEOREM FixpointKept ==
  ASSUME ~Reuse, ~CanThrow
  PROVE  Spec => [](NoneYielded => Fixpoint)
<1>1. Faithful => Fixpoint
  <2> SUFFICES ASSUME Faithful, NEW p \in Procs, Done(p), NEW t \in TasksIn(st[p], {"completed"})
               PROVE  /\ out[t].content = SnapshotOf(st[p], t)
                      /\ out[t].vv = SnapshotOf(st[p], t)
    BY DEF Fixpoint
  <2>1. t \in Tasks /\ st[p].task[t] = "completed"
    BY DEF TasksIn
  <2>2. Exact(out, st[p], t)
    BY <2>1 DEF Faithful, DoneRight, Done
  <2> QED BY <2>2 DEF Exact, Labelled
<1> QED BY <1>1, AlwaysFaithful, PTL

\* Under the same hypotheses, a task that stands failed when a run has finished
\* has nothing completed downstream of it, however far, and the run says that it
\* failed: no task was launched on, or kept, an output the failure called off.
THEOREM FailureBlocksKept ==
  ASSUME ~Reuse, ~CanThrow
  PROVE  Spec => [](NoneYielded => FailureBlocks)
<1>1. Faithful => FailureBlocks
  <2> SUFFICES ASSUME Faithful, NEW p \in Procs, Done(p), NEW t \in TasksIn(st[p], {"failed"})
               PROVE  /\ Downstream(t) \cap TasksIn(st[p], {"completed"}) = {}
                      /\ st[p].status = "failed"
    BY DEF FailureBlocks
  <2> DEFINE X == {u \in Tasks : st[p].task[u] # "completed"}
  <2>1. t \in Tasks /\ st[p].task[t] = "failed" /\ st[p].status = "failed"
    BY DEF TasksIn, Faithful, DoneRight, Done
  <2>2. ASSUME NEW u \in Tasks, Reads[u] \cap ({t} \union X) # {} PROVE u \in X
    <3> SUFFICES ASSUME st[p].task[u] = "completed" PROVE FALSE
      OBVIOUS
    <3>1. PICK d \in Reads[u] : d \in {t} \union X
      BY <2>2
    <3>2. d \in Tasks /\ st[p].task[d] # "completed"
      BY <2>1, <3>1
    <3>3. \A e \in DependsOn(u) : st[p].task[e] = "completed"
      BY DEF Faithful, DoneRight, Done, Exact, Backed
    <3> QED BY <3>1, <3>2, <3>3 DEF DependsOn
  <2>3. Downstream(t) \subseteq X
    BY <2>2 DEF Downstream, Cone
  <2> QED BY <2>1, <2>3 DEF TasksIn
<1> QED BY <1>1, AlwaysFaithful, PTL

-----------------------------------------------------------------------------
(* Outputs are written in the order of the graph                           *)

Has(d) == DatasetContent(d) # {}
\* A task stands completed with an output; what was read of an input is there,
\* an input the task was served with is not empty, and what the tasks at hand
\* depend on was written.
WrittenOf(p) ==
  /\ \A t \in Tasks : st[p].task[t] = "completed" => Has(t)
  /\ \A t \in Tasks : Served(p, t) => \A r \in Reads[t] : got[p][t][r] # {}
  /\ \A t \in Tasks : \A r \in Datasets : got[p][t][r] # {} => Has(r)
  /\ \A t \in queue[p] \union cur[p] : \A d \in DependsOn(t) : Has(d)
Written ==
  /\ \A t \in Tasks : store.s.task[t] = "completed" => Has(t)
  /\ \A t \in Tasks : Has(t) => \A r \in Reads[t] : Has(r)
  /\ \A p \in Procs : WrittenOf(p)

LEMMA HasAt ==
  /\ \A t \in Tasks : Has(t) <=> out[t].content # {}
  /\ \A i \in Inputs : Has(i) <=> root[i] # Unassigned
BY GraphAssumption DEF Has, DatasetContent, GraphAssumption, VersionOf

\* A step of p that writes nothing, or the output of a task whose inputs are
\* there, and completes a task only with its output.
LEMMA WrittenStep ==
  ASSUME NEW p \in Procs, TypeOK, Written, root' = root,
         \A q \in Procs \ {p} :
           /\ pc'[q] = pc[q] /\ st'[q] = st[q] /\ phase'[q] = phase[q] /\ got'[q] = got[q]
           /\ queue'[q] = queue[q] /\ cur'[q] = cur[q],
         \A t \in Tasks : \/ out'[t] = out[t]
                          \/ out'[t].content # {} /\ \A r \in Reads[t] : got[p][t][r] # {},
         \A t \in Tasks : st'[p].task[t] = "completed" =>
           Has(t) \/ out'[t].content # {},
         \A t \in Tasks : store'.s.task[t] = "completed" =>
           store.s.task[t] = "completed" \/ st'[p].task[t] = "completed",
         \A t \in Tasks : Served(p, t)' =>
           \/ Served(p, t) /\ got'[p][t] = got[p][t]
           \/ \A r \in Reads[t] : got'[p][t][r] # {},
         \A t \in Tasks : \A r \in Datasets :
           got'[p][t][r] \in {got[p][t][r], {}, DatasetContent(r)},
         \A t \in queue'[p] \union cur'[p] :
           \/ t \in queue[p] \union cur[p]
           \/ \A d \in DependsOn(t) : st[p].task[d] = "completed"
  PROVE  Written'
<1>1. Tasks \subseteq Datasets /\ \A t \in Tasks : Reads[t] \subseteq Datasets
  BY GraphAssumption DEF GraphAssumption, Datasets
<1>2. ASSUME NEW d \in Datasets, Has(d) PROVE Has(d)'
  <2>1. d \in Inputs \/ d \in Tasks
    BY DEF Datasets
  <2> QED BY <1>2, <2>1, HasAt DEF Has, DatasetContent
<1>3. ASSUME NEW t \in Tasks, Has(t)' PROVE \A r \in Reads[t] : Has(r)'
  <2>1. CASE out'[t] = out[t]
    <3>1. Has(t)
      BY <1>3, <2>1, HasAt, GraphAssumption DEF Has, DatasetContent, GraphAssumption
    <3> QED BY <1>1, <1>2, <3>1 DEF Written
  <2>2. CASE \A r \in Reads[t] : got[p][t][r] # {}
    BY <1>1, <1>2, <2>2 DEF Written, WrittenOf
  <2> QED BY <2>1, <2>2
<1>4. ASSUME NEW t \in Tasks, st'[p].task[t] = "completed" PROVE Has(t)'
  <2>1. CASE Has(t)
    BY <1>1, <1>2, <2>1
  <2>2. CASE out'[t].content # {}
    BY <2>2, GraphAssumption DEF Has, DatasetContent, GraphAssumption
  <2> QED BY <1>4, <2>1, <2>2
<1>5. ASSUME NEW t \in Tasks, store'.s.task[t] = "completed" PROVE Has(t)'
  BY <1>1, <1>2, <1>4, <1>5 DEF Written
<1>6. ASSUME NEW q \in Procs \ {p} PROVE WrittenOf(q)'
  <2>1. WrittenOf(q)
    BY DEF Written
  <2>2. \A t \in Tasks : Served(q, t)' <=> Served(q, t)
    BY DEF Served
  <2>3. \A t \in queue'[q] \union cur'[q] : \A d \in DependsOn(t) : d \in Tasks
    BY DEF DependsOn
  <2> QED BY <1>1, <1>2, <2>1, <2>2, <2>3 DEF WrittenOf
<1>7. WrittenOf(p)'
  <2>1. WrittenOf(p)
    BY DEF Written
  <2>2. ASSUME NEW t \in Tasks, Served(p, t)' PROVE \A r \in Reads[t] : got'[p][t][r] # {}
    BY <2>1, <2>2 DEF WrittenOf
  <2>3. ASSUME NEW t \in Tasks, NEW r \in Datasets, got'[p][t][r] # {} PROVE Has(r)'
    <3>1. Has(r)
      BY <2>1, <2>3 DEF WrittenOf, Has
    <3> QED BY <1>2, <3>1
  <2>4. ASSUME NEW t \in queue'[p] \union cur'[p], NEW d \in DependsOn(t) PROVE Has(d)'
    <3>1. d \in Tasks
      BY DEF DependsOn
    <3>2. Has(d)
      BY <2>1, <2>4, <3>1 DEF WrittenOf
    <3> QED BY <1>1, <1>2, <3>1, <3>2
  <2> QED BY <1>4, <2>2, <2>3, <2>4 DEF WrittenOf
<1> QED BY <1>3, <1>5, <1>6, <1>7 DEF Written

\* A result applied to the outputs of the workspace: its task was served.
LEMMA AppliedOutput ==
  ASSUME NEW p \in Procs, NEW t \in Tasks, NEW hit \in BOOLEAN, TypeOK, Apply(p, t, hit),
         \A r \in Reads[t] : got[p][t][r] # {}
  PROVE  /\ out'[t].content # {}
         /\ \A u \in Tasks \ {t} : out'[u] = out[u]
<1>1. out' = [out EXCEPT ![t] = [content |-> Output(t, got[p][t]), vv |-> given[p][t]]]
  BY DEF Apply
<1>2. out'[t].content = Output(t, got[p][t]) /\ \A u \in Tasks \ {t} : out'[u] = out[u]
  BY <1>1 DEF TypeOK
<1>3. PICK r : r \in Reads[t]
  BY GraphAssumption DEF GraphAssumption
<1>4. Output(t, got[p][t]) # {}
  BY <1>3 DEF Output
<1> QED BY <1>2, <1>4

LEMMA HandlerWritten ==
  ASSUME NEW p \in Procs, NEW t \in Tasks, TypeOK, Slots, Written,
         Handler(p, t) \/ HandlerThrows(p, t)
  PROVE  Written'
<1> USE DEF Handler
<1>1. /\ phase[p][t] # "none" /\ UNCHANGED <<root, pc, queue, cur>>
      /\ st[p] \in ExecutionState /\ WrittenOf(p)
  BY DEF RunnerFinish, HandlerApply, HandlerDetect, HandlerStopped, HandlerFailed,
         HandlerFailTask, HandlerThrows, pass, durable, TypeOK, Written
<1>2. t \notin cur[p]
  BY <1>1 DEF Slots, SlotsOf, InHand
<1> DEFINE Slotted == /\ \A u \in Tasks : Served(p, u)' => Served(p, u) /\ got'[p][u] = got[p][u]
                      /\ \A u \in Tasks : \A r \in Datasets : got'[p][u][r] \in {got[p][u][r], {}}
                      /\ \A q \in Procs \ {p} : phase'[q] = phase[q] /\ got'[q] = got[q]
<1>3. ASSUME NEW x, \/ FreeSlot(p, t) /\ x = "none"
                    \/ phase' = [phase EXCEPT ![p][t] = x] /\ got' = got,
             x \in Launched \union {"applied"} => phase[p][t] \in Launched \union {"applied"}
      PROVE  Slotted
  <2>1. /\ \A u \in Tasks : phase'[p][u] = IF u = t THEN x ELSE phase[p][u]
        /\ \A q \in Procs \ {p} : phase'[q] = phase[q]
    BY <1>3, FreeSlotAt DEF TypeOK
  <2>2. /\ \A u \in Tasks \ {t} : got'[p][u] = got[p][u]
        /\ x # "none" => got' = got
        /\ got'[p][t] \in {got[p][t], Nothing}
        /\ \A q \in Procs \ {p} : got'[q] = got[q]
    BY <1>3 DEF FreeSlot, TypeOK
  <2>3. \A u \in Tasks : Served(p, u)' => Served(p, u) /\ got'[p][u] = got[p][u]
    BY <1>1, <1>2, <1>3, <2>1, <2>2 DEF Served, Launched
  <2>4. \A u \in Tasks : \A r \in Datasets : got'[p][u][r] \in {got[p][u][r], {}}
    BY <2>2 DEF Nothing
  <2> QED BY <2>1, <2>2, <2>3, <2>4
<1>4. ASSUME NEW r \in ExecutionState, st' = [st EXCEPT ![p] = r],
             store' = store \/ Persist(p, r), Slotted,
             \A u \in Tasks : r.task[u] = "completed" =>
               st[p].task[u] = "completed" \/ out'[u].content # {},
             \A u \in Tasks : \/ out'[u] = out[u]
                              \/ out'[u].content # {} /\ \A d \in Reads[u] : got[p][u][d] # {}
      PROVE  Written'
  <2>1. st'[p] = r /\ \A q \in Procs \ {p} : st'[q] = st[q]
    BY <1>4 DEF TypeOK
  <2>2. store'.s \in {store.s, st'[p]}
    BY <1>4, <2>1, WrittenState
  <2>3. \A u \in Tasks : st'[p].task[u] = "completed" => Has(u) \/ out'[u].content # {}
    BY <1>1, <1>4, <2>1 DEF WrittenOf
  <2>4. \A u \in Tasks : \A d \in Datasets : got'[p][u][d] \in {got[p][u][d], {}, DatasetContent(d)}
    BY <1>4
  <2>5. \A u \in Tasks : Served(p, u)' => Served(p, u) /\ got'[p][u] = got[p][u]
    BY <1>4
  <2>6. \A q \in Procs \ {p} : phase'[q] = phase[q] /\ got'[q] = got[q]
    BY <1>4
  <2> HIDE DEF Slotted
  <2>7. /\ root' = root
        /\ \A q \in Procs \ {p} :
             /\ pc'[q] = pc[q] /\ st'[q] = st[q] /\ phase'[q] = phase[q] /\ got'[q] = got[q]
             /\ queue'[q] = queue[q] /\ cur'[q] = cur[q]
        /\ queue'[p] \union cur'[p] = queue[p] \union cur[p]
    BY <1>1, <2>1, <2>6
  <2>8. \A u \in Tasks : \/ out'[u] = out[u]
                         \/ out'[u].content # {} /\ \A d \in Reads[u] : got[p][u][d] # {}
    BY <1>4
  <2>9. \A u \in Tasks : store'.s.task[u] = "completed" =>
          store.s.task[u] = "completed" \/ st'[p].task[u] = "completed"
    BY <2>2
  <2> QED BY <2>3, <2>4, <2>5, <2>7, <2>8, <2>9, WrittenStep
<1> HIDE DEF Slotted
<1>5. CASE RunnerFinish(p, t) \/ HandlerThrows(p, t)
  <2>1. UNCHANGED <<st, store, out>> /\ st' = [st EXCEPT ![p] = st[p]]
    BY <1>5 DEF RunnerFinish, HandlerThrows, durable, TypeOK
  <2>2. PICK x \in Phase :
          /\ phase' = [phase EXCEPT ![p][t] = x] /\ got' = got
          /\ x \in Launched \union {"applied"} => phase[p][t] \in Launched \union {"applied"}
    BY <1>5 DEF RunnerFinish, HandlerThrows, Phase, Launched
  <2>3. Slotted
    BY <1>3, <2>2
  <2>4. \A u \in Tasks : st[p].task[u] = "completed" => st[p].task[u] = "completed" \/ out'[u].content # {}
    OBVIOUS
  <2> QED BY <1>1, <1>4, <2>1, <2>3, <2>4
<1>6. CASE HandlerApply(p, t)
  <2>1. /\ store' = store /\ phase' = [phase EXCEPT ![p][t] = "applied"] /\ got' = got
        /\ phase[p][t] \in Launched
    BY <1>6 DEF HandlerApply, Launched
  <2>2. Slotted
    BY <1>3, <2>1
  <2>3. CASE BackToPending(p, t)
    <3>1. PICK r \in ExecutionState : st' = [st EXCEPT ![p] = r]
      BY <2>3, BackDecides
    <3>2. st'[p] = r /\ out' = out /\ \A u \in Tasks : r.task[u] = "completed" => st[p].task[u] = "completed"
      <4>1. st'[p] = r
        BY <3>1 DEF TypeOK
      <4>2. Decides(st[p], st'[p], {t}) /\ st'[p].task[t] = "pending" /\ out' = out
        BY <2>3, BackDecides
      <4> QED BY <4>1, <4>2 DEF Decides
    <3> QED BY <1>4, <2>1, <2>2, <3>1, <3>2
  <2>4. ASSUME NEW hit \in BOOLEAN, Apply(p, t, hit) PROVE Written'
    <3>2. \A d \in Reads[t] : got[p][t][d] # {}
      BY <1>1, <2>1 DEF WrittenOf, Served
    <3>3. out'[t].content # {} /\ \A u \in Tasks \ {t} : out'[u] = out[u]
      BY <2>4, <3>2, AppliedOutput
    <3>4. PICK r \in ExecutionState : st' = [st EXCEPT ![p] = r]
      BY <2>4, ApplyEffect
    <3>5. \A u \in Tasks \ {t} : r.task[u] = "completed" => st[p].task[u] = "completed"
      <4>1. st'[p] = r
        BY <3>4 DEF TypeOK
      <4>2. Decides(st[p], st'[p], {t})
        BY <2>4, ApplyDecides
      <4> QED BY <4>1, <4>2 DEF Decides
    <3>6. \A u \in Tasks : r.task[u] = "completed" => st[p].task[u] = "completed" \/ out'[u].content # {}
      BY <3>3, <3>5
    <3>7. \A u \in Tasks : \/ out'[u] = out[u]
                           \/ out'[u].content # {} /\ \A d \in Reads[u] : got[p][u][d] # {}
      BY <3>2, <3>3
    <3> QED BY <1>4, <2>1, <2>2, <3>4, <3>6, <3>7
  <2>5. (phase[p][t] = "hit") \in BOOLEAN
    OBVIOUS
  <2> QED BY <1>6, <2>3, <2>4, <2>5 DEF HandlerApply
<1>7. ASSUME NEW r \in ExecutionState, st' = [st EXCEPT ![p] = r], Persist(p, r),
             Decides(st[p], r, {t}), out' = out, FreeSlot(p, t),
             r.task[t] = "completed" => st[p].task[t] = "completed"
      PROVE  Written'
  <2>1. Slotted
    BY <1>3, <1>7 DEF Launched
  <2>2. \A u \in Tasks : r.task[u] = "completed" => st[p].task[u] = "completed"
    BY <1>7 DEF Decides
  <2> QED BY <1>4, <1>7, <2>1, <2>2
<1>8. CASE HandlerDetect(p, t)
  <2>1. Detect(p) /\ FreeSlot(p, t) /\ out' = out
    BY <1>8 DEF HandlerDetect
  <2>2. PICK r \in ExecutionState :
          st' = [st EXCEPT ![p] = r] /\ Persist(p, r) /\ Decides(st[p], r, {})
    BY <2>1, DetectDecides
  <2>3. Decides(st[p], r, {t}) /\ (r.task[t] = "completed" => st[p].task[t] = "completed")
    BY <2>2 DEF Decides
  <2> QED BY <1>7, <2>1, <2>2, <2>3
<1>9. CASE HandlerStopped(p, t)
  <2>1. /\ st' = [st EXCEPT ![p] = SetTasks(st[p], {t}, "pending")]
        /\ Persist(p, SetTasks(st[p], {t}, "pending")) /\ out' = out /\ FreeSlot(p, t)
    BY <1>9 DEF HandlerStopped, BackToPending, TypeOK
  <2>2. /\ SetTasks(st[p], {t}, "pending") \in ExecutionState
        /\ Decides(st[p], SetTasks(st[p], {t}, "pending"), {t})
        /\ SetTasks(st[p], {t}, "pending").task[t] = "pending"
    BY <1>1, OneTaskTypes, SetOneDecides
  <2> QED BY <1>7, <2>1, <2>2
<1>10. CASE HandlerFailed(p, t)
  <2> DEFINE r == TasksSkipped(TaskFailed(st[p], t), ToSkip(TaskFailed(st[p], t), t))
  <2>1. st' = [st EXCEPT ![p] = r] /\ Persist(p, r) /\ out' = out /\ FreeSlot(p, t)
    BY <1>10 DEF HandlerFailed
  <2>2. r \in ExecutionState /\ Decides(st[p], r, {t}) /\ r.task[t] # "completed"
    BY <1>1, FailureDecides
  <2> HIDE DEF r
  <2> QED BY <1>7, <2>1, <2>2
<1>11. CASE HandlerFailTask(p, t)
  <2> DEFINE r == TaskFailed(st[p], t)
  <2>1. st' = [st EXCEPT ![p] = r] /\ Persist(p, r) /\ out' = out /\ FreeSlot(p, t)
    BY <1>11 DEF HandlerFailTask, TypeOK
  <2>2. r \in ExecutionState /\ Decides(st[p], r, {t}) /\ r.task[t] # "completed"
    BY <1>1, FailureDecides
  <2> HIDE DEF r
  <2> QED BY <1>7, <2>1, <2>2
<1> QED BY <1>5, <1>6, <1>8, <1>9, <1>10, <1>11

LEMMA LoopTaskWritten ==
  ASSUME NEW p \in Procs, NEW t \in Tasks, TypeOK, Slots, Written,
         \/ LoopWaiting(p, t) \/ LoopStart(p, t) \/ LoopHit(p, t) \/ LoopDetect(p, t)
  PROVE  Written'
<1>1. /\ t \in cur[p] /\ pc[p] \in {"wait", "start", "hit", "applied"} /\ UNCHANGED <<root, queue>>
      /\ st[p] \in ExecutionState /\ WrittenOf(p) /\ phase[p][t] = "none"
  BY DEF LoopWaiting, LoopStart, LoopHit, LoopDetect, NextLaunch, TypeOK, Written, pass,
         Slots, SlotsOf, InHand
<1>2. /\ \A u \in Tasks : \A r \in Datasets : got'[p][u][r] \in {got[p][u][r], {}}
      /\ \A q \in Procs \ {p} : phase'[q] = phase[q] /\ got'[q] = got[q]
      /\ \A u \in Tasks : phase'[p][u] = phase[p][u]
      /\ \A u \in Tasks \ {t} : got'[p][u] = got[p][u]
  <2>1. CASE phase' = phase /\ got' = got
    BY <2>1
  <2>2. CASE FreeSlot(p, t)
    <3>1. /\ \A u \in Tasks \ {t} : got'[p][u] = got[p][u]
          /\ got'[p][t] = Nothing
          /\ \A q \in Procs \ {p} : got'[q] = got[q]
      BY <2>2 DEF FreeSlot, TypeOK
    <3>2. \A r \in Datasets : Nothing[r] = {}
      BY DEF Nothing
    <3> QED BY <1>1, <2>2, <3>1, <3>2, FreeSlotAt
  <2> QED BY <2>1, <2>2 DEF LoopWaiting, LoopStart, LoopHit, LoopDetect, slots
<1>3. ASSUME NEW l \in {"launch", "applied"}, pc' = [pc EXCEPT ![p] = l],
             \/ cur' = [cur EXCEPT ![p] = {}]
             \/ cur' = [cur EXCEPT ![p] = {t}] /\ pc[p] = "start" /\ got' = got
             \/ cur' = cur /\ l = "applied"
      PROVE  /\ \A q \in Procs \ {p} : pc'[q] = pc[q] /\ cur'[q] = cur[q]
             /\ cur'[p] \subseteq cur[p]
             /\ \A u \in Tasks : Served(p, u)' => Served(p, u) /\ got'[p][u] = got[p][u]
  <2>1. pc'[p] = l /\ \A q \in Procs \ {p} : pc'[q] = pc[q]
    BY <1>3 DEF TypeOK
  <2>2. /\ \A q \in Procs \ {p} : cur'[q] = cur[q]
        /\ \/ cur'[p] = {}
           \/ cur'[p] = {t} /\ pc[p] = "start" /\ got' = got
           \/ cur'[p] = cur[p] /\ l = "applied"
    BY <1>3 DEF TypeOK
  <2>3. ASSUME NEW u \in Tasks, Served(p, u)' PROVE Served(p, u) /\ got'[p][u] = got[p][u]
    <3>1. CASE phase'[p][u] \in Launched \union {"applied"}
      <4>1. u # t
        BY <1>1, <1>2, <3>1 DEF Launched
      <4> QED BY <1>2, <3>1, <4>1 DEF Served
    <3>2. CASE u \in cur'[p] /\ l \in {"hit", "start", "launch"}
      BY <1>1, <2>2, <3>2 DEF Served
    <3> QED BY <2>1, <2>3, <3>1, <3>2 DEF Served
  <2> QED BY <1>1, <2>1, <2>2, <2>3
<1>4. ASSUME NEW r \in ExecutionState, st' = [st EXCEPT ![p] = r],
             store' = store \/ Persist(p, r),
             \A u \in Tasks : r.task[u] = "completed" =>
               st[p].task[u] = "completed" \/ out'[u].content # {},
             \A u \in Tasks : \/ out'[u] = out[u]
                              \/ out'[u].content # {} /\ \A d \in Reads[u] : got[p][u][d] # {},
             \A q \in Procs \ {p} : pc'[q] = pc[q] /\ cur'[q] = cur[q],
             cur'[p] \subseteq cur[p],
             \A u \in Tasks : Served(p, u)' => Served(p, u) /\ got'[p][u] = got[p][u]
      PROVE  Written'
  <2>1. st'[p] = r /\ \A q \in Procs \ {p} : st'[q] = st[q]
    BY <1>4 DEF TypeOK
  <2>2. store'.s \in {store.s, st'[p]}
    BY <1>4, <2>1, WrittenState
  <2>3. \A u \in Tasks : st'[p].task[u] = "completed" => Has(u) \/ out'[u].content # {}
    BY <1>1, <1>4, <2>1 DEF WrittenOf
  <2>4. \A u \in Tasks : \A d \in Datasets : got'[p][u][d] \in {got[p][u][d], {}, DatasetContent(d)}
    BY <1>2
  <2>5. \A q \in Procs \ {p} :
           /\ pc'[q] = pc[q] /\ st'[q] = st[q] /\ phase'[q] = phase[q] /\ got'[q] = got[q]
           /\ queue'[q] = queue[q] /\ cur'[q] = cur[q]
    BY <1>1, <1>2, <1>4, <2>1
  <2>6. \A u \in queue'[p] \union cur'[p] :
          \/ u \in queue[p] \union cur[p]
          \/ \A d \in DependsOn(u) : st[p].task[d] = "completed"
    BY <1>1, <1>4
  <2>7. /\ \A u \in Tasks : \/ out'[u] = out[u]
                            \/ out'[u].content # {} /\ \A d \in Reads[u] : got[p][u][d] # {}
        /\ \A u \in Tasks : Served(p, u)' => Served(p, u) /\ got'[p][u] = got[p][u]
    BY <1>4
  <2>8. root' = root
    BY <1>1
  <2>9. \A u \in Tasks : store'.s.task[u] = "completed" =>
           store.s.task[u] = "completed" \/ st'[p].task[u] = "completed"
    BY <2>2
  <2>10. \A u \in Tasks : Served(p, u)' =>
           \/ Served(p, u) /\ got'[p][u] = got[p][u]
           \/ \A d \in Reads[u] : got'[p][u][d] # {}
    BY <2>7
  <2> QED BY <2>3, <2>4, <2>5, <2>6, <2>7, <2>8, <2>9, <2>10, WrittenStep
<1>5. ASSUME NEW r \in ExecutionState, st' = [st EXCEPT ![p] = r], Persist(p, r) \/ store' = store,
             Decides(st[p], r, {t}), out' = out,
             r.task[t] = "completed" => st[p].task[t] = "completed",
             pc' = [pc EXCEPT ![p] = "launch"],
             \/ cur' = [cur EXCEPT ![p] = {}]
             \/ cur' = [cur EXCEPT ![p] = {t}] /\ pc[p] = "start" /\ got' = got
      PROVE  Written'
  <2>1. \A u \in Tasks : r.task[u] = "completed" => st[p].task[u] = "completed"
    BY <1>5 DEF Decides
  <2>2. /\ \A q \in Procs \ {p} : pc'[q] = pc[q] /\ cur'[q] = cur[q]
        /\ cur'[p] \subseteq cur[p]
        /\ \A u \in Tasks : Served(p, u)' => Served(p, u) /\ got'[p][u] = got[p][u]
    BY <1>3, <1>5
  <2> QED BY <1>4, <1>5, <2>1, <2>2
<1>6. CASE LoopWaiting(p, t)
  <2>1. /\ st' = [st EXCEPT ![p] = TasksWaiting(st[p], t)] /\ Persist(p, TasksWaiting(st[p], t))
        /\ pc' = [pc EXCEPT ![p] = "launch"] /\ cur' = [cur EXCEPT ![p] = {}] /\ out' = out
    BY <1>6 DEF LoopWaiting, NextLaunch, TypeOK
  <2>2. /\ TasksWaiting(st[p], t) \in ExecutionState /\ Decides(st[p], TasksWaiting(st[p], t), {t})
        /\ TasksWaiting(st[p], t).task[t] = "waiting"
    BY <1>1, OneTaskTypes, TasksWaitingDecides
  <2> QED BY <1>5, <2>1, <2>2
<1>7. CASE LoopStart(p, t)
  <2>1. /\ st' = [st EXCEPT ![p] = TaskStarted(st[p], t)] /\ Persist(p, TaskStarted(st[p], t))
        /\ pc' = [pc EXCEPT ![p] = "launch"] /\ cur' = [cur EXCEPT ![p] = {t}] /\ out' = out
        /\ pc[p] = "start" /\ got' = got
    BY <1>7 DEF LoopStart, NextLaunch, TypeOK, slots
  <2>2. /\ TaskStarted(st[p], t) \in ExecutionState /\ Decides(st[p], TaskStarted(st[p], t), {t})
        /\ TaskStarted(st[p], t).task[t] = "in_progress"
    BY <1>1, OneTaskTypes, SetOneDecides DEF TaskStarted
  <2> QED BY <1>5, <2>1, <2>2
<1>8. CASE LoopDetect(p, t)
  <2>1. /\ Detect(p) /\ out' = out
        /\ pc' = [pc EXCEPT ![p] = "launch"] /\ cur' = [cur EXCEPT ![p] = {}]
    BY <1>8 DEF LoopDetect, NextLaunch
  <2>2. PICK r \in ExecutionState :
          st' = [st EXCEPT ![p] = r] /\ Persist(p, r) /\ Decides(st[p], r, {})
    BY <2>1, DetectDecides
  <2>3. Decides(st[p], r, {t}) /\ (r.task[t] = "completed" => st[p].task[t] = "completed")
    BY <2>2 DEF Decides
  <2> QED BY <1>5, <2>1, <2>2, <2>3
<1>9. CASE LoopHit(p, t)
  <2>1. store' = store /\ pc[p] = "hit"
    BY <1>9 DEF LoopHit
  <2>2. CASE BackToPending(p, t) /\ NextLaunch(p, TRUE, {})
    <3>1. pc' = [pc EXCEPT ![p] = "launch"] /\ cur' = [cur EXCEPT ![p] = {}]
      BY <2>2 DEF NextLaunch
    <3>2. PICK r \in ExecutionState : st' = [st EXCEPT ![p] = r]
      BY <2>2, BackDecides
    <3>3. st'[p] = r
      BY <3>2 DEF TypeOK
    <3>4. Decides(st[p], st'[p], {t}) /\ st'[p].task[t] = "pending" /\ out' = out
      BY <2>2, BackDecides
    <3> QED BY <1>5, <2>1, <3>1, <3>2, <3>3, <3>4
  <2>3. CASE Apply(p, t, TRUE) /\ pc' = [pc EXCEPT ![p] = "applied"] /\ cur' = cur
    <3>1. \A d \in Reads[t] : got[p][t][d] # {}
      BY <1>1, <2>1 DEF WrittenOf, Served
    <3>2. out'[t].content # {} /\ \A u \in Tasks \ {t} : out'[u] = out[u]
      BY <2>3, <3>1, AppliedOutput
    <3>3. PICK r \in ExecutionState : st' = [st EXCEPT ![p] = r]
      BY <2>3, ApplyEffect
    <3>4. \A u \in Tasks \ {t} : r.task[u] = "completed" => st[p].task[u] = "completed"
      <4>1. st'[p] = r
        BY <3>3 DEF TypeOK
      <4>2. Decides(st[p], st'[p], {t})
        BY <2>3, ApplyDecides
      <4> QED BY <4>1, <4>2 DEF Decides
    <3>5. \A u \in Tasks : r.task[u] = "completed" => st[p].task[u] = "completed" \/ out'[u].content # {}
      BY <3>2, <3>4
    <3>6. \A u \in Tasks : \/ out'[u] = out[u]
                           \/ out'[u].content # {} /\ \A d \in Reads[u] : got[p][u][d] # {}
      BY <3>1, <3>2
    <3>7. /\ \A q \in Procs \ {p} : pc'[q] = pc[q] /\ cur'[q] = cur[q]
          /\ cur'[p] \subseteq cur[p]
          /\ \A u \in Tasks : Served(p, u)' => Served(p, u) /\ got'[p][u] = got[p][u]
      BY <1>3, <2>3
    <3> QED BY <1>4, <2>1, <3>3, <3>5, <3>6, <3>7
  <2> QED BY <1>9, <2>2, <2>3 DEF LoopHit, pass
<1> QED BY <1>6, <1>7, <1>8, <1>9

\* The launch pass takes its tasks from those whose dependencies completed.
LEMMA PassWritten ==
  ASSUME NEW p \in Procs, TypeOK, Slots, Written, Top(p) \/ Launch(p)
  PROVE  Written'
<1>1. /\ UNCHANGED <<root, out, store, got>> /\ st[p] \in ExecutionState /\ WrittenOf(p)
      /\ pc[p] = "top" => cur[p] = {}
  BY DEF Top, Launch, PrepareNext, EndPass, durable, slots, TypeOK, Written, Slots, SlotsOf, InHand,
         Preparing
<1>2. \A t \in GetReady(st[p]) : \A d \in DependsOn(t) : st[p].task[d] = "completed"
  BY DEF GetReady, GetReadyTasks, TasksIn
<1>3. ASSUME NEW ready, NEW sync, PrepareNext(p, ready, sync) \/ EndPass(p, ready, sync),
             pc[p] \in {"top", "launch"},
             \A t \in ready : \/ t \in queue[p]
                             \/ \A d \in DependsOn(t) : st[p].task[d] = "completed"
      PROVE  Written'
  <2>1. PICK ts : st' = [st EXCEPT ![p] = Deferred(p, ts)]
    BY <1>3 DEF PrepareNext, EndPass
  <2>1a. PICK l : pc' = [pc EXCEPT ![p] = l]
    BY <1>3 DEF PrepareNext, EndPass
  <2>1b. PICK x : cur' = [cur EXCEPT ![p] = x] /\ x \subseteq ready /\ (x = {} \/ pc' = [pc EXCEPT ![p] = "read"])
    <3>1. PrepareNext(p, ready, sync) => /\ pc' = [pc EXCEPT ![p] = "read"]
                                         /\ \E t \in ready : cur' = [cur EXCEPT ![p] = {t}]
      BY DEF PrepareNext
    <3>2. EndPass(p, ready, sync) => cur' = [cur EXCEPT ![p] = {}] /\ {} \subseteq ready
      BY DEF EndPass
    <3>3. \A t \in ready : {t} \subseteq ready
      OBVIOUS
    <3> QED BY <1>3, <3>1, <3>2, <3>3
  <2>1c. PICK y : queue' = [queue EXCEPT ![p] = y] /\ y \subseteq ready
    <3>1. PrepareNext(p, ready, sync) =>
            \E t \in ready, b \in SUBSET ready : queue' = [queue EXCEPT ![p] = ready \ (b \union {t})]
      BY DEF PrepareNext
    <3>2. EndPass(p, ready, sync) => queue' = [queue EXCEPT ![p] = {}] /\ {} \subseteq ready
      BY DEF EndPass
    <3>3. \A t, b : ready \ (b \union {t}) \subseteq ready
      OBVIOUS
    <3> QED BY <1>3, <3>1, <3>2, <3>3, Zenon
  <2>2. /\ \A q \in Procs \ {p} : /\ pc'[q] = pc[q] /\ st'[q] = st[q]
                                 /\ queue'[q] = queue[q] /\ cur'[q] = cur[q]
        /\ st'[p] = Deferred(p, ts) /\ cur'[p] = x /\ queue'[p] = y
        /\ x = {} \/ pc'[p] = "read"
    BY <2>1, <2>1a, <2>1b, <2>1c DEF TypeOK
  <2>3. /\ \A u \in Tasks : phase'[p][u] = IF u \in cur[p] THEN "running" ELSE phase[p][u]
        /\ \A q \in Procs \ {p} : phase'[q] = phase[q]
    BY <1>3 DEF PrepareNext, EndPass, LaunchCur, TypeOK
  <2>4. \A u \in Tasks : st'[p].task[u] = "completed" => st[p].task[u] = "completed"
    BY <1>1, <2>2, DeferredDecides DEF Decides
  <2>5. \A u \in Tasks : Served(p, u)' => Served(p, u) /\ got'[p][u] = got[p][u]
    BY <1>1, <1>3, <2>2, <2>3 DEF Served, Launched
  <2>6. \A u \in queue'[p] \union cur'[p] :
          \/ u \in queue[p] \union cur[p]
          \/ \A d \in DependsOn(u) : st[p].task[d] = "completed"
    BY <1>3, <2>1b, <2>1c, <2>2
  <2>7. \A u \in Tasks : st'[p].task[u] = "completed" => Has(u) \/ out'[u].content # {}
    BY <1>1, <2>4 DEF WrittenOf
  <2> QED BY <1>1, <2>2, <2>3, <2>5, <2>6, <2>7, WrittenStep
<1>4. CASE pc[p] = "top" /\ pc' = [pc EXCEPT ![p] = "drain"]
              /\ UNCHANGED <<durable, st, pass, slots, flags>>
  <2>1. pc'[p] = "drain" /\ \A q \in Procs \ {p} : pc'[q] = pc[q]
    BY <1>4 DEF TypeOK
  <2>2. UNCHANGED <<root, out, store, st, queue, cur, phase, got>>
    BY <1>4 DEF durable, pass, slots
  <2>3. \A u \in Tasks : Served(p, u)' => Served(p, u) /\ got'[p][u] = got[p][u]
    BY <1>1, <1>4, <2>1, <2>2 DEF Served
  <2>4. \A u \in Tasks : st'[p].task[u] = "completed" => Has(u) \/ out'[u].content # {}
    BY <1>1, <2>2 DEF WrittenOf
  <2> QED BY <1>1, <2>1, <2>2, <2>3, <2>4, WrittenStep
<1> QED BY <1>2, <1>3, <1>4 DEF Top, Launch

\* A read of an input takes what is there.
LEMMA ReadWritten ==
  ASSUME NEW p \in Procs, NEW t \in Tasks, NEW d \in Datasets, TypeOK, Unused, Slots, Written,
         ReadInput(p, t, d)
  PROVE  Written'
<1> DEFINE read == [got[p][t] EXCEPT ![d] = DatasetContent(d)]
<1>1. PICK l \in {"read", "wait", "hit", "start"} : pc' = [pc EXCEPT ![p] = l]
  BY ReadInputTarget
<1>2. /\ UNCHANGED <<root, out, store, st, queue, cur, phase>>
      /\ pc[p] = "read" /\ t \in cur[p] /\ d \in left[p]
      /\ got' = [got EXCEPT ![p][t] = read]
  BY DEF ReadInput, durable, flags
<1>3. /\ pc'[p] = l /\ got'[p][t] = read
      /\ \A u \in Tasks \ {t} : got'[p][u] = got[p][u]
      /\ \A q \in Procs \ {p} : got'[q] = got[q] /\ pc'[q] = pc[q]
      /\ \A r \in Datasets : read[r] = IF r = d THEN DatasetContent(d) ELSE got[p][t][r]
  <2>1. got[p][t] \in [Datasets -> Content]
    BY DEF TypeOK
  <2>2. \A r \in Datasets : read[r] = IF r = d THEN DatasetContent(d) ELSE got[p][t][r]
    BY <2>1
  <2> HIDE DEF read
  <2>3. /\ pc'[p] = l /\ got'[p][t] = read
        /\ \A u \in Tasks \ {t} : got'[p][u] = got[p][u]
        /\ \A q \in Procs \ {p} : got'[q] = got[q] /\ pc'[q] = pc[q]
    BY <1>1, <1>2 DEF TypeOK
  <2> QED BY <2>2, <2>3
<1>4. cur[p] = {t} /\ phase[p][t] = "none" /\ WrittenOf(p)
  BY <1>2 DEF Unused, Slots, SlotsOf, InHand, Written
<1>5. l \in {"hit", "start"} => \A r \in Reads[t] : read[r] # {}
  <2>1. pc'[p] = CASE left[p] # {d} -> "read"
                   [] left[p] = {d} /\ \E r \in Reads[t] : read[r] = {} -> "wait"
                   [] left[p] = {d} /\ \A r \in Reads[t] : read[r] # {} ->
                        IF /\ t \notin Forced
                           /\ <<t, read>> \in cache
                           /\ out[t].content = Output(t, read)
                        THEN "hit" ELSE "start"
    BY DEF ReadInput, TypeOK
  <2> HIDE DEF read
  <2>2. CASE left[p] # {d}
    BY <1>3, <2>1, <2>2
  <2>3. CASE left[p] = {d} /\ \E r \in Reads[t] : read[r] = {}
    <3>1. pc'[p] = "wait"
      BY <2>1, <2>3
    <3> QED BY <1>3, <2>3, <3>1
  <2>4. CASE left[p] = {d} /\ \A r \in Reads[t] : read[r] # {}
    BY <2>4
  <2> QED BY <2>2, <2>3, <2>4
<1> HIDE DEF read
<1>6. "none" \notin Launched \union {"applied"}
  BY DEF Launched
<1>7. \A u \in Tasks : Served(p, u)' =>
        \/ Served(p, u) /\ got'[p][u] = got[p][u]
        \/ \A r \in Reads[u] : got'[p][u][r] # {}
  BY <1>2, <1>3, <1>4, <1>5, <1>6 DEF Served
<1>8. \A u \in Tasks : \A r \in Datasets :
        got'[p][u][r] \in {got[p][u][r], {}, DatasetContent(r)}
  BY <1>3
<1>9. \A q \in Procs \ {p} :
        /\ pc'[q] = pc[q] /\ st'[q] = st[q] /\ phase'[q] = phase[q] /\ got'[q] = got[q]
        /\ queue'[q] = queue[q] /\ cur'[q] = cur[q]
  BY <1>2, <1>3
<1>10. \A u \in queue'[p] \union cur'[p] :
         \/ u \in queue[p] \union cur[p]
         \/ \A r \in DependsOn(u) : st[p].task[r] = "completed"
  BY <1>2
<1>11. \A u \in Tasks : st'[p].task[u] = "completed" => Has(u) \/ out'[u].content # {}
  BY <1>2, <1>4 DEF WrittenOf
<1>12. \A u \in Tasks : \/ out'[u] = out[u]
                        \/ out'[u].content # {} /\ \A r \in Reads[u] : got[p][u][r] # {}
  BY <1>2
<1>13. \A u \in Tasks : store'.s.task[u] = "completed" =>
         store.s.task[u] = "completed" \/ st'[p].task[u] = "completed"
  BY <1>2
<1>14. root' = root
  BY <1>2
<1> QED BY <1>7, <1>8, <1>9, <1>10, <1>11, <1>12, <1>13, <1>14, WrittenStep

\* What else a run does completes nothing and writes no output.
LEMMA OtherWritten ==
  ASSUME NEW p \in Procs, TypeOK, Written,
         Race(p) \/ DrainStuck(p) \/ LoopThrows(p) \/ RequestCancel(p) \/ Ends(p)
  PROVE  Written'
<1>1. UNCHANGED <<root, out>> /\ WrittenOf(p) /\ st[p] \in ExecutionState /\ store.s \in ExecutionState
  BY DEF Race, DrainStuck, LoopThrows, RequestCancel, Ends, YieldCheckpoint, LetGo, Forget, EndCancelled,
         DrainCancelled, DrainFinalize, EndFailed, Crash, durable, Written, TypeOK
<1>2. \E l \in {"top", "throwing", "drain", "leaving", "yielded", "cancelled", "finished",
             "failed", "dead"} :
        pc' = [pc EXCEPT ![p] = l] \/ pc' = pc
  BY DEF Race, DrainStuck, LoopThrows, RequestCancel, Ends, YieldCheckpoint, LetGo, Forget, EndCancelled, Leave,
         DrainCancelled, DrainFinalize, EndFailed, Crash
<1>3. /\ \A q \in Procs \ {p} : pc'[q] = pc[q]
      /\ pc'[p] \in {"hit", "start", "launch"} => pc'[p] = pc[p]
  BY <1>2 DEF TypeOK
<1>4. \/ UNCHANGED <<phase, got>> \/ \E t \in Tasks : FreeSlot(p, t)
      \/ /\ phase' = [phase EXCEPT ![p] = [t \in Tasks |-> "none"]]
         /\ got' = [got EXCEPT ![p] = [t \in Tasks |-> Nothing]]
  BY DEF Race, DrainStuck, LoopThrows, RequestCancel, Ends, YieldCheckpoint, LetGo, Forget, EndCancelled,
         DrainCancelled, DrainFinalize, EndFailed, Crash, slots, TypeOK
<1>5. /\ \A q \in Procs \ {p} : phase'[q] = phase[q] /\ got'[q] = got[q]
      /\ \A u \in Tasks : \/ phase'[p][u] = phase[p][u] /\ got'[p][u] = got[p][u]
                          \/ phase'[p][u] = "none" /\ got'[p][u] = Nothing
  <2>1. CASE \E t \in Tasks : FreeSlot(p, t)
    <3>1. PICK t \in Tasks : FreeSlot(p, t)
      BY <2>1
    <3>2. got' = [got EXCEPT ![p][t] = Nothing]
      BY <3>1 DEF FreeSlot
    <3>3. \A q \in Procs \ {p} : phase'[q] = phase[q] /\ got'[q] = got[q]
      BY <3>1, <3>2, FreeSlotAt DEF TypeOK
    <3> QED BY <3>1, <3>3, FreedSlot
  <2>2. CASE UNCHANGED <<phase, got>>
    BY <2>2
  <2>3. CASE /\ phase' = [phase EXCEPT ![p] = [t \in Tasks |-> "none"]]
             /\ got' = [got EXCEPT ![p] = [t \in Tasks |-> Nothing]]
    BY <2>3 DEF TypeOK
  <2> QED BY <1>4, <2>1, <2>2, <2>3
<1>6. \/ UNCHANGED <<queue, cur>>
      \/ queue' = [queue EXCEPT ![p] = {}] /\ cur' = [cur EXCEPT ![p] = {}]
  BY DEF Race, DrainStuck, LoopThrows, RequestCancel, Ends, YieldCheckpoint, LetGo, Forget, EndCancelled,
         DrainCancelled, DrainFinalize, EndFailed, Crash, pass
<1>7. /\ \A q \in Procs \ {p} : queue'[q] = queue[q] /\ cur'[q] = cur[q]
      /\ queue'[p] \subseteq queue[p] /\ cur'[p] \in {cur[p], {}}
  BY <1>6 DEF TypeOK
<1>8. /\ \A q \in Procs \ {p} : st'[q] = st[q]
      /\ \A u \in Tasks : st'[p].task[u] = "completed" => st[p].task[u] = "completed"
  <2>1. st' = st \/ \E s \in {Yield(st[p]), Cancel(Yield(st[p])), Finalize(st[p]), NoState} :
                      st' = [st EXCEPT ![p] = s]
    BY DEF Race, DrainStuck, LoopThrows, RequestCancel, Ends, YieldCheckpoint, LetGo, Forget, EndCancelled,
           DrainCancelled, DrainFinalize, EndFailed, Crash
  <2>2. \A u \in Tasks :
          /\ Yield(st[p]).task[u] = "completed" => st[p].task[u] = "completed"
          /\ Cancel(Yield(st[p])).task[u] = "completed" => st[p].task[u] = "completed"
          /\ Finalize(st[p]).task[u] = "completed" => st[p].task[u] = "completed"
          /\ NoState.task[u] # "completed"
    <3>1. [i \in Inputs |-> Unassigned] \in [Inputs -> Values \union {Unassigned}]
      OBVIOUS
    <3>2. \A u \in Tasks : NoState.task[u] # "completed"
      BY <3>1, InitializeAt DEF NoState
    <3>3. Yield(st[p]) \in ExecutionState
      BY <1>1, EndTypes
    <3> QED BY <1>1, <3>2, <3>3, YieldAt, EndAt
  <2>3. CASE st' = st
    BY <2>3
  <2>4. ASSUME NEW s \in {Yield(st[p]), Cancel(Yield(st[p])), Finalize(st[p]), NoState},
               st' = [st EXCEPT ![p] = s]
        PROVE  /\ \A q \in Procs \ {p} : st'[q] = st[q]
               /\ \A u \in Tasks : st'[p].task[u] = "completed" => st[p].task[u] = "completed"
    <3>1. st'[p] = s /\ \A q \in Procs \ {p} : st'[q] = st[q]
      BY <2>4 DEF TypeOK
    <3> QED BY <2>2, <2>4, <3>1
  <2> QED BY <2>1, <2>3, <2>4
<1>9. \A u \in Tasks : store'.s.task[u] = "completed" =>
         store.s.task[u] = "completed" \/ st[p].task[u] = "completed"
  <2>1. store' = store \/ \E s \in {Yield(st[p]), Cancel(Yield(st[p])), Finalize(st[p]),
                                    [store.s EXCEPT !.status = "failed"]} : Write(p, s)
    BY DEF Race, DrainStuck, LoopThrows, RequestCancel, Ends, YieldCheckpoint, LetGo, Forget, EndCancelled,
           DrainCancelled, DrainFinalize, EndFailed, Crash, durable
  <2>2. /\ \A s \in {Yield(st[p]), Cancel(Yield(st[p])), Finalize(st[p]),
                                    [store.s EXCEPT !.status = "failed"]} : s \in ExecutionState
        /\ \A u \in Tasks :
          /\ Yield(st[p]).task[u] = "completed" => st[p].task[u] = "completed"
          /\ Cancel(Yield(st[p])).task[u] = "completed" => st[p].task[u] = "completed"
          /\ Finalize(st[p]).task[u] = "completed" => st[p].task[u] = "completed"
          /\ [store.s EXCEPT !.status = "failed"].task[u] = store.s.task[u]
    <3>1. /\ Yield(st[p]) \in ExecutionState /\ Finalize(st[p]) \in ExecutionState
          /\ Cancel(Yield(st[p])) \in ExecutionState
          /\ [store.s EXCEPT !.status = "failed"] \in ExecutionState
      BY <1>1, EndTypes
    <3>2. [store.s EXCEPT !.status = "failed"].task = store.s.task
      BY <1>1 DEF ExecutionState
    <3> QED BY <1>1, <3>1, <3>2, YieldAt, EndAt
  <2>3. CASE store' = store
    BY <2>3
  <2>4. ASSUME NEW s \in {Yield(st[p]), Cancel(Yield(st[p])), Finalize(st[p]),
                          [store.s EXCEPT !.status = "failed"]}, Write(p, s)
        PROVE  \A u \in Tasks : store'.s.task[u] = "completed" =>
                 store.s.task[u] = "completed" \/ st[p].task[u] = "completed"
    <3>1. s \in ExecutionState
      BY <2>2
    <3>2. store'.s = store.s \/ store'.s = s
      BY <2>4, <3>1, WrittenState
    <3>3. ASSUME NEW u \in Tasks, s.task[u] = "completed"
          PROVE  store.s.task[u] = "completed" \/ st[p].task[u] = "completed"
      BY <2>2, <2>4, <3>3
    <3> QED BY <3>2, <3>3
  <2> QED BY <2>1, <2>3, <2>4
<1>10. /\ \A d \in Datasets : Has(d)' <=> Has(d)
       /\ \A u \in Tasks : Reads[u] \subseteq Datasets /\ DependsOn(u) \subseteq Datasets
       /\ Tasks \subseteq Datasets
  BY <1>1, GraphAssumption DEF Has, DatasetContent, GraphAssumption, Datasets, DependsOn
<1>11. \A u \in Tasks : Served(p, u)' => Served(p, u) /\ got'[p][u] = got[p][u]
  <2>1. UNCHANGED <<phase, got>> \/ cur'[p] = {}
    BY DEF Race, DrainStuck, LoopThrows, RequestCancel, Ends, YieldCheckpoint, LetGo, Forget, EndCancelled,
           DrainCancelled, DrainFinalize, EndFailed, Crash, slots, TypeOK
  <2> QED BY <1>3, <1>5, <1>7, <2>1 DEF Served, Launched
<1>12. \A u \in Tasks : \A r \in Datasets : Nothing[r] = {}
  BY DEF Nothing
<1>13. ASSUME NEW q \in Procs \ {p} PROVE WrittenOf(q)'
  <2>1. WrittenOf(q)
    BY DEF Written
  <2>2. \A t \in Tasks : Served(q, t)' <=> Served(q, t)
    BY <1>3, <1>5, <1>7 DEF Served
  <2>3. \A t \in queue[q] \union cur[q] : t \in Tasks
    BY DEF TypeOK
  <2> QED BY <1>3, <1>5, <1>7, <1>8, <1>10, <2>1, <2>2, <2>3 DEF WrittenOf
<1>14. WrittenOf(p)'
  <2>1. \A t \in queue[p] \union cur[p] : t \in Tasks
    BY DEF TypeOK
  <2>2. \A t \in Tasks : st'[p].task[t] = "completed" => Has(t)'
    BY <1>1, <1>8, <1>10 DEF WrittenOf
  <2>3. \A t \in Tasks : Served(p, t)' => \A r \in Reads[t] : got'[p][t][r] # {}
    BY <1>1, <1>11 DEF WrittenOf
  <2>4. \A t \in Tasks : \A r \in Datasets : got'[p][t][r] # {} => Has(r)'
    BY <1>1, <1>5, <1>10, <1>12 DEF WrittenOf
  <2>5. \A t \in queue'[p] \union cur'[p] : \A d \in DependsOn(t) : Has(d)'
    BY <1>1, <1>7, <1>10, <2>1 DEF WrittenOf
  <2> QED BY <2>2, <2>3, <2>4, <2>5 DEF WrittenOf
<1>15. /\ \A t \in Tasks : store'.s.task[t] = "completed" => Has(t)'
       /\ \A t \in Tasks : Has(t)' => \A r \in Reads[t] : Has(r)'
  BY <1>1, <1>9, <1>10 DEF Written, WrittenOf
<1> QED BY <1>13, <1>14, <1>15 DEF Written

\* A run begins with nothing completed but what the store holds completed.
LEMMA BeginWritten ==
  ASSUME NEW p \in Procs, TypeOK, Unused, Ownership, Written, Start(p) \/ Resume(p)
  PROVE  Written'
<1>1. ASSUME NEW s \in ExecutionState, NEW id, Begin(p, s, id),
             \A u \in Tasks : s.task[u] = "completed" => store.s.task[u] = "completed"
      PROVE  Written'
  <2>1. /\ UNCHANGED <<root, out, queue, cur, phase, got>> /\ store' = [id |-> id, s |-> s]
        /\ st' = [st EXCEPT ![p] = s] /\ pc' = [pc EXCEPT ![p] = "top"] /\ pc[p] = "idle"
    BY <1>1 DEF Begin, pass, slots
  <2>2. /\ st'[p] = s /\ pc'[p] = "top" /\ store'.s = s
        /\ \A q \in Procs \ {p} : st'[q] = st[q] /\ pc'[q] = pc[q]
    BY <2>1 DEF TypeOK
  <2>3. \A u \in Tasks : st'[p].task[u] = "completed" => Has(u) \/ out'[u].content # {}
    BY <1>1, <2>2 DEF Written
  <2>4. \A u \in Tasks : Served(p, u)' => Served(p, u) /\ got'[p][u] = got[p][u]
    BY <2>1, <2>2 DEF Served
  <2>5. \A q \in Procs \ {p} :
          /\ pc'[q] = pc[q] /\ st'[q] = st[q] /\ phase'[q] = phase[q] /\ got'[q] = got[q]
          /\ queue'[q] = queue[q] /\ cur'[q] = cur[q]
    BY <2>1, <2>2
  <2>6. \A u \in Tasks : store'.s.task[u] = "completed" =>
          store.s.task[u] = "completed" \/ st'[p].task[u] = "completed"
    BY <2>2
  <2> QED BY <2>1, <2>3, <2>4, <2>5, <2>6, WrittenStep
<1>2. CASE Start(p)
  <2>1. root \in [Inputs -> Values \union {Unassigned}]
    BY DEF TypeOK
  <2>2. \A u \in Tasks : Initialize(root).task[u] # "completed"
    BY <2>1, InitializeAt
  <2> QED BY <1>1, <1>2, <2>1, <2>2, InitializeType DEF Start
<1>3. CASE Resume(p)
  <2>1. store.s \in ExecutionState
    BY DEF TypeOK
  <2>2. \A u \in Tasks : Yield(store.s).task[u] = "completed" => store.s.task[u] = "completed"
    BY <2>1, YieldAt
  <2> QED BY <1>1, <1>3, <2>1, <2>2, EndTypes DEF Resume
<1> QED BY <1>2, <1>3

\* A dataset once set is never unassigned again.
LEMMA SetWritten ==
  ASSUME NEW i \in Inputs, NEW v \in Values, TypeOK, Written, SetInput(i, v)
  PROVE  Written'
<1>1. /\ root' = [root EXCEPT ![i] = v]
      /\ UNCHANGED <<out, store, pc, st, queue, cur, phase, got>>
  BY DEF SetInput, pass, slots
<1>2. \A d \in Datasets : Has(d) => Has(d)'
  <2>1. \A j \in Inputs : root[j] # Unassigned => root'[j] # Unassigned
    BY <1>1, InputValues DEF TypeOK
  <2>2. \A d \in Inputs : Has(d)' <=> root'[d] # Unassigned
    BY DEF Has, DatasetContent, VersionOf
  <2>3. \A d \in Inputs : Has(d) => Has(d)'
    BY <2>1, <2>2, HasAt
  <2>4. \A d \in Datasets \ Inputs : Has(d) => Has(d)'
    BY <1>1 DEF Has, DatasetContent
  <2> QED BY <2>3, <2>4
<1>3. \A t \in Tasks : Has(t)' <=> Has(t)
  BY <1>1, GraphAssumption DEF Has, DatasetContent, GraphAssumption
<1>4. /\ Tasks \subseteq Datasets /\ \A t \in Tasks : Reads[t] \subseteq Datasets
      /\ \A t \in Tasks : DependsOn(t) \subseteq Datasets
  BY GraphAssumption DEF GraphAssumption, Datasets, DependsOn
<1>5. ASSUME NEW p \in Procs PROVE WrittenOf(p)'
  <2>1. WrittenOf(p)
    BY DEF Written
  <2>2. \A t \in Tasks : Served(p, t)' <=> Served(p, t)
    BY <1>1 DEF Served
  <2>3. queue[p] \union cur[p] \subseteq Tasks
    BY DEF TypeOK
  <2>4. \A t \in queue'[p] \union cur'[p] : \A d \in DependsOn(t) : Has(d)'
    BY <1>1, <1>2, <1>4, <2>1, <2>3 DEF WrittenOf
  <2>5. \A t \in Tasks : \A r \in Datasets : got'[p][t][r] # {} => Has(r)'
    BY <1>1, <1>2, <2>1 DEF WrittenOf
  <2> QED BY <1>1, <1>3, <2>1, <2>2, <2>4, <2>5 DEF WrittenOf
<1> QED BY <1>1, <1>2, <1>3, <1>4, <1>5 DEF Written

LEMMA InitWritten == Init => Written
<1> SUFFICES ASSUME Init PROVE Written
  OBVIOUS
<1>1. [i \in Inputs |-> Unassigned] \in [Inputs -> Values \union {Unassigned}]
  OBVIOUS
<1>2. \A t \in Tasks : NoState.task[t] # "completed"
  BY <1>1, InitializeAt DEF NoState
<1>3. store.s = NoState /\ \A p \in Procs : st[p] = NoState
  BY DEF Init
<1>4. \A t \in Tasks : ~Has(t)
  BY HasAt DEF Init, NoRef
<1>5. ASSUME NEW p \in Procs PROVE WrittenOf(p)
  <2>1. \A t \in Tasks : \A r \in Datasets : got[p][t][r] = {}
    BY DEF Init, Nothing
  <2>2. \A t \in Tasks : ~Served(p, t)
    BY DEF Init, Served, Launched
  <2>3. queue[p] = {} /\ cur[p] = {}
    BY DEF Init
  <2> QED BY <1>2, <1>3, <2>1, <2>2, <2>3 DEF WrittenOf
<1> QED BY <1>2, <1>3, <1>4, <1>5 DEF Written

LEMMA NextWritten ==
  ASSUME TypeOK, Ownership, Slots, Unused, Written, [Next]_vars
  PROVE  Written'
<1>1. CASE UNCHANGED vars
  <2>1. UNCHANGED <<root, out, store, pc, st, queue, cur, phase, got>>
    BY <1>1 DEF vars, durable, pass, slots
  <2>2. (\A d : Has(d)' <=> Has(d)) /\ \A p \in Procs : \A t \in Tasks : Served(p, t)' <=> Served(p, t)
    BY <2>1 DEF Has, DatasetContent, Served
  <2> QED BY <2>1, <2>2 DEF Written, WrittenOf
<1>2. ASSUME NEW p \in Procs, LoopStep(p) PROVE Written'
  BY <1>2, PassWritten, OtherWritten, ReadWritten, LoopTaskWritten DEF LoopStep, Ends
<1>3. ASSUME NEW p \in Procs, EndCancelled(p) \/ Crash(p) PROVE Written'
  BY <1>3, OtherWritten DEF Ends
<1> QED BY <1>1, <1>2, <1>3, SetWritten, BeginWritten, OtherWritten, HandlerWritten DEF Next

LEMMA AlwaysWritten == Spec => []Written
<1>1. Init => Unused /\ Written
  BY InitUnused, InitWritten
<1>2. TypeOK /\ Ownership /\ Unused /\ [Next]_vars => Unused'
  BY NextUnused
<1>3. TypeOK /\ Ownership /\ Slots /\ Unused /\ Written /\ [Next]_vars => Written'
  BY NextWritten
<1> QED BY <1>1, <1>2, <1>3, AlwaysSlots, PTL DEF Spec

-----------------------------------------------------------------------------
(* The run never gets stuck                                                *)

\* A traversal reaches every reader of what it starts from or reached, but
\* those it avoids, and nothing else.
LEMMA ConeReads ==
  ASSUME NEW S, NEW A, NEW t \in Tasks
  PROVE  t \in Cone(S, A) <=> t \notin A /\ Reads[t] \cap (S \union Cone(S, A)) # {}
<1> DEFINE C == Cone(S, A)
           Closed(X) == \A u \in Tasks \ A : Reads[u] \cap (S \union X) # {} => u \in X
<1>1. ASSUME NEW X \in SUBSET Tasks, Closed(X) PROVE C \subseteq X
  BY <1>1 DEF Cone
<1>2. ASSUME NEW u \in Tasks \ A, Reads[u] \cap (S \union C) # {} PROVE u \in C
  <2>1. ASSUME NEW X \in SUBSET Tasks, Closed(X) PROVE u \in X
    BY <1>1, <1>2, <2>1
  <2> QED BY <2>1 DEF Cone
<1>3. C \subseteq Tasks \ A
  BY DEF Cone
<1> DEFINE X == {u \in C : Reads[u] \cap (S \union C) # {}}
<1> HIDE DEF C
<1>4. X \in SUBSET Tasks /\ Closed(X)
  BY <1>2, <1>3
<1> HIDE DEF X, Closed
<1>5. C \subseteq X
  BY <1>1, <1>4
<1>6. \A u \in C : Reads[u] \cap (S \union C) # {}
  BY <1>5 DEF X
<1> QED BY <1>2, <1>3, <1>6 DEF C

\* What is reached holds for whatever its readers take over.
LEMMA ConeWithin ==
  ASSUME NEW S, NEW A, NEW X \in SUBSET Tasks,
         \A u \in Tasks \ A : Reads[u] \cap (S \union X) # {} => u \in X
  PROVE  Cone(S, A) \subseteq X
BY DEF Cone

LEMMA ConeTransitive ==
  ASSUME NEW d \in Tasks, NEW u \in Cone({d}, {})
  PROVE  Cone({u}, {}) \subseteq Cone({d}, {})
<1> DEFINE X == Cone({d}, {})
<1>1. X \in SUBSET Tasks
  BY DEF Cone
<1>2. \A v \in Tasks \ {} : Reads[v] \cap ({u} \union X) # {} => v \in X
  BY ConeReads
<1> HIDE DEF X
<1>3. Cone({u}, {}) \subseteq X
  BY <1>1, <1>2, ConeWithin
<1> QED BY <1>3 DEF X

\* A run may schedule what its tasks depend on.
LEMMA RunSetUp ==
  ASSUME NEW u \in RunSet, NEW d \in DependsOn(u)
  PROVE  u \in Tasks /\ d \in RunSet
<1>1. u \in Tasks /\ d \in Tasks /\ d \in Reads[u]
  BY DEF RunSet, GetDependencyClosure, DependsOn
<1>2. u \in Cone({d}, {})
  BY <1>1, ConeReads
<1> QED BY <1>1, <1>2, ConeTransitive DEF RunSet, GetDependencyClosure

\* Some task of any set depends on none of it.
LEMMA Minimal ==
  ASSUME NEW U \in SUBSET Tasks, U # {}
  PROVE  \E m \in U : DependsOn(m) \cap U = {}
<1> DEFINE Up(m) == {x \in Tasks : m \in Cone({x}, {})}
           Sizes == {Cardinality(Up(m)) : m \in U}
<1>1. \A m : IsFiniteSet(Up(m)) /\ Cardinality(Up(m)) \in Nat
  BY GraphAssumption, FS_Subset, FS_CardinalityType DEF GraphAssumption
<1>2. PICK n \in Sizes : \A k \in Sizes : n <= k
  <2>1. Sizes \in SUBSET Nat /\ Sizes # {}
    BY <1>1
  <2> HIDE DEF Sizes
  <2> QED BY <2>1, LeastMember
<1>3. PICK m \in U : n = Cardinality(Up(m))
  BY <1>2
<1>4. ASSUME NEW d \in DependsOn(m) \cap U PROVE FALSE
  <2>1. m \in Cone({d}, {}) /\ d \in Tasks
    BY ConeReads DEF DependsOn
  <2>2. Up(d) \subseteq Up(m)
    BY <2>1, ConeTransitive
  <2>3. d \in Up(m) /\ d \notin Up(d)
    BY <2>1, AcyclicAssumption
  <2>4. Cardinality(Up(d)) < Cardinality(Up(m))
    <3> HIDE DEF Up
    <3>1. Cardinality(Up(d)) <= Cardinality(Up(m)) /\ (Cardinality(Up(d)) = Cardinality(Up(m)) => Up(d) = Up(m))
      BY <1>1, <2>2, FS_Subset
    <3> QED BY <1>1, <2>3, <3>1
  <2>5. n <= Cardinality(Up(d))
    BY <1>2
  <2>6. Cardinality(Up(d)) \in Nat /\ Cardinality(Up(m)) \in Nat
    BY <1>1
  <2> HIDE DEF Up, Sizes
  <2> QED BY <1>3, <2>4, <2>5, <2>6
<1> QED BY <1>4

\* A run that no failure cut short: it defers a task only for one it depends
\* on that is not completed, makes a task wait only while it has no output, and
\* all that depends on a waiting task waits with it.
Sits(o, s) ==
  /\ \A t \in Tasks : s.task[t] \notin {"failed", "skipped"}
  /\ \A t \in Tasks : s.task[t] = "deferred" => \E d \in DependsOn(t) : s.task[d] # "completed"
  /\ \A t \in Tasks : s.task[t] = "waiting" =>
       /\ o[t].content = {}
       /\ Reads[t] \subseteq Tasks => \E d \in DependsOn(t) : s.task[d] # "completed"
  /\ \A u \in RunSet : \A t \in DependsOn(u) : s.task[t] = "waiting" => s.task[u] = "waiting"

\* The tasks a completed one is decided with.
LEMMA ConsistentOnce ==
  ASSUME NEW p \in Procs, NEW t \in Tasks, TypeOK, CompletionsRight(p),
         \A d \in DependsOn(t) : st[p].task[d] = "completed"
  PROVE  CheckVersionConsistency(st[p], t)
<1>1. \A d \in DependsOn(t) : st[p].vv[d] = SnapshotOf(st[p], d)
  BY DEF CompletionsRight, Right, Labelled, DependsOn
<1>2. MergedVV(st[p], t) = SnapshotOf(st[p], t)
  BY <1>1, MergedSnapshot
<1>3. \A a, b \in SnapshotOf(st[p], t) : a[1] = b[1] => a = b
  BY SnapshotAt
<1> QED BY <1>2, <1>3 DEF CheckVersionConsistency, IsConsistent

LEMMA DeferredSits ==
  ASSUME NEW p \in Procs, NEW ts, TypeOK, CompletionsRight(p), Sits(out, st[p]),
         \A u \in ts : u \in Tasks /\ ~Launchable(p, u)
  PROVE  Sits(out, Deferred(p, ts))
<1> DEFINE s == st[p]
           r == Deferred(p, ts)
<1>1. s \in ExecutionState
  BY DEF TypeOK
<1>2. \A u \in Tasks : r.task[u] = IF u \in ts /\ ~Skipped(p, u) THEN "deferred" ELSE s.task[u]
  BY <1>1, SetTasksAt DEF Deferred
<1>3. ASSUME NEW u \in ts, ~Skipped(p, u)
      PROVE  /\ s.task[u] \notin {"completed", "waiting"}
             /\ \E d \in DependsOn(u) : s.task[d] # "completed"
  BY <1>3, ConsistentOnce DEF Launchable, Skipped
<1> HIDE DEF s, r
<1>4. /\ \A u \in Tasks : r.task[u] = "completed" <=> s.task[u] = "completed"
      /\ \A u \in Tasks : r.task[u] = "waiting" <=> s.task[u] = "waiting"
  BY <1>2, <1>3
<1>5. \A u \in RunSet : u \in Tasks
  BY DEF RunSet, GetDependencyClosure
<1>6. \A u \in Tasks : DependsOn(u) \subseteq Tasks
  BY DEF DependsOn
<1>7. Sits(out, s)
  BY DEF s
<1>8. \A u \in Tasks : r.task[u] \notin {"failed", "skipped"}
  BY <1>2, <1>7 DEF Sits
<1>9. \A u \in Tasks : r.task[u] = "deferred" => \E d \in DependsOn(u) : r.task[d] # "completed"
  BY <1>2, <1>3, <1>4, <1>6, <1>7 DEF Sits
<1>10. \A u \in Tasks : r.task[u] = "waiting" =>
         /\ out[u].content = {}
         /\ Reads[u] \subseteq Tasks => \E d \in DependsOn(u) : r.task[d] # "completed"
  BY <1>4, <1>6, <1>7 DEF Sits
<1>11. \A u \in RunSet : \A t \in DependsOn(u) : r.task[t] = "waiting" => r.task[u] = "waiting"
  BY <1>4, <1>5, <1>6, <1>7 DEF Sits
<1>12. Sits(out, r)
  BY <1>8, <1>9, <1>10, <1>11 DEF Sits
<1> QED BY <1>12 DEF r

\* A task launched or sent back, all it depends on being there.
LEMMA OneSits ==
  ASSUME NEW s \in ExecutionState, NEW o, NEW t \in Tasks, Sits(o, s), s.task[t] # "completed",
         NEW x \in {"pending", "in_progress"},
         \A d \in DependsOn(t) : o[d].content # {}
  PROVE  Sits(o, SetTasks(s, {t}, x))
<1> DEFINE r == SetTasks(s, {t}, x)
<1>1. \A u \in Tasks : r.task[u] = IF u = t THEN x ELSE s.task[u]
  BY SetTasksAt
<1> HIDE DEF r
<1>2. \A u \in RunSet : u \in Tasks
  BY DEF RunSet, GetDependencyClosure
<1>3. \A u \in Tasks : DependsOn(u) \subseteq Tasks
  BY DEF DependsOn
<1>4. \A u \in Tasks : r.task[u] = "completed" <=> s.task[u] = "completed"
  BY <1>1
<1>5. \A u \in Tasks : r.task[u] \notin {"failed", "skipped"}
  BY <1>1 DEF Sits
<1>6. \A u \in Tasks : r.task[u] = "deferred" => \E d \in DependsOn(u) : r.task[d] # "completed"
  BY <1>1, <1>3, <1>4 DEF Sits
<1>7. \A u \in Tasks : r.task[u] = "waiting" =>
        /\ o[u].content = {}
        /\ Reads[u] \subseteq Tasks => \E d \in DependsOn(u) : r.task[d] # "completed"
  BY <1>1, <1>3, <1>4 DEF Sits
<1>8. \A d \in DependsOn(t) : s.task[d] # "waiting"
  BY <1>3 DEF Sits
<1>9. \A u \in RunSet : \A d \in DependsOn(u) : r.task[d] = "waiting" => r.task[u] = "waiting"
  BY <1>1, <1>2, <1>3, <1>8 DEF Sits
<1>10. Sits(o, r)
  BY <1>5, <1>6, <1>7, <1>9 DEF Sits
<1> QED BY <1>10 DEF r

\* A completion leaves waiting what does not stop, and deferred what does not
\* depend on its task.
LEMMA CompletedAt ==
  ASSUME NEW s \in ExecutionState, NEW t \in Tasks, NEW hit \in BOOLEAN, NEW W
  PROVE  LET r == TaskCompleted(s, t, hit, W)
         IN  /\ \A u \in Tasks \ {t} :
                  /\ r.task[u] = "waiting" => s.task[u] = "waiting" /\ u \notin W
                  /\ s.task[u] = "waiting" /\ u \notin W => r.task[u] = "waiting"
                  /\ r.task[u] = "deferred" => s.task[u] = "deferred" /\ u \notin DependentsOf(t)
                  /\ r.task[u] = "completed" => s.task[u] = "completed"
                  /\ s.task[u] = "completed" /\ u \notin W => r.task[u] = "completed"
                  /\ r.task[u] \in {"failed", "skipped"} => s.task[u] = r.task[u]
             /\ t \notin W => r.task[t] = "completed"
<1> DEFINE s1 == [SetTasks(s, {t}, "completed") EXCEPT
                    !.hit = [s.hit EXCEPT ![t] = hit],
                    !.cached = s.cached + (IF hit THEN 1 ELSE 0),
                    !.executed = s.executed + (IF hit THEN 0 ELSE 1),
                    !.vv = [s.vv EXCEPT ![t] = MergedVV(s, t)]]
           B == W \union (DependentsOf(t) \cap TasksIn(s, {"deferred"}))
           s2 == SetTasks(s1, B, "pending")
<1>1. s1 \in ExecutionState
  <2>1. SetTasks(s, {t}, "completed") \in ExecutionState
    BY SetTasksType, StatusTypes
  <2>2. [s.hit EXCEPT ![t] = hit] \in [Tasks -> BOOLEAN]
    BY DEF ExecutionState
  <2>3. [s.vv EXCEPT ![t] = MergedVV(s, t)] \in [Tasks -> SUBSET Versions]
    BY MergedVVType DEF ExecutionState
  <2>4. s.cached + (IF hit THEN 1 ELSE 0) \in Int /\ s.executed + (IF hit THEN 0 ELSE 1) \in Int
    BY DEF ExecutionState
  <2> QED BY <2>1, <2>2, <2>3, <2>4 DEF ExecutionState
<1>2. s1.task = SetTasks(s, {t}, "completed").task
  <2>1. SetTasks(s, {t}, "completed") \in ExecutionState
    BY SetTasksType, StatusTypes
  <2> QED BY <2>1 DEF ExecutionState
<1>3. \A u \in Tasks : s1.task[u] = IF u = t THEN "completed" ELSE s.task[u]
  BY <1>2, SetTasksAt
<1> HIDE DEF s1
<1>4. s2 \in ExecutionState /\ \A u \in Tasks : s2.task[u] = IF u \in B THEN "pending" ELSE s1.task[u]
  BY <1>1, SetTasksAt, SetTasksType, StatusTypes
<1>5. t \notin DependentsOf(t)
  BY NoSelfLoop DEF DependentsOf, DependsOn
<1>6. TaskCompleted(s, t, hit, W) = MarkReady(s2)
  BY DEF TaskCompleted, s1
<1> HIDE DEF s2
<1>7. \A u \in Tasks :
        \/ MarkReady(s2).task[u] = s2.task[u]
        \/ s2.task[u] = "pending" /\ MarkReady(s2).task[u] = "ready"
  BY <1>4, MarkReadyAt
<1>8. \A u \in Tasks : u \in B <=> u \in W \/ (u \in DependentsOf(t) /\ s.task[u] = "deferred")
  BY DEF TasksIn
<1> DEFINE r == MarkReady(s2)
<1> HIDE DEF B, r
<1>9. \A u \in Tasks : r.task[u] = s2.task[u] \/ (s2.task[u] = "pending" /\ r.task[u] = "ready")
  BY <1>7 DEF r
<1>10. /\ \A u \in Tasks \ {t} :
            /\ r.task[u] = "waiting" => s.task[u] = "waiting" /\ u \notin W
            /\ s.task[u] = "waiting" /\ u \notin W => r.task[u] = "waiting"
            /\ r.task[u] = "deferred" => s.task[u] = "deferred" /\ u \notin DependentsOf(t)
            /\ r.task[u] = "completed" => s.task[u] = "completed"
            /\ s.task[u] = "completed" /\ u \notin W => r.task[u] = "completed"
            /\ r.task[u] \in {"failed", "skipped"} => s.task[u] = r.task[u]
       /\ t \notin W => r.task[t] = "completed"
  BY <1>3, <1>4, <1>5, <1>8, <1>9
<1> QED BY <1>6, <1>10 DEF r

\* A completed task decides its dependents again, whatever waits elsewhere.
LEMMA CompletedSits ==
  ASSUME NEW s \in ExecutionState, NEW o, NEW n, NEW t \in Tasks, NEW hit \in BOOLEAN, Sits(o, s),
         NEW W \in StopsWaiting(SetTasks(s, {t}, "completed"), DependentsOf(t)),
         \A u \in Tasks \ {t} : n[u] = o[u],
         \A d \in DependsOn(t) : o[d].content # {}
  PROVE  Sits(n, TaskCompleted(s, t, hit, W))
<1> DEFINE s1 == SetTasks(s, {t}, "completed")
           r == TaskCompleted(s, t, hit, W)
<1>1. \A u \in Tasks : s1.task[u] = IF u = t THEN "completed" ELSE s.task[u]
  BY SetTasksAt
<1>2. /\ W \subseteq Tasks /\ t \notin W
      /\ \A u \in W : u \in DependentsOf(t) /\ s.task[u] = "waiting"
      /\ \A u \in W : \A d \in DependsOn(u) : d # t /\ s.task[d] = "waiting" => d \in W
      /\ \A u \in DependentsOf(t) \ W : u # t /\ s.task[u] = "waiting" =>
           \E d \in DependsOn(u) : d # t /\ s.task[d] = "waiting"
  <2>1. /\ W \subseteq DependentsOf(t) \cap TasksIn(s1, {"waiting"})
        /\ \A u \in W : DependsOn(u) \cap TasksIn(s1, {"waiting"}) \subseteq W
        /\ \A u \in DependentsOf(t) \cap TasksIn(s1, {"waiting"}) :
             DependsOn(u) \cap TasksIn(s1, {"waiting"}) = {} => u \in W
    BY DEF StopsWaiting
  <2> HIDE DEF s1
  <2>2. \A u \in Tasks : u \in TasksIn(s1, {"waiting"}) <=> u # t /\ s.task[u] = "waiting"
    BY <1>1 DEF TasksIn
  <2>3. TasksIn(s1, {"waiting"}) \subseteq Tasks /\ \A u \in Tasks : DependsOn(u) \subseteq Tasks
    BY DEF TasksIn, DependsOn
  <2>4. DependentsOf(t) \subseteq Tasks
    BY DEF DependentsOf
  <2>5. W \subseteq Tasks
    BY <2>1, <2>3
  <2>6. \A u \in W : u \in DependentsOf(t) /\ u # t /\ s.task[u] = "waiting"
    BY <2>1, <2>2, <2>5
  <2>7. \A u \in W : \A d \in DependsOn(u) : d # t /\ s.task[d] = "waiting" => d \in W
    BY <2>1, <2>2, <2>3, <2>5
  <2>8. \A u \in DependentsOf(t) \ W : u # t /\ s.task[u] = "waiting" =>
           \E d \in DependsOn(u) : d # t /\ s.task[d] = "waiting"
    BY <2>1, <2>2, <2>3, <2>4
  <2> QED BY <2>5, <2>6, <2>7, <2>8
<1>3. /\ \A u \in Tasks \ {t} :
           /\ r.task[u] = "waiting" => s.task[u] = "waiting" /\ u \notin W
           /\ s.task[u] = "waiting" /\ u \notin W => r.task[u] = "waiting"
           /\ r.task[u] = "deferred" => s.task[u] = "deferred" /\ u \notin DependentsOf(t)
           /\ r.task[u] = "completed" => s.task[u] = "completed"
           /\ r.task[u] \in {"failed", "skipped"} => s.task[u] = r.task[u]
      /\ r.task[t] = "completed"
  BY <1>2, CompletedAt
<1> HIDE DEF r, s1
<1>4. \A u \in RunSet : u \in Tasks
  BY DEF RunSet, GetDependencyClosure
<1>5. \A u \in Tasks : DependsOn(u) \subseteq Tasks /\ (u \notin DependentsOf(t) => t \notin DependsOn(u))
  BY DEF DependsOn, DependentsOf
<1>6. \A u \in Tasks : r.task[u] \notin {"failed", "skipped"}
  BY <1>3 DEF Sits
<1>7. ASSUME NEW u \in Tasks, r.task[u] = "deferred" PROVE \E d \in DependsOn(u) : r.task[d] # "completed"
  <2>1. u # t /\ s.task[u] = "deferred" /\ t \notin DependsOn(u)
    BY <1>3, <1>5, <1>7
  <2>2. PICK d \in DependsOn(u) : s.task[d] # "completed"
    BY <2>1 DEF Sits
  <2> QED BY <1>3, <1>5, <2>1, <2>2
<1>8. ASSUME NEW u \in Tasks, r.task[u] = "waiting"
      PROVE  /\ n[u].content = {}
             /\ Reads[u] \subseteq Tasks => \E d \in DependsOn(u) : r.task[d] # "completed"
  <2>1. u # t /\ s.task[u] = "waiting" /\ u \notin W
    BY <1>3, <1>8
  <2>2. CASE u \in DependentsOf(t)
    <3>1. PICK d \in DependsOn(u) : d # t /\ s.task[d] = "waiting"
      BY <1>2, <2>1, <2>2
    <3>2. r.task[d] # "completed"
      BY <1>3, <1>5, <3>1
    <3> QED BY <2>1, <3>2 DEF Sits
  <2>3. CASE u \notin DependentsOf(t)
    <3>1. ASSUME Reads[u] \subseteq Tasks PROVE \E d \in DependsOn(u) : r.task[d] # "completed"
      <4>1. PICK d \in DependsOn(u) : s.task[d] # "completed"
        BY <2>1, <3>1 DEF Sits
      <4> QED BY <1>3, <1>5, <2>3, <4>1
    <3> QED BY <2>1, <3>1 DEF Sits
  <2> QED BY <2>2, <2>3
<1>9. ASSUME NEW u \in RunSet, NEW d \in DependsOn(u), r.task[d] = "waiting" PROVE r.task[u] = "waiting"
  <2>1. d # t /\ s.task[d] = "waiting" /\ d \notin W /\ d \in Tasks /\ u \in Tasks
    BY <1>3, <1>4, <1>5, <1>9
  <2>2. s.task[u] = "waiting"
    BY <2>1 DEF Sits
  <2>3. u # t
    BY <2>1 DEF Sits
  <2>4. u \notin W
    BY <1>2, <2>1
  <2> QED BY <1>3, <2>1, <2>2, <2>3, <2>4
<1>10. Sits(n, r)
  BY <1>6, <1>7, <1>8, <1>9 DEF Sits
<1> QED BY <1>10 DEF r

\* A change of the inputs sends back what it affects, and what stops waiting.
LEMMA InvalidatedSits ==
  ASSUME NEW s \in ExecutionState, NEW o, Sits(o, s), NEW affected, NEW s1 \in ExecutionState,
         s1.task = s.task, NEW W \in StopsWaiting(s1, affected)
  PROVE  Sits(o, InvalidateTasks(s1, affected, W))
<1> DEFINE r == InvalidateTasks(s1, affected, W)
           B == (affected \cap TasksIn(s1, {"completed"})) \union W
                  \union (affected \cap TasksIn(s1, {"deferred"}))
<1>1. \A u \in Tasks : r.task[u] = IF u \in B THEN "pending" ELSE s.task[u]
  <2>1. SetTasks(s1, B, "pending") \in ExecutionState
    BY SetTasksType, StatusTypes
  <2>2. r.task = SetTasks(s1, B, "pending").task
    BY <2>1 DEF InvalidateTasks, ExecutionState
  <2> QED BY <2>2, SetTasksAt
<1>2. /\ \A u \in W : u \in Tasks /\ s.task[u] = "waiting"
      /\ \A u \in W : \A d \in DependsOn(u) : s.task[d] = "waiting" => d \in W
  BY DEF StopsWaiting, TasksIn, DependsOn
<1>3. \A u \in B : u \in Tasks /\ (s.task[u] = "waiting" => u \in W)
  BY <1>2 DEF TasksIn
<1> HIDE DEF r
<1>4. \A u \in W : u \in B
  OBVIOUS
<1> HIDE DEF B
<1>5. \A u \in RunSet : u \in Tasks
  BY DEF RunSet, GetDependencyClosure
<1>6. \A u \in Tasks : DependsOn(u) \subseteq Tasks
  BY DEF DependsOn
<1>7. \A u \in Tasks : r.task[u] = "completed" => s.task[u] = "completed"
  BY <1>1
<1>8. \A u \in Tasks : r.task[u] \notin {"failed", "skipped"}
  BY <1>1 DEF Sits
<1>9. \A u \in Tasks : r.task[u] = "deferred" => \E d \in DependsOn(u) : r.task[d] # "completed"
  BY <1>1, <1>6, <1>7 DEF Sits
<1>10. \A u \in Tasks : r.task[u] = "waiting" =>
        /\ o[u].content = {}
        /\ Reads[u] \subseteq Tasks => \E d \in DependsOn(u) : r.task[d] # "completed"
  BY <1>1, <1>6, <1>7 DEF Sits
<1>11. \A u \in RunSet : \A d \in DependsOn(u) : r.task[d] = "waiting" => r.task[u] = "waiting"
  BY <1>1, <1>2, <1>3, <1>4, <1>5, <1>6 DEF Sits
<1>12. Sits(o, r)
  BY <1>8, <1>9, <1>10, <1>11 DEF Sits
<1> QED BY <1>12 DEF r

\* A task that waits has no output, and takes with it what depends on it,
\* which has none either.
LEMMA WaitingSits ==
  ASSUME NEW s \in ExecutionState, NEW o, NEW t \in Tasks, Sits(o, s),
         s.task[t] # "completed", o[t].content = {}, ~(Reads[t] \subseteq Tasks),
         \A u \in Tasks : o[u].content # {} => \A d \in DependsOn(u) : o[d].content # {},
         \A u \in Tasks : s.task[u] \in {"completed", "in_progress"} =>
           \A d \in DependsOn(u) : o[d].content # {}
  PROVE  Sits(o, TasksWaiting(s, t))
<1> DEFINE s1 == SetTasks(s, {t}, "waiting")
           A == TasksIn(s1, {"completed"})
           C == Cone({t}, A)
           B == (GetDependentsToSkip(t, A, TasksIn(s1, {"skipped", "waiting"})))
                  \cap RunSet \cap TasksIn(s1, {"pending", "ready", "deferred"})
           r == TasksWaiting(s, t)
<1>1. s1 \in ExecutionState /\ \A u \in Tasks : s1.task[u] = IF u = t THEN "waiting" ELSE s.task[u]
  BY SetTasksAt, SetTasksType, StatusTypes
<1>2. r = SetTasks(s1, B, "waiting")
  BY DEF TasksWaiting
<1>3. \A u \in Tasks : r.task[u] = IF u \in B THEN "waiting" ELSE s1.task[u]
  <2> HIDE DEF s1, B, r
  <2> QED BY <1>1, <1>2, SetTasksAt
<1>4. \A u \in Tasks : u \in A <=> u # t /\ s.task[u] = "completed"
  BY <1>1 DEF TasksIn
<1>5. \A u \in B : u \in C /\ u \in RunSet
  BY DEF GetDependentsToSkip
<1>6. \A u \in RunSet : u \in Tasks
  BY DEF RunSet, GetDependencyClosure
<1>7. ASSUME NEW u \in C, u \in RunSet, s1.task[u] \in {"pending", "ready", "deferred"} PROVE u \in B
  BY <1>6, <1>7 DEF GetDependentsToSkip, TasksIn
<1>8. \A u \in Tasks : u \in C <=> u \notin A /\ Reads[u] \cap ({t} \union C) # {}
  <2> HIDE DEF A
  <2> QED BY ConeReads
<1>9. \A u \in Tasks : DependsOn(u) \subseteq Tasks /\ DependsOn(u) \subseteq Reads[u]
  BY DEF DependsOn
<1>10. C \subseteq {u \in Tasks : o[u].content = {}}
  <2> DEFINE X == {u \in Tasks : o[u].content = {}}
  <2>1. ASSUME NEW u \in Tasks \ A, Reads[u] \cap ({t} \union X) # {} PROVE u \in X
    <3>1. PICK d \in Reads[u] : d \in {t} \union X
      BY <2>1
    <3>2. d \in DependsOn(u) /\ o[d].content = {}
      BY <3>1 DEF DependsOn
    <3> QED BY <3>2
  <2>2. X \in SUBSET Tasks
    OBVIOUS
  <2> HIDE DEF X, A
  <2>3. Cone({t}, A) \subseteq X
    BY <2>1, <2>2, ConeWithin
  <2> QED BY <2>3 DEF X
<1> HIDE DEF s1, A, C, B, r
<1>11. \A u \in Tasks : r.task[u] = "completed" => s.task[u] = "completed"
  BY <1>1, <1>3
<1>12. \A u \in Tasks : r.task[u] \notin {"failed", "skipped"}
  BY <1>1, <1>3 DEF Sits
<1>13. \A u \in Tasks : r.task[u] = "deferred" => \E d \in DependsOn(u) : r.task[d] # "completed"
  BY <1>1, <1>3, <1>9, <1>11 DEF Sits
<1>14. ASSUME NEW u \in Tasks, r.task[u] = "waiting"
       PROVE  /\ o[u].content = {}
              /\ Reads[u] \subseteq Tasks => \E d \in DependsOn(u) : r.task[d] # "completed"
  <2>1. CASE u = t
    BY <2>1
  <2>2. CASE u # t /\ u \in B
    <3>1. u \in C /\ o[u].content = {}
      BY <1>5, <1>10, <2>2
    <3>2. PICK d \in Reads[u] : d \in {t} \union C
      BY <1>8, <3>1
    <3>3. d \in Tasks /\ d \notin A
      BY <1>8, <1>10, <1>4, <3>2
    <3>4. d \in DependsOn(u) /\ r.task[d] # "completed"
      BY <1>1, <1>3, <1>4, <3>2, <3>3 DEF DependsOn
    <3> QED BY <3>1, <3>4
  <2>3. CASE u # t /\ u \notin B
    <3>1. s.task[u] = "waiting"
      BY <1>1, <1>3, <1>14, <2>3
    <3>2. o[u].content = {}
      BY <3>1 DEF Sits
    <3>3. ASSUME Reads[u] \subseteq Tasks PROVE \E d \in DependsOn(u) : r.task[d] # "completed"
      <4>1. PICK d \in DependsOn(u) : s.task[d] # "completed"
        BY <3>1, <3>3 DEF Sits
      <4> QED BY <1>9, <1>11, <4>1
    <3> QED BY <3>2, <3>3
  <2> QED BY <2>1, <2>2, <2>3
<1>15. ASSUME NEW u \in RunSet, NEW d \in DependsOn(u), r.task[d] = "waiting" PROVE r.task[u] = "waiting"
  <2>1. u \in Tasks /\ d \in Tasks /\ d \in Reads[u]
    BY <1>6, <1>9
  <2>2. CASE s1.task[u] = "waiting"
    BY <1>3, <2>1, <2>2
  <2>3. CASE s1.task[u] # "waiting"
    <3>1. u # t /\ s.task[u] # "waiting" /\ s1.task[u] = s.task[u]
      BY <1>1, <2>1, <2>3
    <3>2. d = t \/ d \in B
      <4>1. s.task[d] # "waiting"
        BY <2>1, <3>1 DEF Sits
      <4> QED BY <1>1, <1>3, <1>15, <2>1, <4>1
    <3>3. d \in {t} \union C /\ o[d].content = {}
      BY <1>5, <1>10, <3>2
    <3>4. s.task[u] \notin {"completed", "in_progress", "failed", "skipped"}
      BY <2>1, <3>3 DEF Sits
    <3>5. u \in C
      BY <1>4, <1>8, <2>1, <3>3, <3>4
    <3>6. s.task[u] \in {"pending", "ready", "deferred"}
      BY <2>1, <3>1, <3>4 DEF ExecutionState, TaskStatus
    <3> QED BY <1>3, <1>7, <2>1, <3>1, <3>5, <3>6
  <2> QED BY <2>2, <2>3
<1>16. Sits(o, r)
  BY <1>12, <1>13, <1>14, <1>15 DEF Sits
<1> QED BY <1>16 DEF r

\* A run begins so, or is taken up so from a run in which nothing failed.
LEMMA BegunSits ==
  ASSUME NEW s \in ExecutionState, NEW o,
         \A u \in Tasks : s.task[u] \in {"pending", "ready", "completed"}
  PROVE  Sits(o, s)
<1>1. \A u \in Tasks : s.task[u] \notin {"failed", "skipped", "deferred", "waiting"}
  OBVIOUS
<1>2. \A u \in RunSet : DependsOn(u) \subseteq Tasks
  BY DEF DependsOn
<1> QED BY <1>1, <1>2 DEF Sits

\* A run that finds nothing ready, with nothing in progress, has nothing left.
LEMMA NothingLeft ==
  ASSUME NEW s \in ExecutionState, NEW o, Sits(o, s), GetReady(s) = {},
         \A u \in Tasks : s.task[u] # "in_progress"
  PROVE  StuckTasks(s) = {}
<1> DEFINE U == StuckTasks(s)
<1> SUFFICES ASSUME U # {} PROVE FALSE
  OBVIOUS
<1>1. U \in SUBSET Tasks /\ \A u \in U : u \in RunSet /\ s.task[u] \in {"pending", "ready", "deferred"}
  BY DEF StuckTasks, TasksIn
<1>2. \A u \in Tasks : u \in RunSet /\ s.task[u] \in {"pending", "ready", "deferred"} => u \in U
  BY DEF StuckTasks, TasksIn
<1> HIDE DEF U
<1>3. PICK m \in U : DependsOn(m) \cap U = {}
  BY <1>1, Minimal
<1>4. ASSUME NEW d \in DependsOn(m) PROVE s.task[d] = "completed"
  <2>1. d \in Tasks /\ d \in RunSet /\ m \in RunSet
    BY <1>1, RunSetUp DEF DependsOn
  <2>2. d \notin U
    BY <1>3
  <2>3. s.task[d] \in TaskStatus
    BY <2>1 DEF ExecutionState
  <2>4. s.task[d] # "waiting"
    BY <1>1, <2>1 DEF Sits
  <2>5. s.task[d] \notin {"failed", "skipped"}
    BY <2>1 DEF Sits
  <2> QED BY <1>2, <2>1, <2>2, <2>3, <2>4, <2>5 DEF TaskStatus
<1>5. m \in Tasks /\ s.task[m] \in {"pending", "ready"} /\ m \in RunSet
  BY <1>1, <1>4 DEF Sits
<1>6. m \in GetReady(s)
  <2>1. DependsOn(m) \subseteq TasksIn(s, {"completed"})
    BY <1>4 DEF TasksIn, DependsOn
  <2>2. m \notin TasksIn(s, {"completed"})
    BY <1>5 DEF TasksIn
  <2> QED BY <1>5, <2>1, <2>2 DEF GetReady, GetReadyTasks
<1> QED BY <1>6

\* Nor has one that finds itself complete.
LEMMA CompleteLeft ==
  ASSUME NEW s \in ExecutionState, NEW o, Sits(o, s), IsComplete(s)
  PROVE  StuckTasks(s) = {}
<1>1. ASSUME NEW u \in StuckTasks(s) PROVE FALSE
  <2>1. u \in Tasks /\ u \in RunSet /\ s.task[u] \in {"pending", "ready", "deferred"}
    BY DEF StuckTasks, TasksIn
  <2>2. s.task[u] \in {"pending", "ready"}
    BY <2>1 DEF IsComplete, TasksIn
  <2>3. DependsOn(u) \cap TasksIn(s, {"failed", "skipped", "waiting"}) # {}
    BY <2>1, <2>2 DEF IsComplete, TasksIn
  <2>4. PICK d \in DependsOn(u) : d \in Tasks /\ s.task[d] \in {"failed", "skipped", "waiting"}
    BY <2>3 DEF TasksIn
  <2> QED BY <2>1, <2>2, <2>4 DEF Sits
<1> QED BY <1>1

\* What a run that nothing cut short is on its way with: a task prepared lacks
\* no output, only root inputs; a pass that goes on applied something or just
\* launched a task; and the loop breaks out with nothing left to schedule.
OnTrack(p) ==
  /\ Sits(out, st[p])
  /\ pc[p] \in {"read", "wait"} =>
       \A t \in cur[p] : \A r \in ReadBy(p, t) :
         got[p][t][r] = {} => r \notin Tasks /\ out[t].content = {}
  /\ pc[p] = "wait" => \A t \in cur[p] : \E r \in Reads[t] : got[p][t][r] = {}
  /\ pc[p] = "launch" => synced[p] \/ cur[p] # {}
  /\ pc[p] = "drain" => StuckTasks(st[p]) = {}

\* The outputs that what was written, completed or launched depends on.
LEMMA OutputsThere ==
  ASSUME NEW p \in Procs, TypeOK, Written, NEW u \in Tasks
  PROVE  /\ out[u].content # {} => \A d \in DependsOn(u) : out[d].content # {}
         /\ st[p].task[u] = "completed" => \A d \in DependsOn(u) : out[d].content # {}
         /\ Served(p, u) => \A d \in DependsOn(u) : out[d].content # {}
         /\ u \in queue[p] \union cur[p] => \A d \in DependsOn(u) : out[d].content # {}
<1>1. \A d \in DependsOn(u) : d \in Tasks /\ d \in Reads[u] /\ d \in Datasets
  BY DEF DependsOn, Datasets
<1>2. WrittenOf(p) /\ \A t \in Tasks : Has(t) => \A r \in Reads[t] : Has(r)
  BY DEF Written
<1>3. Has(u) => \A d \in DependsOn(u) : out[d].content # {}
  BY <1>1, <1>2, HasAt
<1>4. Served(p, u) => \A d \in DependsOn(u) : out[d].content # {}
  BY <1>1, <1>2, HasAt DEF WrittenOf
<1>5. u \in queue[p] \union cur[p] => \A d \in DependsOn(u) : out[d].content # {}
  BY <1>1, <1>2, HasAt DEF WrittenOf
<1> QED BY <1>2, <1>3, <1>4, <1>5, HasAt DEF WrittenOf

LEMMA PassTrack ==
  ASSUME NEW p \in Procs, NEW ready \in SUBSET Tasks, NEW sync,
         TypeOK, SlotsOf(p), RunRight(p), OnTrack(p), ~aborted[p], ~failure[p],
         PrepareNext(p, ready, sync) \/ EndPass(p, ready, sync),
         \/ pc[p] = "top" /\ ready = GetReady(st[p]) /\ sync = FALSE
         \/ pc[p] = "launch" /\ ready = queue[p] /\ sync = synced[p]
  PROVE  OnTrack(p)'
<1>1. out' = out /\ Sits(out, st[p]) /\ CompletionsRight(p) /\ InStep(p) /\ st[p] \in ExecutionState
  BY DEF PrepareNext, EndPass, durable, OnTrack, RunRight, SlotsOf, Active, Loop, TypeOK
<1>2. CASE PrepareNext(p, ready, sync)
  <2>1. PICK t \in ready, before \in SUBSET ready :
          /\ \A u \in before : ~Launchable(p, u)
          /\ st' = [st EXCEPT ![p] = Deferred(p, before)]
          /\ cur' = [cur EXCEPT ![p] = {t}]
          /\ left' = [left EXCEPT ![p] = Reads[t]]
    BY <1>2 DEF PrepareNext
  <2>2. /\ st'[p] = Deferred(p, before) /\ cur'[p] = {t} /\ left'[p] = Reads[t] /\ pc'[p] = "read"
    BY <1>2, <2>1 DEF PrepareNext, TypeOK
  <2>3. Sits(out, Deferred(p, before))
    BY <1>1, <2>1, DeferredSits
  <2>4. ReadBy(p, t)' = {}
    BY <2>2 DEF ReadBy
  <2> QED BY <1>1, <2>2, <2>3, <2>4 DEF OnTrack
<1>3. CASE EndPass(p, ready, sync)
  <2> DEFINE rest == IF MayLaunch(p) THEN {} ELSE ready
             r == Deferred(p, ready \ rest)
  <2>1. /\ \A u \in ready : ~(MayLaunch(p) /\ Launchable(p, u))
        /\ st' = [st EXCEPT ![p] = r] /\ cur' = [cur EXCEPT ![p] = {}]
    BY <1>3 DEF EndPass
  <2>2. \A u \in ready \ rest : u \in Tasks /\ ~Launchable(p, u)
    BY <2>1
  <2>3. Sits(out, r)
    <3> HIDE DEF rest
    <3> QED BY <1>1, <2>2, DeferredSits
  <2>4. \/ pc' = [pc EXCEPT ![p] = "yield"] \/ pc' = [pc EXCEPT ![p] = "race"]
        \/ /\ InFlight(p) = {}
           /\ pc' = [pc EXCEPT ![p] = IF ~sync /\ (rest = {} \/ aborted[p] \/ failure[p])
                                      THEN "drain" ELSE "top"]
    BY <1>3 DEF EndPass
  <2> HIDE DEF r, rest
  <2>5. st'[p] = r /\ cur'[p] = {}
    BY <2>1 DEF TypeOK
  <2>6. \/ pc'[p] \in {"yield", "race", "top"}
        \/ pc'[p] = "drain" /\ InFlight(p) = {} /\ ~sync /\ rest = {}
    <3>1. \A x : pc' = [pc EXCEPT ![p] = x] => pc'[p] = x
      BY DEF TypeOK
    <3> QED BY <2>4, <3>1
  <2>7. ASSUME pc'[p] = "drain" PROVE StuckTasks(r) = {}
    <3>1. InFlight(p) = {} /\ ~sync /\ rest = {}
      BY <2>6, <2>7
    <3>2. pc[p] = "top" /\ ready = GetReady(st[p])
      <4>1. pc[p] = "launch" => cur[p] = {}
        BY <3>1 DEF InFlight
      <4> QED BY <3>1, <4>1 DEF OnTrack
    <3>3. \A u \in Tasks : phase[p][u] = "none" /\ st[p].task[u] # "in_progress"
      <4>1. \A u \in Tasks : phase[p][u] = "none"
        BY <3>1, NothingTracked
      <4> QED BY <1>1, <3>2, <4>1 DEF InStep, Tracked, Launched
    <3>4. MayLaunch(p)
      <4>1. Cardinality(InFlight(p)) = 0
        BY <3>1, FS_EmptySet
      <4> QED BY <4>1, RunAssumption DEF MayLaunch
    <3>5. GetReady(st[p]) = {}
      <4> SUFFICES ASSUME NEW u \in GetReady(st[p]) PROVE FALSE
        OBVIOUS
      <4>1. u \in Tasks /\ st[p].task[u] \in {"pending", "ready"}
            /\ \A d \in DependsOn(u) : st[p].task[d] = "completed"
        BY DEF GetReady, GetReadyTasks, TasksIn
      <4>2. CheckVersionConsistency(st[p], u)
        BY <1>1, <4>1, ConsistentOnce
      <4>3. Launchable(p, u)
        BY <3>1, <4>1, <4>2 DEF Launchable, Skipped
      <4> QED BY <2>1, <3>2, <3>4, <4>3
    <3>6. StuckTasks(st[p]) = {}
      BY <1>1, <3>3, <3>5, NothingLeft
    <3>7. \A u \in Tasks : r.task[u] = st[p].task[u]
      <4>1. ready \ rest = {}
        BY <3>2, <3>5
      <4> QED BY <1>1, <4>1, SetTasksAt DEF r, Deferred
    <3> QED BY <3>6, <3>7 DEF StuckTasks, TasksIn
  <2> QED BY <1>1, <2>3, <2>5, <2>6, <2>7 DEF OnTrack
<1> QED BY <1>2, <1>3

LEMMA ReadTrack ==
  ASSUME NEW p \in Procs, NEW t \in Tasks, NEW d \in Datasets,
         TypeOK, Unused, SlotsOf(p), Written, OnTrack(p), ReadInput(p, t, d)
  PROVE  OnTrack(p)'
<1> DEFINE read == [got[p][t] EXCEPT ![d] = DatasetContent(d)]
<1>1. PICK l \in {"read", "wait", "hit", "start"} : pc' = [pc EXCEPT ![p] = l]
  BY ReadInputTarget
<1>2. /\ UNCHANGED <<root, out, st, cur>>
      /\ pc[p] = "read" /\ t \in cur[p] /\ d \in left[p]
      /\ got' = [got EXCEPT ![p][t] = read]
      /\ left' = [left EXCEPT ![p] = @ \ {d}]
  BY DEF ReadInput, durable
<1>3. /\ pc'[p] = l /\ left'[p] = left[p] \ {d} /\ got'[p][t] = read
      /\ \A r \in Datasets : read[r] = IF r = d THEN DatasetContent(d) ELSE got[p][t][r]
  <2>1. got[p][t] \in [Datasets -> Content]
    BY DEF TypeOK
  <2>2. \A r \in Datasets : read[r] = IF r = d THEN DatasetContent(d) ELSE got[p][t][r]
    BY <2>1
  <2> HIDE DEF read
  <2>3. pc'[p] = l /\ left'[p] = left[p] \ {d} /\ got'[p][t] = read
    BY <1>1, <1>2 DEF TypeOK
  <2> QED BY <2>2, <2>3
<1>4. cur[p] = {t}
  BY <1>2 DEF Unused
<1>5. /\ l # "read" => left[p] = {d}
      /\ l = "wait" => \E r \in Reads[t] : read[r] = {}
  <2>1. pc'[p] = CASE left[p] # {d} -> "read"
                   [] left[p] = {d} /\ \E r \in Reads[t] : read[r] = {} -> "wait"
                   [] left[p] = {d} /\ \A r \in Reads[t] : read[r] # {} ->
                        IF /\ t \notin Forced
                           /\ <<t, read>> \in cache
                           /\ out[t].content = Output(t, read)
                        THEN "hit" ELSE "start"
    BY DEF ReadInput, TypeOK
  <2> HIDE DEF read
  <2>2. CASE left[p] # {d}
    BY <1>3, <2>1, <2>2
  <2>3. CASE left[p] = {d} /\ \E r \in Reads[t] : read[r] = {}
    BY <2>3
  <2>4. CASE left[p] = {d} /\ \A r \in Reads[t] : read[r] # {}
    <3>1. pc'[p] # "wait"
      BY <2>1, <2>4
    <3> QED BY <1>3, <2>4, <3>1
  <2> QED BY <2>2, <2>3, <2>4
<1> HIDE DEF read
<1>6. ReadBy(p, t)' \subseteq (ReadBy(p, t) \union {d}) /\ ReadBy(p, t)' \subseteq Datasets
      /\ ReadBy(p, t)' \subseteq Reads[t]
  <2>1. Reads[t] \subseteq Datasets
    BY GraphAssumption DEF GraphAssumption
  <2> QED BY <1>2, <1>3, <1>5, <2>1 DEF ReadBy
<1>7. ASSUME NEW r \in ReadBy(p, t)', got'[p][t][r] = {} PROVE r \notin Tasks /\ out[t].content = {}
  <2>1. CASE r # d
    BY <1>2, <1>3, <1>6, <1>7, <2>1 DEF OnTrack
  <2>2. CASE r = d
    <3>1. ~Has(d) /\ d \in Reads[t]
      BY <1>3, <1>6, <1>7, <2>2 DEF Has
    <3>2. d \notin Tasks
      <4>1. d \in Tasks => d \in DependsOn(t)
        BY <3>1 DEF DependsOn
      <4> QED BY <1>2, <3>1, <4>1 DEF Written, WrittenOf
    <3>3. ~Has(t)
      BY <3>1 DEF Written
    <3> QED BY <2>2, <3>2, <3>3, HasAt
  <2> QED BY <2>1, <2>2
<1> QED BY <1>2, <1>3, <1>4, <1>5, <1>7 DEF OnTrack

\* A detection, or a completion, sits.
LEMMA DetectSits ==
  ASSUME NEW p \in Procs, TypeOK, Detect(p), Sits(out, st[p])
  PROVE  Sits(out, st'[p])
<1> DEFINE s == DetectInputChanges(st[p], root)
           affected == FindAffectedTasks(InputChanges(st[p], root))
<1>1. PICK W \in StopsWaiting(s, affected) : st' = [st EXCEPT ![p] = InvalidateTasks(s, affected, W)]
  BY DEF Detect
<1>2. st[p] \in ExecutionState /\ s \in ExecutionState /\ s.task = st[p].task
  <2>1. st[p] \in ExecutionState /\ root \in [Inputs -> Values \union {Unassigned}]
    BY DEF TypeOK
  <2>2. s.task = st[p].task
    BY <2>1 DEF DetectInputChanges, ExecutionState
  <2> QED BY <2>1, <2>2, DetectInputChangesType
<1> HIDE DEF s, affected
<1>3. st'[p] = InvalidateTasks(s, affected, W)
  BY <1>1 DEF TypeOK
<1> QED BY <1>2, <1>3, InvalidatedSits

LEMMA ApplySits ==
  ASSUME NEW p \in Procs, NEW t \in Tasks, NEW hit \in BOOLEAN, TypeOK, Apply(p, t, hit),
         Sits(out, st[p]), \A d \in DependsOn(t) : out[d].content # {}
  PROVE  Sits(out', st'[p])
<1>1. PICK W \in StopsWaiting(SetTasks(st[p], {t}, "completed"), DependentsOf(t)) :
        st' = [st EXCEPT ![p] = TaskCompleted(st[p], t, hit, W)]
  BY DEF Apply, TypeOK
<1>2. st[p] \in ExecutionState /\ st'[p] = TaskCompleted(st[p], t, hit, W)
  BY <1>1 DEF TypeOK
<1>3. \A u \in Tasks \ {t} : out'[u] = out[u]
  BY DEF Apply, TypeOK
<1> QED BY <1>2, <1>3, CompletedSits

LEMMA BackSits ==
  ASSUME NEW p \in Procs, NEW t \in Tasks, TypeOK, BackToPending(p, t), st[p].task[t] # "completed",
         Sits(out, st[p]), \A d \in DependsOn(t) : out[d].content # {}
  PROVE  Sits(out', st'[p])
<1>1. st[p] \in ExecutionState /\ st'[p] = SetTasks(st[p], {t}, "pending") /\ out' = out
  BY DEF BackToPending, TypeOK
<1> QED BY <1>1, OneSits

LEMMA LoopTaskTrack ==
  ASSUME NEW p \in Procs, NEW t \in Tasks, TypeOK, Unused, SlotsOf(p), RunRight(p), Written,
         OnTrack(p), ~aborted[p],
         LoopWaiting(p, t) \/ LoopStart(p, t) \/ LoopHit(p, t) \/ LoopDetect(p, t)
  PROVE  OnTrack(p)'
<1>1. /\ t \in cur[p] /\ cur[p] = {t} /\ pc[p] \in {"wait", "start", "hit", "applied"}
      /\ Sits(out, st[p]) /\ st[p] \in ExecutionState /\ InStep(p)
      /\ pc[p] # "applied" => st[p].task[t] \notin {"completed", "in_progress"}
      /\ \A d \in DependsOn(t) : out[d].content # {}
  <2>1. t \in cur[p] /\ pc[p] \in {"wait", "start", "hit", "applied"}
    BY DEF LoopWaiting, LoopStart, LoopHit, LoopDetect
  <2>2. cur[p] = {t}
    BY <2>1 DEF Unused
  <2>3. Sits(out, st[p])
    BY DEF OnTrack
  <2>4. st[p] \in ExecutionState
    BY DEF TypeOK
  <2>5. InStep(p)
    BY <2>1 DEF SlotsOf, Active, Loop
  <2>6. pc[p] # "applied" => st[p].task[t] \notin {"completed", "in_progress"}
    BY <2>1 DEF SlotsOf, InHand, Preparing
  <2>7. \A d \in DependsOn(t) : out[d].content # {}
    BY <2>1, OutputsThere
  <2> QED BY <2>1, <2>2, <2>3, <2>4, <2>5, <2>6, <2>7
<1>2. ASSUME Sits(out', st'[p]),
             \/ NextLaunch(p, TRUE, {}) \/ NextLaunch(p, synced[p], {t})
             \/ pc' = [pc EXCEPT ![p] = "applied"]
      PROVE  OnTrack(p)'
  <2>1. CASE NextLaunch(p, TRUE, {})
    <3>1. pc'[p] = "launch"
      BY <2>1 DEF NextLaunch, TypeOK
    <3>2. synced'[p]
      BY <2>1 DEF NextLaunch, TypeOK
    <3> QED BY <1>2, <3>1, <3>2 DEF OnTrack
  <2>2. CASE NextLaunch(p, synced[p], {t})
    <3>1. pc'[p] = "launch"
      BY <2>2 DEF NextLaunch, TypeOK
    <3>2. cur'[p] # {}
      BY <2>2 DEF NextLaunch, TypeOK
    <3> QED BY <1>2, <3>1, <3>2 DEF OnTrack
  <2>3. CASE pc' = [pc EXCEPT ![p] = "applied"]
    <3>1. pc'[p] = "applied"
      BY <2>3 DEF TypeOK
    <3> QED BY <1>2, <3>1 DEF OnTrack
  <2> QED BY <1>2, <2>1, <2>2, <2>3
<1>3. CASE LoopWaiting(p, t)
  <2>1. pc[p] = "wait" /\ out' = out /\ st'[p] = TasksWaiting(st[p], t) /\ NextLaunch(p, TRUE, {})
    BY <1>3 DEF LoopWaiting, TypeOK
  <2>2. ReadBy(p, t) = Reads[t]
    BY <2>1 DEF ReadBy
  <2>3. PICK r \in Reads[t] : got[p][t][r] = {}
    BY <1>1, <2>1 DEF OnTrack
  <2>4. r \notin Tasks /\ out[t].content = {}
    BY <1>1, <2>1, <2>2, <2>3 DEF OnTrack
  <2>5. \A u \in Tasks : out[u].content # {} => \A d \in DependsOn(u) : out[d].content # {}
    BY OutputsThere
  <2>6. ASSUME NEW u \in Tasks, st[p].task[u] = "in_progress"
        PROVE  \A d \in DependsOn(u) : out[d].content # {}
    <3>1. Tracked(p, u)
      BY <1>1, <2>6 DEF InStep
    <3>2. phase[p][u] \in Launched
      BY <2>1, <3>1 DEF Tracked, RunRight, NoneStopped
    <3> QED BY <3>2, OutputsThere DEF Served
  <2>7. \A u \in Tasks : st[p].task[u] \in {"completed", "in_progress"} =>
          \A d \in DependsOn(u) : out[d].content # {}
    BY <2>6, OutputsThere
  <2>8. Sits(out, TasksWaiting(st[p], t))
    <3>1. ~(Reads[t] \subseteq Tasks)
      BY <2>3, <2>4
    <3> QED BY <1>1, <2>1, <2>4, <2>5, <2>7, <3>1, WaitingSits
  <2> QED BY <1>2, <2>1, <2>8
<1>4. CASE LoopStart(p, t)
  <2>1. pc[p] = "start" /\ out' = out /\ st'[p] = TaskStarted(st[p], t) /\ NextLaunch(p, synced[p], {t})
    BY <1>4 DEF LoopStart, TypeOK
  <2>2. Sits(out, TaskStarted(st[p], t))
    BY <1>1, <2>1, OneSits DEF TaskStarted
  <2> QED BY <1>2, <2>1, <2>2
<1>5. CASE LoopHit(p, t)
  <2>1. pc[p] = "hit" /\ \/ BackToPending(p, t) /\ NextLaunch(p, TRUE, {})
                         \/ Apply(p, t, TRUE) /\ pc' = [pc EXCEPT ![p] = "applied"]
    BY <1>5 DEF LoopHit
  <2>2. Sits(out', st'[p])
    BY <1>1, <2>1, BackSits, ApplySits
  <2> QED BY <1>2, <2>1, <2>2
<1>6. CASE LoopDetect(p, t)
  <2>1. Detect(p) /\ out' = out /\ NextLaunch(p, TRUE, {})
    BY <1>6 DEF LoopDetect
  <2> QED BY <1>1, <1>2, <2>1, DetectSits
<1> QED BY <1>3, <1>4, <1>5, <1>6

LEMMA HandlerTrack ==
  ASSUME NEW p \in Procs, NEW t \in Tasks, TypeOK, SlotsOf(p), RunRight(p), Written,
         OnTrack(p), ~failure'[p], Handler(p, t)
  PROVE  OnTrack(p)'
<1>1. /\ phase[p][t] # "none" /\ phase[p][t] \notin {"stopped", "thrown"}
      /\ UNCHANGED <<pc, pass>> /\ Sits(out, st[p])
  BY DEF Handler, RunnerFinish, HandlerApply, HandlerDetect, HandlerStopped, HandlerFailed,
     HandlerFailTask, OnTrack, RunRight, NoneStopped
<1>2. pc[p] # "drain" /\ t \notin cur[p]
  <2>1. InFlight(p) # {}
    BY <1>1 DEF InFlight
  <2> QED BY <1>1, <2>1 DEF RunRight, NoneStopped, SlotsOf, InHand
<1>3. ASSUME Sits(out', st'[p]), \A u \in Tasks \ {t} : out'[u] = out[u] /\ got'[p][u] = got[p][u]
      PROVE  OnTrack(p)'
  <2>1. \A u \in cur[p] : u \in Tasks /\ u # t
    BY <1>2 DEF TypeOK
  <2>2. \A u : ReadBy(p, u)' = ReadBy(p, u)
    BY <1>1 DEF ReadBy, pass
  <2>3. /\ UNCHANGED <<pc, cur, synced>> /\ pc'[p] # "drain"
        /\ \A u \in cur[p] : out'[u] = out[u] /\ got'[p][u] = got[p][u]
    BY <1>1, <1>2, <1>3, <2>1 DEF pass
  <2>4. pc[p] \in {"read", "wait"} =>
          \A u \in cur[p] : \A r \in ReadBy(p, u)' :
            got'[p][u][r] = {} => r \notin Tasks /\ out'[u].content = {}
    BY <1>1, <2>2, <2>3 DEF OnTrack
  <2>5. /\ pc[p] = "wait" => \A u \in cur[p] : \E r \in Reads[u] : got'[p][u][r] = {}
        /\ pc[p] = "launch" => synced[p] \/ cur[p] # {}
    BY <1>1, <2>3 DEF OnTrack
  <2> QED BY <1>3, <2>3, <2>4, <2>5 DEF OnTrack
<1>4. ~HandlerStopped(p, t) /\ ~HandlerFailed(p, t) /\ ~HandlerFailTask(p, t)
  BY <1>1 DEF HandlerStopped, HandlerFailed, HandlerFailTask, TypeOK
<1>5. CASE RunnerFinish(p, t)
  BY <1>1, <1>3, <1>5 DEF RunnerFinish
<1>6. CASE HandlerApply(p, t)
  <2>1. /\ phase[p][t] \in {"executed", "hit"} /\ got' = got
        /\ BackToPending(p, t) \/ Apply(p, t, phase[p][t] = "hit")
    BY <1>6 DEF HandlerApply
  <2>2. phase[p][t] \in Launched
    BY <2>1 DEF Launched
  <2>3. \A d \in DependsOn(t) : out[d].content # {}
    BY <2>2, OutputsThere DEF Served
  <2>4. st[p].task[t] # "completed"
    BY <2>2 DEF SlotsOf, NotYetDone
  <2>5. ASSUME NEW hit \in BOOLEAN, Apply(p, t, hit)
        PROVE  Sits(out', st'[p]) /\ \A u \in Tasks \ {t} : out'[u] = out[u]
    <3>1. Sits(out', st'[p])
      BY <1>1, <2>3, <2>5, ApplySits
    <3>2. \A u \in Tasks \ {t} : out'[u] = out[u]
      BY <2>5 DEF Apply, TypeOK
    <3> QED BY <3>1, <3>2
  <2>6. BackToPending(p, t) => Sits(out', st'[p]) /\ out' = out
    BY <1>1, <2>3, <2>4, BackSits DEF BackToPending
  <2>7. (phase[p][t] = "hit") \in BOOLEAN
    OBVIOUS
  <2>8. Sits(out', st'[p]) /\ \A u \in Tasks \ {t} : out'[u] = out[u]
    BY <2>1, <2>5, <2>6, <2>7
  <2> QED BY <1>3, <2>1, <2>8
<1>7. CASE HandlerDetect(p, t)
  <2>1. Detect(p) /\ out' = out /\ FreeSlot(p, t)
    BY <1>7 DEF HandlerDetect
  <2> QED BY <1>1, <1>3, <2>1, DetectSits, FreedSlot
<1> QED BY <1>4, <1>5, <1>6, <1>7 DEF Handler

\* The loop turns, with nothing to schedule when it breaks out.
LEMMA TurnTrack ==
  ASSUME NEW p \in Procs, TypeOK, OnTrack(p),
         \/ Race(p)
         \/ /\ pc[p] = "top" /\ IsComplete(st[p]) /\ pc' = [pc EXCEPT ![p] = "drain"]
            /\ UNCHANGED <<durable, st, pass, slots, flags>>
  PROVE  OnTrack(p)'
<1>1. /\ UNCHANGED <<out, st>> /\ st[p] \in ExecutionState
      /\ pc'[p] \in {"top", "drain"} /\ (pc'[p] = "drain" => IsComplete(st[p]))
  BY DEF Race, durable, TypeOK
<1>2. Sits(out, st[p])
  BY DEF OnTrack
<1> QED BY <1>1, <1>2, CompleteLeft DEF OnTrack

\* No process died or yielded the workspace; or, if no task fails, none yielded.
NoneDead == \A p \in Procs : pc[p] # "dead"
Calm     == NoneYielded /\ (CanFail = {} \/ NoneDead)

LEMMA NextCalm ==
  ASSUME TypeOK, Ownership, [Next]_vars
  PROVE  /\ Calm' => Calm
         /\ NoneDead' => NoneDead
<1>1. NoneDead' => NoneDead
  <2> SUFFICES ASSUME NEW p \in Procs, pc[p] = "dead" PROVE pc'[p] = "dead"
    BY DEF NoneDead
  <2> QED BY OverStays DEF Ended
<1> QED BY <1>1, NextNoneYielded DEF Calm

\* Where no process dies or yields, a run the store holds as running is held.
Held ==
  NoneYielded /\ NoneDead /\ store.id # NoProc /\ store.s.status = "running" => lock # NoProc

LEMMA NextHeld ==
  ASSUME TypeOK, Ownership, Slots, Held, [Next]_vars
  PROVE  Held'
<1> SUFFICES ASSUME NoneYielded', NoneDead', store'.id # NoProc, store'.s.status = "running"
             PROVE  lock' # NoProc
  BY DEF Held
<1>1. NoneYielded /\ NoneDead
  BY NextNoneYielded, NextCalm
<1>2. CASE UNCHANGED <<store, lock>>
  BY <1>1, <1>2 DEF Held
<1>3. ASSUME NEW p \in Procs, Start(p) \/ Resume(p) PROVE lock' # NoProc
  BY <1>3, RunAssumption DEF Start, Resume, Begin
<1>4. ASSUME NEW p \in Procs, Quiet(p) PROVE lock' # NoProc
  <2>1. lock' = lock /\ store'.id = store.id /\ store'.s.status = store.s.status
    BY <1>4, QuietStore DEF Quiet
  <2> QED BY <1>1, <2>1 DEF Held
<1>5. ASSUME NEW p \in Procs, Ends(p) PROVE lock' # NoProc
  <2>1. Active(p) /\ lock = p /\ lock # NoProc /\ store' = store
    BY <1>1, <1>5, EndWrites, RunAssumption DEF Ownership, ActiveOwnsStore
  <2>2. CASE EndCancelled(p)
    BY <2>1, <2>2 DEF EndCancelled
  <2>3. CASE YieldCheckpoint(p)
    BY <2>1, <2>3 DEF YieldCheckpoint
  <2>4. CASE DrainCancelled(p)
    BY <2>1, <2>4 DEF DrainCancelled, Ownership, ActiveOwnsStore
  <2>5. Taken(p) => ~DrainFinalize(p) /\ ~EndFailed(p)
    <3>1. st[p] \in ExecutionState /\ store.s \in ExecutionState /\ store \in [id : Procs \union {NoProc}, s : ExecutionState]
      BY DEF TypeOK
    <3>2. Taken(p) /\ DrainFinalize(p) => store'.s.status # "running"
      <4>1. Taken(p) /\ DrainFinalize(p) => store'.s = Finalize(st[p])
        BY <3>1, EndTypes, WriteEffect DEF DrainFinalize
      <4> QED BY <3>1, <4>1, EndTypes
    <3>3. Taken(p) /\ EndFailed(p) => store'.s.status # "running"
      <4> DEFINE f == [store.s EXCEPT !.status = "failed"]
      <4>1. f \in ExecutionState /\ f.status # "running"
        BY <3>1, EndTypes DEF ExecutionState
      <4>2. EndFailed(p) => Write(p, f)
        BY DEF EndFailed
      <4> HIDE DEF f
      <4> QED BY <4>1, <4>2, WriteEffect
    <3> QED BY <3>2, <3>3
  <2>6. Taken(p)
    BY <2>1 DEF Taken, Ownership, ActiveOwnsStore
  <2>7. ~Crash(p)
    BY DEF Crash, NoneDead, TypeOK
  <2>8. ~LetGo(p) /\ ~Forget(p)
    BY <2>1, Locations DEF LetGo, Forget, Active
  <2> QED BY <1>5, <2>2, <2>3, <2>4, <2>5, <2>6, <2>7, <2>8 DEF Ends
<1>6. ASSUME NEW i \in Inputs, NEW v \in Values, SetInput(i, v) PROVE lock' # NoProc
  BY <1>2, <1>6 DEF SetInput
<1>7. CASE UNCHANGED vars
  BY <1>2, <1>7 DEF vars, durable
<1>8. ASSUME NEW p \in Procs, LoopStep(p) PROVE lock' # NoProc
  BY <1>4, <1>5, <1>8, QuietSteps DEF LoopStep, Ends
<1>9. ASSUME NEW p \in Procs, Crash(p) \/ EndCancelled(p) PROVE lock' # NoProc
  BY <1>5, <1>9 DEF Ends
<1>10. ASSUME NEW p \in Procs, \/ LoopThrows(p) \/ RequestCancel(p)
                               \/ \E t \in Tasks : Handler(p, t) \/ HandlerThrows(p, t)
       PROVE  lock' # NoProc
  BY <1>4, <1>10, QuietSteps
<1> QED BY <1>3, <1>6, <1>7, <1>8, <1>9, <1>10 DEF Next

\* Where no task fails and none throws, no run meets a failure.
NoFailure ==
  \A p \in Procs : ~failure[p] /\ \A t \in Tasks : phase[p][t] \notin {"failed", "thrown"}

LEMMA NextNoFailure ==
  ASSUME TypeOK, ~CanThrow, CanFail = {}, NoFailure, [Next]_vars
  PROVE  NoFailure'
<1>1. ASSUME NEW p \in Procs, NEW t \in Tasks PROVE phase'[p][t] # "thrown"
  BY NextNoneThrown DEF NoFailure
<1>2. ASSUME phase' = phase \/ (\E p \in Procs : LaunchCur(p)) \/ (\E p \in Procs, u \in Tasks : FreeSlot(p, u)),
             failure' = failure
      PROVE  NoFailure'
  <2>1. ASSUME NEW q \in Procs, NEW t \in Tasks
        PROVE  phase'[q][t] \in {phase[q][t], "none", "running"}
    <3>1. ASSUME NEW p \in Procs, LaunchCur(p)
          PROVE  phase'[q][t] \in {phase[q][t], "none", "running"}
      BY <3>1 DEF LaunchCur, TypeOK
    <3>2. ASSUME NEW p \in Procs, NEW u \in Tasks, FreeSlot(p, u)
          PROVE  phase'[q][t] \in {phase[q][t], "none", "running"}
      BY <3>2 DEF FreeSlot, TypeOK
    <3> QED BY <1>2, <3>1, <3>2
  <2> QED BY <1>2, <2>1 DEF NoFailure
<1>3. ASSUME NEW p \in Procs, NEW t \in Tasks, Handler(p, t) \/ HandlerThrows(p, t) PROVE NoFailure'
  <2>1. ~HandlerThrows(p, t) /\ ~HandlerFailed(p, t) /\ ~HandlerFailTask(p, t)
    BY DEF HandlerThrows, HandlerFailed, HandlerFailTask, NoFailure
  <2>2. CASE RunnerFinish(p, t)
    <3>1. PICK outcome \in {"executed", "hit", "failed", "stopped"} :
            Outcome(p, t, outcome) /\ phase' = [phase EXCEPT ![p][t] = outcome]
      BY <2>2 DEF RunnerFinish
    <3>2. outcome \in {"executed", "hit", "stopped"}
      BY <3>1 DEF Outcome
    <3>3. \A q \in Procs : \A u \in Tasks : phase'[q][u] \in {phase[q][u], outcome}
      BY <3>1 DEF TypeOK
    <3>4. failure' = failure
      BY <2>2 DEF RunnerFinish, flags
    <3> QED BY <3>2, <3>3, <3>4 DEF NoFailure
  <2>3. CASE HandlerApply(p, t)
    <3>1. phase' = [phase EXCEPT ![p][t] = "applied"] /\ failure' = failure
      BY <2>3 DEF HandlerApply, flags
    <3>2. \A q \in Procs : \A u \in Tasks : phase'[q][u] \in {phase[q][u], "applied"}
      BY <3>1 DEF TypeOK
    <3> QED BY <3>1, <3>2 DEF NoFailure
  <2>4. CASE HandlerDetect(p, t) \/ HandlerStopped(p, t)
    BY <1>2, <2>4 DEF HandlerDetect, HandlerStopped, flags
  <2> QED BY <1>3, <2>1, <2>2, <2>3, <2>4 DEF Handler
<1>4. ASSUME NEW p \in Procs, LoopStep(p) PROVE NoFailure'
  <2>1. phase' = phase \/ LaunchCur(p) \/ \E u \in Tasks : FreeSlot(p, u)
    BY <1>4 DEF LoopStep, Top, Launch, PrepareNext, EndPass, Race, ReadInput, LoopWaiting, LoopStart,
       LoopHit, LoopDetect, YieldCheckpoint, LetGo, Forget, DrainCancelled, DrainStuck,
       DrainFinalize, EndFailed, slots
  <2>2. failure' = failure
    BY <1>4 DEF LoopStep, Top, Launch, PrepareNext, EndPass, Race, ReadInput, LoopWaiting, LoopStart,
       LoopHit, LoopDetect, NextLaunch, YieldCheckpoint, LetGo, Forget, DrainCancelled, DrainStuck,
       DrainFinalize, EndFailed, flags
  <2> QED BY <1>2, <2>1, <2>2
<1>5. ASSUME NEW p \in Procs, Crash(p) PROVE NoFailure'
  <2>1. failure' = failure /\ \A q \in Procs : \A t \in Tasks : phase'[q][t] \in {phase[q][t], "none"}
    BY <1>5 DEF Crash, TypeOK, flags
  <2> QED BY <2>1 DEF NoFailure
<1>6. ASSUME NEW p \in Procs, Start(p) \/ Resume(p) \/ RequestCancel(p) \/ EndCancelled(p) PROVE NoFailure'
  BY <1>2, <1>6 DEF Start, Resume, Begin, RequestCancel, EndCancelled, slots
<1>7. ASSUME NEW i \in Inputs, NEW v \in Values, SetInput(i, v) PROVE NoFailure'
  BY <1>2, <1>7 DEF SetInput, slots, flags
<1>8. CASE UNCHANGED vars
  BY <1>2, <1>8 DEF vars, slots, flags
<1>9. \A p \in Procs : ~LoopThrows(p)
  BY DEF LoopThrows
<1> QED BY <1>3, <1>4, <1>5, <1>6, <1>7, <1>8, <1>9 DEF Next

\* What the store holds running where no task fails.
Clean(s)   == \A t \in Tasks : s.task[t] \notin {"failed", "skipped"}
StoreClean == store.id # NoProc /\ store.s.status = "running" => Clean(store.s)
Tracks ==
  /\ \A p \in Procs : Active(p) /\ ~aborted[p] /\ ~failure[p] => OnTrack(p)
  /\ \A p \in Procs : pc[p] \notin {"throwing", "failed"}
  /\ CanFail = {} => StoreClean

\* A step of the active process that does not end its run.
LEMMA QuietTracks ==
  ASSUME NEW p \in Procs, TypeOK, Ownership, Tracks, Active(p), Quiet(p), pc'[p] # "throwing",
         ~aborted'[p] /\ ~failure'[p] => OnTrack(p)',
         CanFail = {} => store' = store \/ Clean(store'.s)
  PROVE  Tracks'
<1>1. /\ \A q \in Procs \ {p} : pc'[q] = pc[q]
      /\ pc'[p] \in Loop
  BY DEF Quiet, Active, TypeOK
<1>2. \A q \in Procs : pc'[q] \notin {"throwing", "failed"}
  <2>1. pc'[p] # "failed"
    BY <1>1 DEF Loop
  <2> QED BY <1>1, <2>1 DEF Tracks
<1>3. ASSUME NEW q \in Procs, Active(q)', ~aborted'[q], ~failure'[q] PROVE OnTrack(q)'
  <2>1. q = p
    BY <1>1, <1>3, OneActive DEF Ownership, Active
  <2> QED BY <1>3, <2>1
<1>4. CanFail = {} => StoreClean'
  BY DEF Tracks, StoreClean
<1> QED BY <1>2, <1>3, <1>4 DEF Tracks

\* A step on a task writes the state it leaves, or nothing.
LEMMA TaskStepWrites ==
  ASSUME NEW p \in Procs, NEW t \in Tasks, TypeOK,
         \/ LoopWaiting(p, t) \/ LoopStart(p, t) \/ LoopHit(p, t) \/ LoopDetect(p, t)
         \/ Handler(p, t)
  PROVE  /\ store' = store \/ store'.s = st'[p]
         /\ failure[p] => failure'[p]
<1>1. ASSUME NEW s, Persist(p, s), st' = [st EXCEPT ![p] = s]
      PROVE  store' = store \/ store'.s = st'[p]
  <2>1. st'[p] = s
    BY <1>1 DEF TypeOK
  <2>2. store' = store \/ store'.s = s
    BY <1>1 DEF Persist, Write, TypeOK
  <2> QED BY <2>1, <2>2
<1>2. CASE LoopWaiting(p, t) \/ LoopStart(p, t)
  <2>1. failure' = failure
    BY <1>2 DEF LoopWaiting, LoopStart, NextLaunch, flags
  <2> QED BY <1>1, <1>2, <2>1 DEF LoopWaiting, LoopStart
<1>3. CASE LoopHit(p, t) \/ HandlerApply(p, t) \/ RunnerFinish(p, t)
  BY <1>3 DEF LoopHit, HandlerApply, RunnerFinish, NextLaunch, flags
<1>4. CASE LoopDetect(p, t) \/ HandlerDetect(p, t)
  <2>1. Detect(p) /\ failure' = failure
    BY <1>4 DEF LoopDetect, HandlerDetect, NextLaunch, flags
  <2>2. PICK s \in ExecutionState : st' = [st EXCEPT ![p] = s] /\ Persist(p, s)
    BY <2>1, DetectEffect
  <2> QED BY <1>1, <2>1, <2>2
<1>5. CASE HandlerStopped(p, t)
  <2>1. failure' = failure
    BY <1>5 DEF HandlerStopped, flags
  <2> QED BY <1>1, <1>5, <2>1 DEF HandlerStopped, BackToPending
<1>6. CASE HandlerFailed(p, t) \/ HandlerFailTask(p, t)
  <2>1. failure'[p]
    BY <1>6 DEF HandlerFailed, HandlerFailTask, TypeOK
  <2> QED BY <1>1, <1>6, <2>1 DEF HandlerFailed, HandlerFailTask
<1> QED BY <1>2, <1>3, <1>4, <1>5, <1>6 DEF Handler

\* The steps of an active run that do not end it.
LEMMA RunTracks ==
  ASSUME NEW p \in Procs, TypeOK, Ownership, NoneYielded, Slots, Unused, Written, Follows,
         Faithful, Tracks,
         CanFail = {} => NoFailure', ~CanThrow,
         \/ Top(p) \/ Launch(p) \/ Race(p) \/ DrainStuck(p) \/ LoopThrows(p) \/ RequestCancel(p)
         \/ \E t \in Tasks : \E d \in Datasets : ReadInput(p, t, d)
         \/ \E t \in Tasks :
              LoopWaiting(p, t) \/ LoopStart(p, t) \/ LoopHit(p, t) \/ LoopDetect(p, t)
         \/ Active(p) /\ \E t \in Tasks : Handler(p, t) \/ HandlerThrows(p, t)
  PROVE  Tracks'
<1>1. SlotsOf(p) /\ Quiet(p)
  BY QuietSteps DEF Slots
<1>2. Active(p) /\ ~aborted[p] => RunRight(p)
  BY DEF Faithful
<1>3. Active(p) /\ ~aborted[p] /\ ~failure[p] => OnTrack(p)
  BY DEF Tracks
<1>4. CASE \E t \in Tasks : \/ LoopWaiting(p, t) \/ LoopStart(p, t) \/ LoopHit(p, t) \/ LoopDetect(p, t)
                            \/ Active(p) /\ Handler(p, t)
  <2>1. PICK t \in Tasks : \/ LoopWaiting(p, t) \/ LoopStart(p, t) \/ LoopHit(p, t) \/ LoopDetect(p, t)
                           \/ Active(p) /\ Handler(p, t)
    BY <1>4
  <2>2. Active(p)
    BY <2>1 DEF LoopWaiting, LoopStart, LoopHit, LoopDetect, Active, Loop
  <2>3. /\ aborted[p] => store' = store
        /\ aborted' = aborted
        /\ failure[p] => failure'[p]
        /\ store' = store \/ store'.s = st'[p]
    BY <2>1, <2>2, TaskStepStore, TaskStepWrites
  <2>4. ~aborted'[p] /\ ~failure'[p] => OnTrack(p)'
    <3> SUFFICES ASSUME ~aborted'[p], ~failure'[p] PROVE OnTrack(p)'
      OBVIOUS
    <3>1. RunRight(p) /\ OnTrack(p) /\ ~aborted[p]
      BY <1>2, <1>3, <2>2, <2>3
    <3> QED BY <1>1, <2>1, <3>1, LoopTaskTrack, HandlerTrack
  <2>5. pc'[p] # "throwing"
    <3>1. pc[p] # "throwing"
      BY DEF Tracks
    <3>2. pc' = pc \/ \E l \in {"launch", "applied"} : pc' = [pc EXCEPT ![p] = l]
      BY <2>1 DEF LoopWaiting, LoopStart, LoopHit, LoopDetect, NextLaunch, Handler, RunnerFinish,
         HandlerApply, HandlerDetect, HandlerStopped, HandlerFailed, HandlerFailTask
    <3> QED BY <3>1, <3>2 DEF TypeOK
  <2>6. CanFail = {} => store' = store \/ Clean(store'.s)
    <3> SUFFICES ASSUME CanFail = {}, store' # store PROVE Clean(store'.s)
      OBVIOUS
    <3>1. ~aborted'[p] /\ ~failure'[p]
      BY <2>3 DEF NoFailure
    <3> QED BY <2>3, <2>4, <3>1 DEF OnTrack, Sits, Clean
  <2> QED BY <1>1, <2>2, <2>4, <2>5, <2>6, QuietTracks
<1>5. ASSUME Active(p), store' = store, pc'[p] # "throwing",
             ~aborted'[p] /\ ~failure'[p] => OnTrack(p)'
      PROVE  Tracks'
  BY <1>1, <1>5, QuietTracks
<1>6. CASE Top(p) \/ Launch(p)
  <2>1. GetReady(st[p]) \in SUBSET Tasks /\ queue[p] \in SUBSET Tasks
    BY DEF GetReady, GetReadyTasks, TypeOK
  <2>2. Active(p)
    BY <1>6 DEF Top, Launch, Active, Loop
  <2>3. UNCHANGED <<store, aborted, failure>>
    BY <1>6 DEF Top, Launch, PrepareNext, EndPass, durable, flags
  <2>4. pc'[p] # "throwing"
    BY <1>6 DEF Top, Launch, PrepareNext, EndPass, TypeOK
  <2>5. ~aborted[p] /\ ~failure[p] => OnTrack(p)'
    <3> SUFFICES ASSUME ~aborted[p], ~failure[p] PROVE OnTrack(p)'
      OBVIOUS
    <3>1. RunRight(p) /\ OnTrack(p)
      BY <1>2, <1>3, <2>2
    <3>2. CASE Launch(p)
      BY <1>1, <2>1, <3>1, <3>2, PassTrack DEF Launch
    <3>3. CASE Top(p)
      BY <1>1, <2>1, <3>1, <3>3, PassTrack, TurnTrack DEF Top
    <3> QED BY <1>6, <3>2, <3>3
  <2> QED BY <1>5, <2>2, <2>3, <2>4, <2>5
<1>7. CASE Race(p)
  <2>1. Active(p) /\ UNCHANGED <<store, aborted, failure>> /\ pc'[p] # "throwing"
    BY <1>7 DEF Race, Active, Loop, durable, flags, TypeOK
  <2> QED BY <1>3, <1>5, <1>7, <2>1, TurnTrack
<1>8. ~DrainStuck(p)
  <2> SUFFICES ASSUME DrainStuck(p) PROVE FALSE
    OBVIOUS
  <2>1. Active(p) /\ ~aborted[p] /\ ~failure[p] /\ pc[p] = "drain" /\ StuckTasks(st[p]) # {}
    BY DEF DrainStuck, Stuck, Active, Loop
  <2> QED BY <1>3, <2>1 DEF OnTrack
<1>9. CASE \E t \in Tasks : \E d \in Datasets : ReadInput(p, t, d)
  <2>1. PICK t \in Tasks, d \in Datasets : ReadInput(p, t, d)
    BY <1>9
  <2>2. Active(p) /\ UNCHANGED <<store, aborted, failure>>
    BY <2>1 DEF ReadInput, Active, Loop, durable, flags
  <2>3. pc'[p] # "throwing"
    BY <2>1, ReadInputTarget DEF TypeOK
  <2>4. ~aborted[p] /\ ~failure[p] => OnTrack(p)'
    BY <1>1, <1>3, <2>1, <2>2, ReadTrack
  <2> QED BY <1>5, <2>2, <2>3, <2>4
<1>10. CASE RequestCancel(p)
  <2>1. Active(p) /\ store' = store /\ aborted'[p] /\ pc' = pc
    BY <1>10 DEF RequestCancel, NoneYielded, Parted, durable, TypeOK
  <2>2. pc'[p] # "throwing"
    BY <2>1 DEF Tracks
  <2> QED BY <1>5, <2>1, <2>2
<1>11. ~LoopThrows(p) /\ \A t \in Tasks : ~HandlerThrows(p, t)
  BY DEF LoopThrows, HandlerThrows
<1> QED BY <1>4, <1>6, <1>7, <1>8, <1>9, <1>10, <1>11

\* How a run ends.
LEMMA EndTracks ==
  ASSUME NEW p \in Procs, TypeOK, Ownership, Slots, Tracks, Ends(p), NoneYielded,
         NoneYielded'
  PROVE  Tracks'
<1>1. /\ Active(p)
      /\ YieldCheckpoint(p) => aborted'[p]
      /\ store' = store \/ store'.s.status # "running"
      /\ \A q \in Procs \ {p} : pc'[q] = pc[q]
  BY EndWrites, EndsAt
<1>2. CanFail = {} => StoreClean'
  BY <1>1 DEF Tracks, StoreClean
<1>3. ASSUME NEW q \in Procs, Active(q)', ~aborted'[q] PROVE FALSE
  <2>1. q = p
    BY <1>1, <1>3, OneActive DEF Ownership, Active
  <2>2. EndCancelled(p) \/ YieldCheckpoint(p)
    BY <1>3, <2>1, EndsAt
  <2>3. EndCancelled(p) => aborted'[p]
    BY DEF EndCancelled, CancelDue
  <2> QED BY <1>1, <1>3, <2>1, <2>2, <2>3
<1>4. pc'[p] \notin {"throwing", "failed"}
  <2>1. pc[p] \notin {"throwing", "failed"}
    BY DEF Tracks
  <2>2. ~EndFailed(p)
    BY <2>1 DEF EndFailed
  <2>3. \/ pc' = pc
        \/ \E l \in {"leaving", "yielded", "drain", "cancelled", "finished", "dead"} : pc' = [pc EXCEPT ![p] = l]
    BY <2>2 DEF Ends, YieldCheckpoint, LetGo, Forget, EndCancelled, DrainCancelled, DrainFinalize,
       Crash, Leave
  <2> QED BY <2>1, <2>3 DEF TypeOK
<1>5. \A q \in Procs : pc'[q] \notin {"throwing", "failed"}
  BY <1>1, <1>4 DEF Tracks
<1> QED BY <1>2, <1>3, <1>5 DEF Tracks

\* How a run begins, or is taken up.
LEMMA BeginTracks ==
  ASSUME NEW p \in Procs, TypeOK, Ownership, Held, Tracks, Calm, Start(p) \/ Resume(p)
  PROVE  Tracks'
<1>1. ASSUME NEW s \in ExecutionState, NEW id, Begin(p, s, id),
             \A u \in Tasks : s.task[u] \in {"pending", "ready", "completed"}
      PROVE  Tracks'
  <2>1. /\ st'[p] = s /\ store' = [id |-> id, s |-> s]
        /\ pc'[p] = "top" /\ lock = NoProc
        /\ \A q \in Procs \ {p} : pc'[q] = pc[q]
    BY <1>1 DEF Begin, TypeOK
  <2>2. StoreClean'
    BY <1>1, <2>1 DEF StoreClean, Clean
  <2>3. OnTrack(p)'
    BY <1>1, <2>1, BegunSits DEF OnTrack
  <2>4. \A q \in Procs : Active(q)' => q = p
    <3>1. \A q \in Procs : ~Active(q)
      BY <2>1, RunAssumption DEF Ownership, ActiveOwnsStore
    <3> QED BY <2>1, <3>1 DEF Active
  <2>5. \A q \in Procs : pc'[q] \notin {"throwing", "failed"}
    BY <2>1 DEF Tracks
  <2> QED BY <2>2, <2>3, <2>4, <2>5 DEF Tracks
<1>2. CASE Start(p)
  <2>1. root \in [Inputs -> Values \union {Unassigned}]
    BY DEF TypeOK
  <2> DEFINE s == Initialize(root)
  <2>2. /\ s \in ExecutionState /\ Begin(p, s, p)
        /\ \A u \in Tasks : s.task[u] \in {"pending", "ready", "completed"}
    BY <1>2, <2>1, InitializeType, InitializeAt DEF Start
  <2> HIDE DEF s
  <2> QED BY <1>1, <2>2
<1>3. CASE Resume(p)
  <2>1. store.id # NoProc /\ store.s.status = "running" /\ lock = NoProc
    BY <1>3 DEF Resume, Begin
  <2>2. CanFail = {}
    BY <2>1 DEF Calm, Held
  <2>3. Clean(store.s)
    BY <2>1, <2>2 DEF Tracks, StoreClean
  <2> DEFINE s == Yield(store.s)
  <2>4. store.s \in ExecutionState /\ \A u \in Tasks : store.s.task[u] \in TaskStatus
    BY DEF TypeOK, ExecutionState
  <2>5. s \in ExecutionState /\ Begin(p, s, store.id)
    BY <1>3, <2>4, EndTypes DEF Resume
  <2>6. ASSUME NEW u \in Tasks PROVE s.task[u] \in {"pending", "ready", "completed"}
    <3>1. s.task[u] = IF store.s.task[u] \in {"in_progress", "deferred", "waiting"}
                      THEN "pending" ELSE store.s.task[u]
      BY <2>4, YieldAt
    <3> QED BY <2>3, <2>4, <3>1 DEF Clean, TaskStatus
  <2> HIDE DEF s
  <2> QED BY <1>1, <2>5, <2>6
<1> QED BY <1>2, <1>3

\* A step that leaves the runs as they are.
LEMMA SameTracks ==
  ASSUME Tracks, UNCHANGED <<out, store, pc, st, pass, slots, flags>>
  PROVE  Tracks'
<1>1. ASSUME NEW p \in Procs, OnTrack(p) PROVE OnTrack(p)'
  <2>1. \A t : ReadBy(p, t)' = ReadBy(p, t)
    BY DEF ReadBy, pass
  <2> QED BY <1>1, <2>1 DEF OnTrack, pass, slots
<1>2. \A p \in Procs : Active(p)' = Active(p)
  BY DEF Active
<1> QED BY <1>1, <1>2 DEF Tracks, StoreClean, flags

LEMMA NextTracks ==
  ASSUME TypeOK, Ownership, Slots, Unused, Written, Held, NoneYielded => Follows,
         NoneYielded => Faithful, CanFail = {} => NoFailure', Calm => Tracks, ~CanThrow, [Next]_vars
  PROVE  (Calm => Tracks)'
<1> SUFFICES ASSUME Calm' PROVE Tracks'
  OBVIOUS
<1>1. Calm /\ NoneYielded /\ NoneYielded' /\ Follows /\ Faithful /\ Tracks
  BY NextCalm DEF Calm
<1>2. CASE UNCHANGED vars
  BY <1>1, <1>2, SameTracks DEF vars, durable
<1>3. ASSUME NEW p \in Procs, NEW t \in Tasks, Handler(p, t) \/ HandlerThrows(p, t)
      PROVE  Tracks'
  <2>1. phase[p][t] # "none"
    BY <1>3 DEF Handler, HandlerThrows, RunnerFinish, HandlerApply, HandlerDetect, HandlerStopped,
       HandlerFailed, HandlerFailTask
  <2>2. Active(p)
    BY <1>1, <2>1 DEF Ownership, NoneYielded
  <2> QED BY <1>1, <1>3, <2>2, RunTracks
<1>4. ASSUME NEW p \in Procs, LoopStep(p) PROVE Tracks'
  BY <1>1, <1>4, RunTracks, EndTracks DEF LoopStep, Ends
<1>5. ASSUME NEW p \in Procs, Start(p) \/ Resume(p) PROVE Tracks'
  BY <1>1, <1>5, BeginTracks
<1>6. ASSUME NEW p \in Procs, Crash(p) \/ EndCancelled(p) PROVE Tracks'
  BY <1>1, <1>6, EndTracks DEF Ends
<1>7. ASSUME NEW p \in Procs, LoopThrows(p) \/ RequestCancel(p) PROVE Tracks'
  BY <1>1, <1>7, RunTracks
<1>8. ASSUME NEW i \in Inputs, NEW v \in Values, SetInput(i, v) PROVE Tracks'
  BY <1>1, <1>8, SameTracks DEF SetInput
<1> QED BY <1>2, <1>3, <1>4, <1>5, <1>6, <1>7, <1>8 DEF Next

LEMMA AlwaysUnfailed ==
  ASSUME ~CanThrow, CanFail = {}
  PROVE  Spec => []NoFailure
<1>1. Init => NoFailure
  BY DEF Init, NoFailure
<1>2. TypeOK /\ NoFailure /\ [Next]_vars => NoFailure'
  BY NextNoFailure
<1> QED BY <1>1, <1>2, TypeCorrect, PTL DEF Spec

LEMMA AlwaysTracks ==
  ASSUME ~Reuse, ~CanThrow
  PROVE  Spec => [](Calm => Tracks)
<1>1. Init => Unused /\ Held /\ (Calm => Tracks)
  <2> SUFFICES ASSUME Init PROVE Unused /\ Held /\ Tracks
    OBVIOUS
  <2>1. store.id = NoProc /\ \A p \in Procs : pc[p] = "idle"
    BY DEF Init
  <2> QED BY <2>1, InitUnused DEF Held, Tracks, StoreClean, Active, Loop
<1>2. TypeOK /\ Ownership /\ Unused /\ [Next]_vars => Unused'
  BY NextUnused
<1>3. TypeOK /\ Ownership /\ Slots /\ Held /\ [Next]_vars => Held'
  BY NextHeld
<1>4. Spec => [](CanFail = {} => NoFailure)
  <2>1. CASE CanFail = {}
    <3>1. Spec => []NoFailure
      BY <2>1, AlwaysUnfailed
    <3>2. NoFailure => (CanFail = {} => NoFailure)
      OBVIOUS
    <3> QED BY <3>1, <3>2, PTL
  <2>2. CASE CanFail # {}
    <3>1. CanFail = {} => NoFailure
      BY <2>2
    <3> QED BY <3>1, PTL
  <2> QED BY <2>1, <2>2
<1>5. TypeOK /\ Ownership /\ Slots /\ Unused /\ Written /\ Held /\ (NoneYielded => Follows)
        /\ (NoneYielded => Faithful) /\ (CanFail = {} => NoFailure)' /\ (Calm => Tracks) /\ [Next]_vars
        => (Calm => Tracks)'
  BY NextTracks
<1> QED BY <1>1, <1>2, <1>3, <1>4, <1>5, AlwaysSlots, AlwaysFollows, AlwaysFaithful, AlwaysWritten,
           PTL DEF Spec

\* NeverStuck, while no process yields the workspace, no task throws and no
\* version comes back, and no process dies unless no task fails: the loop never
\* breaks out with a task it could still have run, whatever was set, waited,
\* was deferred, invalidated or failed on the way.
THEOREM NeverStuckKept ==
  ASSUME ~Reuse, ~CanThrow
  PROVE  Spec => [](Calm => NeverStuck)
<1>1. Tracks => NeverStuck
  BY DEF Tracks, NeverStuck
<1> QED BY <1>1, AlwaysTracks, PTL

\* What a finished run that met no failure leaves waiting.
WaitsRight ==
  \A p \in Procs : pc[p] = "finished" =>
    \A t \in Tasks : st[p].task[t] = "waiting" /\ Reads[t] \subseteq Tasks =>
      \E d \in DependsOn(t) : st[p].task[d] = "waiting"

LEMMA FinalizeWaits ==
  ASSUME NEW p \in Procs, TypeOK, RunsSound, Slots, NoFailure, Tracks, DrainFinalize(p),
         NEW t \in Tasks, st[p].task[t] = "waiting", Reads[t] \subseteq Tasks
  PROVE  \E d \in DependsOn(t) : st[p].task[d] = "waiting"
<1>1. /\ st[p] \in ExecutionState /\ pc[p] = "drain" /\ InFlight(p) = {} /\ ~aborted[p]
      /\ SlotsOf(p) /\ Active(p) /\ ~failure[p]
  BY DEF DrainFinalize, TypeOK, Slots, Active, Loop, NoFailure
<1>2. StuckTasks(st[p]) = {} /\ Sits(out, st[p])
  BY <1>1 DEF Tracks, OnTrack
<1>3. \A u \in Tasks : st[p].task[u] # "in_progress"
  BY <1>1, NothingTracked DEF SlotsOf, InStep, Tracked, Launched
<1>4. PICK d \in DependsOn(t) : st[p].task[d] # "completed"
  BY <1>2 DEF Sits
<1>5. t \in RunSet
  BY DEF RunsSound, Sound, Confined
<1>6. d \in RunSet /\ d \in Tasks
  BY <1>4, <1>5, RunSetUp DEF DependsOn
<1>7. st[p].task[d] \in TaskStatus
  BY <1>1, <1>6 DEF ExecutionState
<1>8. st[p].task[d] \notin {"failed", "skipped"}
  BY <1>2, <1>6 DEF Sits
<1>9. st[p].task[d] \notin {"pending", "ready", "deferred"}
  BY <1>2, <1>6 DEF StuckTasks, TasksIn
<1> QED BY <1>3, <1>4, <1>6, <1>7, <1>8, <1>9 DEF TaskStatus

LEMMA NextWaits ==
  ASSUME TypeOK, Ownership, RunsSound, Slots, NoFailure, Tracks, WaitsRight, [Next]_vars
  PROVE  WaitsRight'
<1> SUFFICES ASSUME NEW p \in Procs, pc'[p] = "finished", NEW t \in Tasks,
                    st'[p].task[t] = "waiting", Reads[t] \subseteq Tasks
             PROVE  \E d \in DependsOn(t) : st'[p].task[d] = "waiting"
  BY DEF WaitsRight
<1>1. CASE pc[p] = "finished"
  <2>1. st'[p] = st[p]
    BY <1>1, OverStays DEF Ended
  <2> QED BY <1>1, <2>1 DEF WaitsRight
<1>2. CASE pc[p] # "finished"
  <2>1. DrainFinalize(p)
    BY <1>2, EndsHow
  <2>2. st'[p].task = st[p].task
    <3>1. st'[p] = Finalize(st[p]) /\ st[p] \in ExecutionState
      BY <2>1 DEF DrainFinalize, TypeOK
    <3> QED BY <3>1, EndAt
  <2> QED BY <2>1, <2>2, FinalizeWaits
<1> QED BY <1>1, <1>2

\* WaitingHasCause, under the hypotheses of NeverStuckKept and where no task
\* fails: a task that reads tasks alone waits at the end of a run only for one
\* of them that waits, in whatever order the loops over the waiting tasks took
\* them, and whatever was set meanwhile.
THEOREM WaitingCauseKept ==
  ASSUME ~Reuse, ~CanThrow, CanFail = {}
  PROVE  Spec => [](NoneYielded => WaitingHasCause)
<1>1. Init => WaitsRight
  BY DEF Init, WaitsRight
<1>2. TypeOK /\ Ownership /\ RunsSound /\ Slots /\ NoFailure /\ (Calm => Tracks)
        /\ (NoneYielded => WaitsRight) /\ [Next]_vars => (NoneYielded => WaitsRight)'
  <2> SUFFICES ASSUME TypeOK, Ownership, RunsSound, Slots, NoFailure, Calm => Tracks,
                      NoneYielded => WaitsRight, [Next]_vars, NoneYielded'
               PROVE  WaitsRight'
    OBVIOUS
  <2>1. NoneYielded /\ Calm
    BY NextNoneYielded DEF Calm
  <2> QED BY <2>1, NextWaits
<1>3. WaitsRight => WaitingHasCause
  <2> SUFFICES ASSUME WaitsRight, NEW p \in Procs, Done(p), NEW t \in TasksIn(st[p], {"waiting"}),
                      Reads[t] \subseteq Tasks
               PROVE  DependsOn(t) \cap TasksIn(st[p], {"waiting"}) # {}
    BY DEF WaitingHasCause
  <2>1. PICK d \in DependsOn(t) : st[p].task[d] = "waiting"
    BY DEF WaitsRight, Done, TasksIn
  <2> QED BY <2>1 DEF TasksIn, DependsOn
<1> QED BY <1>1, <1>2, <1>3, AlwaysSound, AlwaysSlots, AlwaysTracks, AlwaysUnfailed, PTL DEF Spec
=============================================================================
