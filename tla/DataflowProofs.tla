---------------------------- MODULE DataflowProofs ----------------------------
(***************************************************************************)
(* Proofs, for every package, number of processes and width, of what the   *)
(* runs of MCDataflow check on small instances.                            *)
(***************************************************************************)
EXTENDS DataflowProperties, FiniteSetTheorems, TLAPS

-----------------------------------------------------------------------------
(* The step functions take a run's state to a run's state                  *)

LEMMA StatusTypes ==
  /\ {"pending", "ready", "in_progress", "completed", "failed", "skipped",
      "deferred", "waiting"} \subseteq TaskStatus
  /\ {"running", "completed", "failed", "cancelled"} \subseteq RunStatus
BY DEF TaskStatus, RunStatus

\* Statuses set on any tasks leave a state a state.
LEMMA SetTasksType ==
  ASSUME NEW s \in ExecutionState, NEW ts, NEW status \in TaskStatus
  PROVE  /\ SetTasks(s, ts, status) \in ExecutionState
         /\ SetTasks(s, ts, status).status = s.status
BY DEF SetTasks, ExecutionState

LEMMA TasksInSubset ==
  ASSUME NEW s, NEW statuses
  PROVE  TasksIn(s, statuses) \subseteq Tasks
BY DEF TasksIn

\* Sets of tasks are finite, so counting them gives a number.
LEMMA CountTasks ==
  ASSUME NEW ts \in SUBSET Tasks
  PROVE  Cardinality(ts) \in Int
BY GraphAssumption, FS_Subset, FS_CardinalityType DEF GraphAssumption

LEMMA VersionOfType ==
  ASSUME NEW i \in Inputs, NEW v \in Values \union {Unassigned}
  PROVE  VersionOf(i, v) \in SUBSET Versions
BY DEF VersionOf, Versions

LEMMA MergedVVType ==
  ASSUME NEW s \in ExecutionState, NEW t \in Tasks
  PROVE  MergedVV(s, t) \in SUBSET Versions
<1>1. ASSUME NEW d \in Reads[t]
      PROVE  VersionVector(s, d) \in SUBSET Versions
  <2>1. d \in Tasks \union Inputs
    BY GraphAssumption DEF GraphAssumption, Datasets
  <2>2. CASE d \in Inputs
    <3>1. s.snapshot[d] \in Values \union {Unassigned}
      BY <2>2 DEF ExecutionState
    <3> QED BY <2>2, <3>1, VersionOfType DEF VersionVector
  <2>3. CASE d \notin Inputs
    BY <2>1, <2>3 DEF VersionVector, ExecutionState
  <2> QED BY <2>2, <2>3
<1> QED BY <1>1 DEF MergedVV

LEMMA MarkReadyType ==
  ASSUME NEW s \in ExecutionState
  PROVE  MarkReady(s) \in ExecutionState /\ MarkReady(s).status = s.status
BY SetTasksType, StatusTypes DEF MarkReady

LEMMA InitializeType ==
  ASSUME NEW roots \in [Inputs -> Values \union {Unassigned}]
  PROVE  Initialize(roots) \in ExecutionState /\ Initialize(roots).status = "running"
<1> DEFINE s0 == [status |-> "running",
                  task |-> [t \in Tasks |-> "pending"],
                  hit |-> [t \in Tasks |-> FALSE],
                  snapshot |-> roots,
                  vv |-> [t \in Tasks |-> {}],
                  executed |-> 0, cached |-> 0, failed |-> 0, skipped |-> 0]
<1>1. s0 \in ExecutionState
  BY StatusTypes DEF ExecutionState
<1> HIDE DEF s0
<1>2. MarkReady(s0) \in ExecutionState /\ MarkReady(s0).status = s0.status
  BY <1>1, MarkReadyType
<1>3. s0.status = "running"
  BY DEF s0
<1> QED BY <1>2, <1>3 DEF Initialize, s0

LEMMA DetectInputChangesType ==
  ASSUME NEW s \in ExecutionState, NEW roots \in [Inputs -> Values \union {Unassigned}]
  PROVE  /\ DetectInputChanges(s, roots) \in ExecutionState
         /\ DetectInputChanges(s, roots).status = s.status
BY DEF DetectInputChanges, ExecutionState

LEMMA InvalidateTasksType ==
  ASSUME NEW s \in ExecutionState, NEW affected, NEW W
  PROVE  /\ InvalidateTasks(s, affected, W) \in ExecutionState
         /\ InvalidateTasks(s, affected, W).status = s.status
<1> DEFINE done == affected \cap TasksIn(s, {"completed"})
           hits == {t \in done : s.hit[t]}
           back == done \union W \union (affected \cap TasksIn(s, {"deferred"}))
           r    == SetTasks(s, back, "pending")
<1>1. Cardinality(hits) \in Int /\ Cardinality(done \ hits) \in Int
  BY TasksInSubset, CountTasks
<1>2. r \in ExecutionState /\ r.status = s.status
  BY SetTasksType, StatusTypes
<1>3. s.cached \in Int /\ s.executed \in Int
  BY DEF ExecutionState
<1>4. [t \in Tasks |-> s.hit[t] /\ t \notin done] \in [Tasks -> BOOLEAN]
  OBVIOUS
<1>5. InvalidateTasks(s, affected, W) =
        [r EXCEPT !.hit = [t \in Tasks |-> s.hit[t] /\ t \notin done],
                  !.cached = s.cached - Cardinality(hits),
                  !.executed = s.executed - Cardinality(done \ hits)]
  BY DEF InvalidateTasks
<1> HIDE DEF done, hits, back, r
<1>6. s.cached - Cardinality(hits) \in Int /\ s.executed - Cardinality(done \ hits) \in Int
  BY <1>1, <1>3
<1> QED BY <1>2, <1>4, <1>5, <1>6 DEF ExecutionState

LEMMA TasksWaitingType ==
  ASSUME NEW s \in ExecutionState, NEW t \in Tasks
  PROVE  TasksWaiting(s, t) \in ExecutionState /\ TasksWaiting(s, t).status = s.status
BY SetTasksType, StatusTypes DEF TasksWaiting

LEMMA TaskStartedType ==
  ASSUME NEW s \in ExecutionState, NEW t \in Tasks
  PROVE  TaskStarted(s, t) \in ExecutionState /\ TaskStarted(s, t).status = s.status
BY SetTasksType, StatusTypes DEF TaskStarted

LEMMA TaskCompletedType ==
  ASSUME NEW s \in ExecutionState, NEW t \in Tasks, NEW hit \in BOOLEAN, NEW W
  PROVE  /\ TaskCompleted(s, t, hit, W) \in ExecutionState
         /\ TaskCompleted(s, t, hit, W).status = s.status
<1> DEFINE r == SetTasks(s, {t}, "completed")
           s1 == [r EXCEPT
                   !.hit = [s.hit EXCEPT ![t] = hit],
                   !.cached = s.cached + (IF hit THEN 1 ELSE 0),
                   !.executed = s.executed + (IF hit THEN 0 ELSE 1),
                   !.vv = [s.vv EXCEPT ![t] = MergedVV(s, t)]]
           back == W \union (DependentsOf(t) \cap TasksIn(s, {"deferred"}))
           s2 == SetTasks(s1, back, "pending")
<1>1. r \in ExecutionState /\ r.status = s.status
  BY SetTasksType, StatusTypes
<1>2. MergedVV(s, t) \in SUBSET Versions
  BY MergedVVType
<1>3. TaskCompleted(s, t, hit, W) = MarkReady(s2)
  BY DEF TaskCompleted
<1> HIDE DEF r
<1>4. /\ [s.hit EXCEPT ![t] = hit] \in [Tasks -> BOOLEAN]
      /\ [s.vv EXCEPT ![t] = MergedVV(s, t)] \in [Tasks -> SUBSET Versions]
      /\ s.cached + (IF hit THEN 1 ELSE 0) \in Int
      /\ s.executed + (IF hit THEN 0 ELSE 1) \in Int
  BY <1>2 DEF ExecutionState
<1>5. s1 \in ExecutionState /\ s1.status = s.status
  BY <1>1, <1>4 DEF ExecutionState
<1> HIDE DEF s1, back
<1>6. s2 \in ExecutionState /\ s2.status = s.status
  BY <1>5, SetTasksType, StatusTypes
<1> HIDE DEF s2
<1> QED BY <1>3, <1>6, MarkReadyType

LEMMA TaskFailedType ==
  ASSUME NEW s \in ExecutionState, NEW t \in Tasks
  PROVE  TaskFailed(s, t) \in ExecutionState /\ TaskFailed(s, t).status = s.status
<1>1. SetTasks(s, {t}, "failed") \in ExecutionState
  BY SetTasksType, StatusTypes
<1>2. SetTasks(s, {t}, "failed").status = s.status
  BY SetTasksType, StatusTypes
<1>3. s.failed + 1 \in Int
  BY DEF ExecutionState
<1> QED BY <1>1, <1>2, <1>3 DEF TaskFailed, ExecutionState

LEMMA TasksSkippedType ==
  ASSUME NEW s \in ExecutionState, NEW ts \in SUBSET Tasks
  PROVE  TasksSkipped(s, ts) \in ExecutionState /\ TasksSkipped(s, ts).status = s.status
<1>1. SetTasks(s, ts, "skipped") \in ExecutionState
  BY SetTasksType, StatusTypes
<1>2. SetTasks(s, ts, "skipped").status = s.status
  BY SetTasksType, StatusTypes
<1>3. Cardinality(ts) \in Int
  BY CountTasks
<1> QED BY <1>1, <1>2, <1>3 DEF TasksSkipped, ExecutionState

LEMMA EndTypes ==
  ASSUME NEW s \in ExecutionState
  PROVE  /\ Yield(s) \in ExecutionState /\ Yield(s).status = s.status
         /\ Finalize(s) \in ExecutionState /\ Finalize(s).status # "running"
         /\ Cancel(s) \in ExecutionState /\ Cancel(s).status = "cancelled"
         /\ [s EXCEPT !.status = "failed"] \in ExecutionState
<1>1. Yield(s) \in ExecutionState /\ Yield(s).status = s.status
  BY SetTasksType, StatusTypes DEF Yield
<1>2. Finalize(s) \in ExecutionState /\ Finalize(s).status # "running"
  BY DEF Finalize, ExecutionState, RunStatus
<1>3. Cancel(s) \in ExecutionState /\ Cancel(s).status = "cancelled"
  BY DEF Cancel, ExecutionState, RunStatus
<1>4. [s EXCEPT !.status = "failed"] \in ExecutionState
  BY DEF ExecutionState, RunStatus
<1> QED BY <1>1, <1>2, <1>3, <1>4

-----------------------------------------------------------------------------
(* What the parts of a step do to the variables                            *)

\* The types of the loop's locations.
LEMMA Locations ==
  /\ Loop \subseteq PC /\ Ended \subseteq PC /\ "idle" \in PC /\ "leaving" \in PC
  /\ "leaving" \notin Loop /\ "leaving" \notin Ended
  /\ "idle" \notin Loop /\ Loop \cap Ended = {}
  /\ "yielded" \in Ended /\ "yielded" \notin Loop
BY DEF PC, Loop, Ended

\* A write changes no run's id, and a running run's state to a running one
\* leaves it running.
LEMMA WriteEffect ==
  ASSUME TypeOK, NEW p \in Procs, NEW s \in ExecutionState, Write(p, s)
  PROVE  /\ store' \in [id : Procs \union {NoProc}, s : ExecutionState]
         /\ store'.id = store.id
         /\ s.status = "running" =>
              (store'.s.status = "running") = (store.s.status = "running")
         /\ Taken(p) => store'.s = s
         /\ ~Taken(p) => store' = store
BY DEF TypeOK, Write, Taken

\* What is persisted stops the run if the store does not take it.
LEMMA PersistEffect ==
  ASSUME TypeOK, NEW p \in Procs, NEW s \in ExecutionState, Persist(p, s)
  PROVE  /\ store' \in [id : Procs \union {NoProc}, s : ExecutionState]
         /\ store'.id = store.id
         /\ s.status = "running" =>
              (store'.s.status = "running") = (store.s.status = "running")
         /\ ended[p] \/ aborted[p] \/ Yielding(p) => UNCHANGED <<store, aborted, ended>>
         /\ Taken(p) => UNCHANGED <<aborted, ended>>
         /\ ~Taken(p) => store' = store
         /\ aborted' \in [Procs -> BOOLEAN] /\ ended' \in [Procs -> BOOLEAN]
         /\ \A q \in Procs \ {p} : ended'[q] = ended[q]
         /\ \A q \in Procs : (ended[q] => ended'[q]) /\ (aborted[q] => aborted'[q])
<1>1. CASE ended[p] \/ aborted[p] \/ Yielding(p)
  BY <1>1 DEF Persist, TypeOK
<1>2. CASE ~(ended[p] \/ aborted[p] \/ Yielding(p))
  <2>1. Write(p, s) /\ Told(p)
    BY <1>2 DEF Persist
  <2>2. Taken(p) \in BOOLEAN
    BY DEF Taken
  <2>3. /\ aborted' = [aborted EXCEPT ![p] = aborted[p] \/ ~Taken(p)]
        /\ ended' = [ended EXCEPT ![p] = ended[p] \/ ~Taken(p)]
    BY <2>1 DEF Told, Stops, TypeOK
  <2>4. /\ aborted' \in [Procs -> BOOLEAN] /\ ended' \in [Procs -> BOOLEAN]
        /\ \A q \in Procs \ {p} : ended'[q] = ended[q]
        /\ \A q \in Procs : (ended[q] => ended'[q]) /\ (aborted[q] => aborted'[q])
    BY <2>2, <2>3 DEF TypeOK
  <2>5. Taken(p) => UNCHANGED <<aborted, ended>>
    BY <2>3 DEF TypeOK
  <2> QED BY <1>2, <2>1, <2>4, <2>5, WriteEffect
<1> QED BY <1>1, <1>2

LEMMA FreeSlotType ==
  ASSUME TypeOK, NEW p \in Procs, NEW t \in Tasks, FreeSlot(p, t)
  PROVE  /\ phase' \in [Procs -> [Tasks -> Phase]]
         /\ given' \in [Procs -> [Tasks -> SUBSET Versions]]
         /\ got' \in [Procs -> [Tasks -> [Datasets -> Content]]]
<1>1. Nothing \in [Datasets -> Content]
  BY DEF Nothing, Content
<1> QED BY <1>1 DEF FreeSlot, TypeOK, Phase

LEMMA DetectEffect ==
  ASSUME TypeOK, NEW p \in Procs, Detect(p)
  PROVE  \E s \in ExecutionState :
           /\ s.status = st[p].status
           /\ st' = [st EXCEPT ![p] = s]
           /\ Persist(p, s)
<1> DEFINE s1 == DetectInputChanges(st[p], root)
           affected == FindAffectedTasks(InputChanges(st[p], root))
<1>1. PICK W \in StopsWaiting(s1, affected) :
        /\ st' = [st EXCEPT ![p] = InvalidateTasks(s1, affected, W)]
        /\ Persist(p, InvalidateTasks(s1, affected, W))
  BY DEF Detect
<1>2. st[p] \in ExecutionState /\ root \in [Inputs -> Values \union {Unassigned}]
  BY DEF TypeOK
<1>3. s1 \in ExecutionState /\ s1.status = st[p].status
  BY <1>2, DetectInputChangesType
<1> HIDE DEF s1, affected
<1>4. /\ InvalidateTasks(s1, affected, W) \in ExecutionState
      /\ InvalidateTasks(s1, affected, W).status = st[p].status
  BY <1>3, InvalidateTasksType
<1> QED BY <1>1, <1>4

LEMMA OutputType ==
  ASSUME NEW t \in Tasks, NEW inputs \in [Datasets -> Content]
  PROVE  Output(t, inputs) \in Content
<1>1. Reads[t] \subseteq Datasets
  BY GraphAssumption DEF GraphAssumption
<1> QED BY <1>1 DEF Output, Content

LEMMA ApplyEffect ==
  ASSUME TypeOK, NEW p \in Procs, NEW t \in Tasks, NEW hit \in BOOLEAN, Apply(p, t, hit)
  PROVE  /\ \E s \in ExecutionState : s.status = st[p].status /\ st' = [st EXCEPT ![p] = s]
         /\ out' \in [Tasks -> [content : Content, vv : SUBSET Versions]]
<1>1. PICK W : st' = [st EXCEPT ![p] = TaskCompleted(@, t, hit, W)]
  BY DEF Apply
<1>2. st[p] \in ExecutionState
  BY DEF TypeOK
<1>3. /\ TaskCompleted(st[p], t, hit, W) \in ExecutionState
      /\ TaskCompleted(st[p], t, hit, W).status = st[p].status
  BY <1>2, TaskCompletedType
<1>4. st' = [st EXCEPT ![p] = TaskCompleted(st[p], t, hit, W)]
  BY <1>1 DEF TypeOK
<1>5. got[p][t] \in [Datasets -> Content] /\ given[p][t] \in SUBSET Versions
  BY DEF TypeOK
<1>6. out' \in [Tasks -> [content : Content, vv : SUBSET Versions]]
  BY <1>5, OutputType DEF Apply, TypeOK
<1> QED BY <1>3, <1>4, <1>6

LEMMA BackToPendingEffect ==
  ASSUME TypeOK, NEW p \in Procs, NEW t \in Tasks, BackToPending(p, t)
  PROVE  /\ \E s \in ExecutionState : s.status = st[p].status /\ st' = [st EXCEPT ![p] = s]
         /\ out' \in [Tasks -> [content : Content, vv : SUBSET Versions]]
<1>1. st[p] \in ExecutionState
  BY DEF TypeOK
<1>2. /\ SetTasks(st[p], {t}, "pending") \in ExecutionState
      /\ SetTasks(st[p], {t}, "pending").status = st[p].status
  BY <1>1, SetTasksType, StatusTypes
<1>3. st' = [st EXCEPT ![p] = SetTasks(st[p], {t}, "pending")]
  BY DEF BackToPending, TypeOK
<1> QED BY <1>2, <1>3 DEF BackToPending, TypeOK

LEMMA DatasetContentType ==
  ASSUME TypeOK, NEW d \in Datasets
  PROVE  DatasetContent(d) \in Content
<1>1. CASE d \in Inputs
  <2>1. root[d] \in Values \union {Unassigned}
    BY <1>1 DEF TypeOK
  <2> QED BY <1>1, <2>1, VersionOfType DEF DatasetContent, Content
<1>2. CASE d \notin Inputs
  BY <1>2 DEF DatasetContent, TypeOK, Datasets
<1> QED BY <1>1, <1>2

LEMMA LaunchCurType ==
  ASSUME TypeOK, NEW p \in Procs, LaunchCur(p)
  PROVE  phase' \in [Procs -> [Tasks -> Phase]]
<1>1. [t \in Tasks |-> IF t \in cur[p] THEN "running" ELSE phase[p][t]] \in [Tasks -> Phase]
  BY DEF TypeOK, Phase
<1> QED BY <1>1 DEF LaunchCur, TypeOK

-----------------------------------------------------------------------------
(* Type correctness                                                        *)

LEMMA InitType == Init => TypeOK
<1> SUFFICES ASSUME Init PROVE TypeOK
  OBVIOUS
<1>1. NoState \in ExecutionState
  <2>1. [i \in Inputs |-> Unassigned] \in [Inputs -> Values \union {Unassigned}]
    OBVIOUS
  <2> QED BY <2>1, InitializeType DEF NoState
<1>2. /\ Nothing \in [Datasets -> Content]
      /\ NoRef \in [content : Content, vv : SUBSET Versions]
  BY DEF Nothing, NoRef, Content
<1>3. "none" \in Phase /\ "idle" \in PC
  BY DEF Phase, PC
<1>4. root \in [Inputs -> Values \union {Unassigned}]
  BY DEF Init
<1> QED BY <1>1, <1>2, <1>3, <1>4 DEF Init, TypeOK

LEMMA BeginType ==
  ASSUME TypeOK, NEW p \in Procs, NEW s \in ExecutionState,
         NEW id \in Procs \union {NoProc}, Begin(p, s, id)
  PROVE  TypeOK'
BY DEF Begin, TypeOK, pass, slots, PC, Loop

LEMMA PassType ==
  ASSUME TypeOK, NEW p \in Procs, NEW ready \in SUBSET Tasks, NEW sync \in BOOLEAN,
         PrepareNext(p, ready, sync) \/ EndPass(p, ready, sync)
  PROVE  TypeOK'
<1>1. phase' \in [Procs -> [Tasks -> Phase]]
  BY LaunchCurType DEF PrepareNext, EndPass
<1>2. ASSUME NEW ts PROVE Deferred(p, ts) \in ExecutionState
  BY SetTasksType, StatusTypes DEF Deferred, TypeOK
<1>3. CASE PrepareNext(p, ready, sync)
  <2>1. PICK t \in ready, before \in SUBSET ready :
          /\ st' = [st EXCEPT ![p] = Deferred(p, before)]
          /\ queue' = [queue EXCEPT ![p] = ready \ (before \union {t})]
          /\ cur' = [cur EXCEPT ![p] = {t}]
          /\ left' = [left EXCEPT ![p] = Reads[t]]
          /\ given' = [given EXCEPT ![p][t] = MergedVV(st[p], t)]
    BY <1>3 DEF PrepareNext
  <2>2. MergedVV(st[p], t) \in SUBSET Versions
    BY MergedVVType DEF TypeOK
  <2>3. Reads[t] \in SUBSET Datasets
    BY GraphAssumption DEF GraphAssumption
  <2>4. given' \in [Procs -> [Tasks -> SUBSET Versions]]
    BY <2>1, <2>2 DEF TypeOK
  <2>5. /\ st' \in [Procs -> ExecutionState]
        /\ queue' \in [Procs -> SUBSET Tasks]
        /\ cur' \in [Procs -> SUBSET Tasks]
        /\ left' \in [Procs -> SUBSET Datasets]
    BY <1>2, <2>1, <2>3 DEF TypeOK
  <2>6. pc' = [pc EXCEPT ![p] = "read"] /\ synced' = [synced EXCEPT ![p] = sync]
    BY <1>3 DEF PrepareNext
  <2>7. pc' \in [Procs -> PC] /\ synced' \in [Procs -> BOOLEAN]
    BY <2>6 DEF TypeOK, PC, Loop
  <2> QED BY <1>1, <1>3, <2>4, <2>5, <2>7 DEF PrepareNext, TypeOK, durable, flags
<1>4. CASE EndPass(p, ready, sync)
  <2>1. st' \in [Procs -> ExecutionState]
    BY <1>2, <1>4 DEF EndPass, TypeOK
  <2>2. InFlight(p) \in SUBSET Tasks
    BY DEF InFlight, TypeOK
  <2>3. watch' \in [Procs -> SUBSET Tasks]
    <3>1. watch' = watch \/ watch' = [watch EXCEPT ![p] = InFlight(p)]
      BY <1>4 DEF EndPass
    <3>2. watch \in [Procs -> SUBSET Tasks]
      BY DEF TypeOK
    <3> QED BY <3>1, <3>2, <2>2
  <2>4. pc' \in [Procs -> PC]
    <3>1. {"yield", "race", "drain", "top"} \subseteq PC
      BY DEF PC, Loop
    <3>2. \E l \in {"yield", "race", "drain", "top"} : pc' = [pc EXCEPT ![p] = l]
      BY <1>4 DEF EndPass
    <3> QED BY <3>1, <3>2 DEF TypeOK
  <2>5. cur' \in [Procs -> SUBSET Tasks] /\ queue' \in [Procs -> SUBSET Tasks]
        /\ synced' \in [Procs -> BOOLEAN]
    BY <1>4 DEF EndPass, TypeOK
  <2> QED BY <1>1, <1>4, <2>1, <2>3, <2>4, <2>5 DEF EndPass, TypeOK, durable, flags
<1> QED BY <1>3, <1>4

LEMMA NextLaunchType ==
  ASSUME TypeOK, NEW p \in Procs, NEW sync \in BOOLEAN, NEW started \in SUBSET Tasks,
         NextLaunch(p, sync, started)
  PROVE  /\ pc' \in [Procs -> PC]
         /\ cur' \in [Procs -> SUBSET Tasks]
         /\ synced' \in [Procs -> BOOLEAN]
         /\ UNCHANGED <<queue, left, watch, failure, runId, root, sets, lock>>
BY Locations DEF NextLaunch, TypeOK, flags, PC, Loop

\* The four ways a preparation goes on.
LEMMA ReadInputTarget ==
  ASSUME NEW p \in Procs, NEW t \in Tasks, NEW d \in Datasets, ReadInput(p, t, d)
  PROVE  \E l \in {"read", "wait", "hit", "start"} : pc' = [pc EXCEPT ![p] = l]
<1> DEFINE read == [got[p][t] EXCEPT ![d] = DatasetContent(d)]
<1>1. pc' = [pc EXCEPT ![p] =
            CASE left[p] # {d} -> "read"
              [] left[p] = {d} /\ \E r \in Reads[t] : read[r] = {} -> "wait"
              [] left[p] = {d} /\ \A r \in Reads[t] : read[r] # {} ->
                   IF /\ t \notin Forced
                      /\ <<t, read>> \in cache
                      /\ out[t].content = Output(t, read)
                   THEN "hit" ELSE "start"]
  BY DEF ReadInput
<1> HIDE DEF read
<1>2. CASE left[p] # {d}
  BY <1>1, <1>2
<1>3. CASE left[p] = {d} /\ \E r \in Reads[t] : read[r] = {}
  BY <1>1, <1>3
<1>4. CASE left[p] = {d} /\ \A r \in Reads[t] : read[r] # {}
  BY <1>1, <1>4
<1> QED BY <1>2, <1>3, <1>4

LEMMA ReadInputType ==
  ASSUME TypeOK, NEW p \in Procs, NEW t \in Tasks, NEW d \in Datasets, ReadInput(p, t, d)
  PROVE  TypeOK'
<1> DEFINE read == [got[p][t] EXCEPT ![d] = DatasetContent(d)]
<1>1. read \in [Datasets -> Content]
  BY DatasetContentType DEF TypeOK
<1>2. got' = [got EXCEPT ![p][t] = read]
  BY DEF ReadInput
<1>3. got' \in [Procs -> [Tasks -> [Datasets -> Content]]]
  BY <1>1, <1>2 DEF TypeOK
<1>4. \E l \in {"read", "wait", "hit", "start"} : pc' = [pc EXCEPT ![p] = l]
  BY ReadInputTarget
<1>5. pc' \in [Procs -> PC]
  BY <1>4 DEF TypeOK, PC, Loop
<1>6. left' \in [Procs -> SUBSET Datasets]
  BY DEF ReadInput, TypeOK
<1> QED BY <1>3, <1>5, <1>6 DEF ReadInput, TypeOK, durable, flags

\* What a step on one task leaves of the run's state is a state.
LEMMA OneTaskTypes ==
  ASSUME TypeOK, NEW p \in Procs, NEW t \in Tasks
  PROVE  /\ st[p] \in ExecutionState
         /\ TasksWaiting(st[p], t) \in ExecutionState
         /\ TasksWaiting(st[p], t).status = st[p].status
         /\ TaskStarted(st[p], t) \in ExecutionState
         /\ TaskStarted(st[p], t).status = st[p].status
         /\ TaskFailed(st[p], t) \in ExecutionState
         /\ TaskFailed(st[p], t).status = st[p].status
         /\ SetTasks(st[p], {t}, "pending") \in ExecutionState
         /\ SetTasks(st[p], {t}, "pending").status = st[p].status
<1>1. st[p] \in ExecutionState
  BY DEF TypeOK
<1>2. TasksWaiting(st[p], t) \in ExecutionState /\ TasksWaiting(st[p], t).status = st[p].status
  BY <1>1, TasksWaitingType
<1>3. TaskStarted(st[p], t) \in ExecutionState /\ TaskStarted(st[p], t).status = st[p].status
  BY <1>1, TaskStartedType
<1>4. TaskFailed(st[p], t) \in ExecutionState /\ TaskFailed(st[p], t).status = st[p].status
  BY <1>1, TaskFailedType
<1>5. SetTasks(st[p], {t}, "pending") \in ExecutionState /\ SetTasks(st[p], {t}, "pending").status = st[p].status
  BY <1>1, SetTasksType, StatusTypes
<1> QED BY <1>1, <1>2, <1>3, <1>4, <1>5

\* A failure skips tasks.
LEMMA SkippedType ==
  ASSUME TypeOK, NEW p \in Procs, NEW t \in Tasks, NEW s, s = TaskFailed(st[p], t)
  PROVE  /\ TasksSkipped(s, ToSkip(s, t)) \in ExecutionState
         /\ TasksSkipped(s, ToSkip(s, t)).status = st[p].status
<1>1. s \in ExecutionState /\ s.status = st[p].status
  BY OneTaskTypes
<1>2. ToSkip(s, t) \in SUBSET Tasks
  BY DEF ToSkip, GetDependentsToSkip, Cone
<1> QED BY <1>1, <1>2, TasksSkippedType

LEMMA LoopTaskType ==
  ASSUME TypeOK, NEW p \in Procs, NEW t \in Tasks,
         \/ LoopWaiting(p, t) \/ LoopStart(p, t) \/ LoopHit(p, t) \/ LoopDetect(p, t)
  PROVE  TypeOK'
<1>1. CASE LoopWaiting(p, t)
  <2>1. /\ st' = [st EXCEPT ![p] = TasksWaiting(st[p], t)]
        /\ Persist(p, TasksWaiting(st[p], t))
        /\ FreeSlot(p, t) /\ NextLaunch(p, TRUE, {})
        /\ UNCHANGED <<out, cache>>
    BY <1>1 DEF LoopWaiting, TypeOK
  <2>2. /\ store' \in [id : Procs \union {NoProc}, s : ExecutionState]
        /\ aborted' \in [Procs -> BOOLEAN] /\ ended' \in [Procs -> BOOLEAN]
    BY <2>1, OneTaskTypes, PersistEffect
  <2>3. st' \in [Procs -> ExecutionState]
    BY <2>1, OneTaskTypes DEF TypeOK
  <2> QED BY <2>1, <2>2, <2>3, FreeSlotType, NextLaunchType DEF TypeOK
<1>2. CASE LoopStart(p, t)
  <2>1. /\ st' = [st EXCEPT ![p] = TaskStarted(st[p], t)]
        /\ Persist(p, TaskStarted(st[p], t))
        /\ NextLaunch(p, synced[p], {t})
        /\ UNCHANGED <<out, cache, phase, given, got>>
    BY <1>2 DEF LoopStart, TypeOK, slots
  <2>2. /\ store' \in [id : Procs \union {NoProc}, s : ExecutionState]
        /\ aborted' \in [Procs -> BOOLEAN] /\ ended' \in [Procs -> BOOLEAN]
    BY <2>1, OneTaskTypes, PersistEffect
  <2>3. st' \in [Procs -> ExecutionState]
    BY <2>1, OneTaskTypes DEF TypeOK
  <2>4. synced[p] \in BOOLEAN /\ {t} \in SUBSET Tasks
    BY DEF TypeOK
  <2> QED BY <2>1, <2>2, <2>3, <2>4, NextLaunchType DEF TypeOK
<1>3. CASE LoopHit(p, t)
  <2>1. CASE /\ BackToPending(p, t) /\ FreeSlot(p, t) /\ NextLaunch(p, TRUE, {})
             /\ UNCHANGED <<aborted, ended>>
    <3>1. UNCHANGED <<cache, store>>
      BY <1>3 DEF LoopHit
    <3>2. st' \in [Procs -> ExecutionState] /\ out' \in [Tasks -> [content : Content, vv : SUBSET Versions]]
      BY <2>1, BackToPendingEffect DEF TypeOK
    <3> QED BY <2>1, <3>1, <3>2, FreeSlotType, NextLaunchType DEF TypeOK
  <2>2. CASE Apply(p, t, TRUE) /\ pc' = [pc EXCEPT ![p] = "applied"]
             /\ UNCHANGED <<root, sets, lock, pass, slots, flags>>
    <3>1. UNCHANGED <<cache, store>>
      BY <1>3 DEF LoopHit
    <3>2. st' \in [Procs -> ExecutionState] /\ out' \in [Tasks -> [content : Content, vv : SUBSET Versions]]
      BY <2>2, ApplyEffect DEF TypeOK
    <3>3. pc' \in [Procs -> PC]
      BY <2>2 DEF TypeOK, PC, Loop
    <3> QED BY <2>2, <3>1, <3>2, <3>3 DEF TypeOK, pass, slots, flags
  <2> QED BY <1>3, <2>1, <2>2 DEF LoopHit
<1>4. CASE LoopDetect(p, t)
  <2>1. Detect(p) /\ FreeSlot(p, t) /\ NextLaunch(p, TRUE, {}) /\ UNCHANGED <<out, cache>>
    BY <1>4 DEF LoopDetect
  <2>2. PICK s \in ExecutionState : st' = [st EXCEPT ![p] = s] /\ Persist(p, s)
    BY <2>1, DetectEffect
  <2>3. /\ st' \in [Procs -> ExecutionState]
        /\ store' \in [id : Procs \union {NoProc}, s : ExecutionState]
        /\ aborted' \in [Procs -> BOOLEAN] /\ ended' \in [Procs -> BOOLEAN]
    BY <2>2, PersistEffect DEF TypeOK
  <2> QED BY <2>1, <2>3, FreeSlotType, NextLaunchType DEF TypeOK
<1> QED BY <1>1, <1>2, <1>3, <1>4

LEMMA HandlerType ==
  ASSUME TypeOK, NEW p \in Procs, NEW t \in Tasks, Handler(p, t) \/ HandlerThrows(p, t)
  PROVE  TypeOK'
<1>1. CASE RunnerFinish(p, t)
  <2>1. phase' \in [Procs -> [Tasks -> Phase]]
    BY <1>1 DEF RunnerFinish, TypeOK, Phase
  <2>2. got[p][t] \in [Datasets -> Content]
    BY DEF TypeOK
  <2>3. cache' \subseteq (Tasks \X [Datasets -> Content])
    BY <1>1, <2>2 DEF RunnerFinish, TypeOK
  <2> QED BY <1>1, <2>1, <2>3 DEF RunnerFinish, TypeOK, pass, flags
<1>2. CASE HandlerApply(p, t)
  <2>1. BackToPending(p, t) \/ Apply(p, t, phase[p][t] = "hit")
    BY <1>2 DEF HandlerApply
  <2>2. (phase[p][t] = "hit") \in BOOLEAN
    OBVIOUS
  <2>3. st' \in [Procs -> ExecutionState] /\ out' \in [Tasks -> [content : Content, vv : SUBSET Versions]]
    <3>1. CASE BackToPending(p, t)
      BY <3>1, BackToPendingEffect DEF TypeOK
    <3>2. CASE Apply(p, t, phase[p][t] = "hit")
      <4>1. PICK hit \in BOOLEAN : Apply(p, t, hit)
        BY <2>2, <3>2
      <4>2. /\ \E s \in ExecutionState : st' = [st EXCEPT ![p] = s]
            /\ out' \in [Tasks -> [content : Content, vv : SUBSET Versions]]
        BY <4>1, ApplyEffect
      <4> QED BY <4>2 DEF TypeOK
    <3> QED BY <2>1, <3>1, <3>2
  <2>4. phase' \in [Procs -> [Tasks -> Phase]]
    BY <1>2 DEF HandlerApply, TypeOK, Phase
  <2> QED BY <1>2, <2>3, <2>4 DEF HandlerApply, TypeOK, pass, flags
<1>3. CASE HandlerDetect(p, t)
  <2>1. Detect(p) /\ FreeSlot(p, t)
    BY <1>3 DEF HandlerDetect
  <2>2. PICK s \in ExecutionState : st' = [st EXCEPT ![p] = s] /\ Persist(p, s)
    BY <2>1, DetectEffect
  <2>3. /\ st' \in [Procs -> ExecutionState]
        /\ store' \in [id : Procs \union {NoProc}, s : ExecutionState]
        /\ aborted' \in [Procs -> BOOLEAN] /\ ended' \in [Procs -> BOOLEAN]
    BY <2>2, PersistEffect DEF TypeOK
  <2> QED BY <1>3, <2>1, <2>3, FreeSlotType DEF HandlerDetect, TypeOK, pass, flags
<1>4. CASE HandlerStopped(p, t)
  <2>1. /\ BackToPending(p, t) /\ FreeSlot(p, t)
        /\ Persist(p, SetTasks(st[p], {t}, "pending"))
    BY <1>4 DEF HandlerStopped
  <2>2. /\ st' \in [Procs -> ExecutionState]
        /\ out' \in [Tasks -> [content : Content, vv : SUBSET Versions]]
    BY <2>1, BackToPendingEffect DEF TypeOK
  <2>3. /\ store' \in [id : Procs \union {NoProc}, s : ExecutionState]
        /\ aborted' \in [Procs -> BOOLEAN] /\ ended' \in [Procs -> BOOLEAN]
    BY <2>1, OneTaskTypes, PersistEffect
  <2> QED BY <1>4, <2>1, <2>2, <2>3, FreeSlotType DEF HandlerStopped, TypeOK, pass, flags
<1>5. CASE HandlerFailed(p, t)
  <2> DEFINE s == TaskFailed(st[p], t)
             skipped == TasksSkipped(s, ToSkip(s, t))
  <2>1. /\ st' = [st EXCEPT ![p] = skipped] /\ Persist(p, skipped)
        /\ FreeSlot(p, t) /\ failure' = [failure EXCEPT ![p] = TRUE]
    BY <1>5 DEF HandlerFailed
  <2>2. skipped \in ExecutionState
    BY SkippedType
  <2> HIDE DEF skipped
  <2>3. /\ st' \in [Procs -> ExecutionState]
        /\ store' \in [id : Procs \union {NoProc}, s : ExecutionState]
        /\ aborted' \in [Procs -> BOOLEAN] /\ ended' \in [Procs -> BOOLEAN]
    BY <2>1, <2>2, PersistEffect DEF TypeOK
  <2>4. failure' \in [Procs -> BOOLEAN]
    BY <2>1 DEF TypeOK
  <2> QED BY <1>5, <2>1, <2>3, <2>4, FreeSlotType DEF HandlerFailed, TypeOK, pass
<1>6. CASE HandlerFailTask(p, t)
  <2>1. /\ st' = [st EXCEPT ![p] = TaskFailed(st[p], t)]
        /\ Persist(p, TaskFailed(st[p], t))
        /\ FreeSlot(p, t) /\ failure' = [failure EXCEPT ![p] = TRUE]
    BY <1>6 DEF HandlerFailTask, TypeOK
  <2>2. /\ st' \in [Procs -> ExecutionState]
        /\ store' \in [id : Procs \union {NoProc}, s : ExecutionState]
        /\ aborted' \in [Procs -> BOOLEAN] /\ ended' \in [Procs -> BOOLEAN]
    BY <2>1, OneTaskTypes, PersistEffect DEF TypeOK
  <2>3. failure' \in [Procs -> BOOLEAN]
    BY <2>1 DEF TypeOK
  <2> QED BY <1>6, <2>1, <2>2, <2>3, FreeSlotType DEF HandlerFailTask, TypeOK, pass
<1>7. CASE HandlerThrows(p, t)
  BY <1>7 DEF HandlerThrows, TypeOK, Phase, durable, pass, flags
<1> QED BY <1>1, <1>2, <1>3, <1>4, <1>5, <1>6, <1>7 DEF Handler

\* The steps that end a run, or its process.
LEMMA EndType ==
  ASSUME TypeOK, NEW p \in Procs,
         \/ YieldCheckpoint(p) \/ EndCancelled(p) \/ DrainCancelled(p) \/ DrainStuck(p)
         \/ DrainFinalize(p) \/ EndFailed(p) \/ LoopThrows(p) \/ Crash(p)
         \/ LetGo(p) \/ Forget(p)
  PROVE  TypeOK'
<1>0. st[p] \in ExecutionState /\ store.s \in ExecutionState
  BY DEF TypeOK
<1>a. Taken(p) \in BOOLEAN
  BY DEF Taken
<1>1. CASE YieldCheckpoint(p)
  <2>1. st' = [st EXCEPT ![p] = Yield(st[p])] /\ Write(p, Yield(st[p]))
    BY <1>1 DEF YieldCheckpoint, TypeOK
  <2>2. /\ st' \in [Procs -> ExecutionState]
        /\ store' \in [id : Procs \union {NoProc}, s : ExecutionState]
    BY <1>0, <2>1, EndTypes, WriteEffect DEF TypeOK
  <2>3. pc' \in [Procs -> PC]
    BY <1>1 DEF YieldCheckpoint, TypeOK, PC, Loop
  <2>4. aborted' \in [Procs -> BOOLEAN] /\ ended' \in [Procs -> BOOLEAN]
    BY <1>1, <1>a DEF YieldCheckpoint, Told, Stops, TypeOK
  <2> QED BY <1>1, <2>2, <2>3, <2>4 DEF YieldCheckpoint, TypeOK, pass, slots
<1>2. CASE EndCancelled(p)
  <2>1. /\ st' = [st EXCEPT ![p] = Cancel(Yield(st[p]))] /\ Write(p, Cancel(Yield(st[p])))
        /\ ended' = [ended EXCEPT ![p] = TRUE]
    BY <1>2 DEF EndCancelled, TypeOK
  <2>2. Cancel(Yield(st[p])) \in ExecutionState
    BY <1>0, EndTypes
  <2>3. /\ st' \in [Procs -> ExecutionState]
        /\ store' \in [id : Procs \union {NoProc}, s : ExecutionState]
        /\ ended' \in [Procs -> BOOLEAN]
    BY <2>1, <2>2, WriteEffect DEF TypeOK
  <2> QED BY <1>2, <2>3 DEF EndCancelled, TypeOK, pass, slots
<1>3. CASE DrainCancelled(p)
  BY <1>3 DEF DrainCancelled, Leave, TypeOK, PC, Ended, pass, slots, flags
<1>4. CASE DrainStuck(p)
  BY <1>4 DEF DrainStuck, TypeOK, PC, Loop, durable, pass, slots, flags
<1>5. CASE DrainFinalize(p)
  <2>1. st' = [st EXCEPT ![p] = Finalize(st[p])] /\ Write(p, Finalize(st[p]))
    BY <1>5 DEF DrainFinalize, TypeOK
  <2>2. /\ st' \in [Procs -> ExecutionState]
        /\ store' \in [id : Procs \union {NoProc}, s : ExecutionState]
    BY <1>0, <2>1, EndTypes, WriteEffect DEF TypeOK
  <2>3. pc' \in [Procs -> PC] /\ lock' \in Procs \union {NoProc} /\ ended' \in [Procs -> BOOLEAN]
    BY <1>5 DEF DrainFinalize, Leave, TypeOK, PC, Ended
  <2>4. aborted' \in [Procs -> BOOLEAN]
    BY <1>5, <1>a DEF DrainFinalize, Stops, TypeOK
  <2> QED BY <1>5, <2>2, <2>3, <2>4 DEF DrainFinalize, TypeOK, pass, slots
<1>6. CASE EndFailed(p)
  <2>1. store' \in [id : Procs \union {NoProc}, s : ExecutionState]
    BY <1>0, <1>6, EndTypes, WriteEffect DEF EndFailed
  <2>2. pc' \in [Procs -> PC] /\ lock' \in Procs \union {NoProc} /\ ended' \in [Procs -> BOOLEAN]
    BY <1>6 DEF EndFailed, Leave, TypeOK, PC, Ended
  <2>3. aborted' \in [Procs -> BOOLEAN]
    BY <1>6, <1>a DEF EndFailed, Stops, TypeOK
  <2> QED BY <1>6, <2>1, <2>2, <2>3 DEF EndFailed, TypeOK, pass, slots
<1>7. CASE LoopThrows(p)
  <2>1. pc' \in [Procs -> PC]
    BY <1>7 DEF LoopThrows, TypeOK, PC, Loop
  <2>2. /\ queue' \in [Procs -> SUBSET Tasks] /\ cur' \in [Procs -> SUBSET Tasks]
        /\ left' \in [Procs -> SUBSET Datasets]
    BY <1>7 DEF LoopThrows, TypeOK
  <2>3. PICK t \in cur[p] : FreeSlot(p, t)
    BY <1>7 DEF LoopThrows
  <2>4. t \in Tasks
    BY DEF TypeOK
  <2> QED BY <1>7, <2>1, <2>2, <2>3, <2>4, FreeSlotType DEF LoopThrows, TypeOK, durable, flags
<1>8. CASE Crash(p)
  <2>1. NoState \in ExecutionState
    <3>1. [i \in Inputs |-> Unassigned] \in [Inputs -> Values \union {Unassigned}]
      OBVIOUS
    <3> QED BY <3>1, InitializeType DEF NoState
  <2>2. [t \in Tasks |-> Nothing] \in [Tasks -> [Datasets -> Content]]
    BY DEF Nothing, Content
  <2>3. /\ phase' \in [Procs -> [Tasks -> Phase]]
        /\ given' \in [Procs -> [Tasks -> SUBSET Versions]]
        /\ got' \in [Procs -> [Tasks -> [Datasets -> Content]]]
    BY <1>8, <2>2 DEF Crash, TypeOK, Phase
  <2>4. st' \in [Procs -> ExecutionState]
    BY <1>8, <2>1 DEF Crash, TypeOK
  <2>5. pc' \in [Procs -> PC] /\ lock' \in Procs \union {NoProc}
    BY <1>8 DEF Crash, TypeOK, PC, Ended
  <2>6. /\ queue' \in [Procs -> SUBSET Tasks] /\ cur' \in [Procs -> SUBSET Tasks]
        /\ left' \in [Procs -> SUBSET Datasets] /\ watch' \in [Procs -> SUBSET Tasks]
    BY <1>8 DEF Crash, TypeOK
  <2> QED BY <1>8, <2>3, <2>4, <2>5, <2>6 DEF Crash, TypeOK, flags
<1>9. CASE LetGo(p)
  BY <1>9 DEF LetGo, TypeOK, pass, slots, flags
<1>10. CASE Forget(p)
  BY <1>10 DEF Forget, TypeOK, PC, Ended, durable, pass, slots, flags
<1> QED BY <1>1, <1>2, <1>3, <1>4, <1>5, <1>6, <1>7, <1>8, <1>9, <1>10

LEMMA NextType == TypeOK /\ [Next]_vars => TypeOK'
<1> SUFFICES ASSUME TypeOK, [Next]_vars PROVE TypeOK'
  OBVIOUS
<1>1. ASSUME NEW i \in Inputs, NEW v \in Values, SetInput(i, v) PROVE TypeOK'
  BY <1>1 DEF SetInput, TypeOK, pass, slots, flags
<1>2. ASSUME NEW p \in Procs, Start(p) \/ Resume(p) PROVE TypeOK'
  <2>1. /\ Initialize(root) \in ExecutionState
        /\ store.s \in ExecutionState /\ store.id \in Procs \union {NoProc}
        /\ p \in Procs \union {NoProc}
    BY InitializeType DEF TypeOK
  <2>2. Yield(store.s) \in ExecutionState
    BY <2>1, EndTypes
  <2> QED BY <1>2, <2>1, <2>2, BeginType DEF Start, Resume
<1>3. ASSUME NEW p \in Procs, RequestCancel(p) PROVE TypeOK'
  BY <1>3 DEF RequestCancel, TypeOK, durable, pass, slots
<1>4. ASSUME NEW p \in Procs, Top(p) \/ Launch(p) PROVE TypeOK'
  <2>1. GetReady(st[p]) \in SUBSET Tasks /\ FALSE \in BOOLEAN
    BY DEF GetReady, RunSet, GetReadyTasks
  <2>2. queue[p] \in SUBSET Tasks /\ synced[p] \in BOOLEAN
    BY DEF TypeOK
  <2>3. CASE /\ pc' = [pc EXCEPT ![p] = "drain"]
             /\ UNCHANGED <<durable, st, pass, slots, flags>>
    BY <2>3 DEF TypeOK, PC, Loop, durable, pass, slots, flags
  <2> QED BY <1>4, <2>1, <2>2, <2>3, PassType DEF Top, Launch
<1>5. ASSUME NEW p \in Procs, Race(p) PROVE TypeOK'
  BY <1>5 DEF Race, TypeOK, PC, Loop, durable, slots, flags
<1>6. ASSUME NEW p \in Procs, LoopStep(p) PROVE TypeOK'
  BY <1>4, <1>5, <1>6, ReadInputType, LoopTaskType, EndType DEF LoopStep
<1>7. CASE UNCHANGED vars
  BY <1>7 DEF TypeOK, vars, durable, pass, slots, flags
<1> QED BY <1>1, <1>2, <1>3, <1>6, <1>7, EndType, HandlerType DEF Next

\* Every variable of the orchestrator keeps its type: what a crash, a yield or
\* a step of either loop leaves in memory and in the store is a run's state.
THEOREM TypeCorrect == Spec => []TypeOK
BY InitType, NextType, PTL DEF Spec

-----------------------------------------------------------------------------
(* Ownership of the store, and the run lifecycle                           *)

\* Why an active run owns the store: what it holds of the run in memory is
\* running until the end is recorded, so no persistState can end the run; a
\* process whose run is over, unlike one that yielded, has no handler left to
\* write with, and no end to record; and one that has not run yet has no run in
\* the store.
Ownership ==
  /\ ActiveOwnsStore
  /\ \A p \in Procs :
       /\ Active(p) \/ Parted(p) => runId[p] # NoProc
       /\ Active(p) /\ ~ended[p] => st[p].status = "running"
       /\ pc[p] = "idle" => ~ended[p] /\ store.id # p
       /\ ~Active(p) /\ ~Parted(p) => \A t \in Tasks : phase[p][t] = "none"
       /\ pc[p] \in {"finished", "cancelled", "failed"} => ended[p]

\* One process at a time is active.
LEMMA OneActive ==
  ASSUME ActiveOwnsStore, NEW p \in Procs, NEW q \in Procs, Active(p), Active(q)
  PROVE  p = q
BY DEF ActiveOwnsStore

\* Whoever is active has not parted with its run.
LEMMA ActiveOrParted ==
  ASSUME NEW p \in Procs
  PROVE  ~(Active(p) /\ Parted(p))
BY Locations DEF Active, Parted

\* A write of an active run is taken while the store has the run running.
LEMMA ActiveTaken ==
  ASSUME Ownership, NEW p \in Procs, Active(p)
  PROVE  Taken(p) = (store.s.status = "running")
BY DEF Ownership, ActiveOwnsStore, Taken

\* A late end stays one while nothing is written over it.
LEMMA StaysEndedLate ==
  ASSUME NEW p \in Procs, EndedLate(p),
         store'.s.status = store.s.status, runId'[p] = runId[p],
         \A q \in Procs : Parted(q) =>
           Parted(q)' /\ runId'[q] = runId[q]
             /\ (aborted[q] => aborted'[q]) /\ (ended[q] => ended'[q])
  PROVE  EndedLate(p)'
BY DEF EndedLate

\* What is yielded stays so, and nothing more is, where no process parts with
\* its run.
LEMMA SameParted ==
  ASSUME \A q \in Procs : Parted(q)' = Parted(q) /\ (Parted(q) => runId'[q] = runId[q])
  PROVE  PartedRuns' = PartedRuns
BY DEF PartedRuns

\* Who writes the store, as StoreByHolder says of every step.
WriterHolds ==
  store' # store => \E p \in Procs :
    /\ \A q \in Procs \ {p} : OwnState(q)' = OwnState(q)
    /\ p \in {lock, lock'} \/ EndsLate(p)

\* What a step does to the store and the lock, seen as a step of RunLifecycle,
\* and by whom.
Permitted ==
  /\ [Lifecycle!Next]_(Lifecycle!vars)
  /\ WriterHolds

\* A step of a process that leaves it where it is, or takes it from an active
\* location to another, and at most persists the state of its run with the
\* status it has: every step of its loop and its handlers but those that begin
\* or end a run.
Quiet(p) ==
  /\ Active(p) \/ Parted(p)
  /\ \/ pc' = pc
     \/ Active(p) /\ \E l \in Loop : pc' = [pc EXCEPT ![p] = l]
  /\ \E s \in ExecutionState : s.status = st[p].status /\ st' = [st EXCEPT ![p] = s]
  /\ \/ UNCHANGED <<store, ended>>
     \/ \E s \in ExecutionState : s.status = st[p].status /\ Persist(p, s)
  /\ UNCHANGED <<lock, runId>>
  /\ \A q \in Procs : aborted[q] => aborted'[q]
  /\ \A q \in Procs \ {p} : phase'[q] = phase[q]

\* What a quiet step does to the store and to the marks of an end: it writes the
\* status the store has, of a run that is active; and a run it stops is one of
\* which the store takes no more.
LEMMA QuietStore ==
  ASSUME TypeOK, Ownership, NEW p \in Procs, Quiet(p)
  PROVE  /\ store'.id = store.id
         /\ store'.s.status = store.s.status
         /\ store' # store => Active(p) /\ Taken(p)
         /\ \A q \in Procs \ {p} : ended'[q] = ended[q]
         /\ \A q \in Procs : ended[q] => ended'[q]
         /\ ended'[p] # ended[p] => Active(p) /\ ~Taken(p)
<1>1. CASE UNCHANGED <<store, ended>>
  BY <1>1
<1>2. CASE ~(UNCHANGED <<store, ended>>)
  <2>1. PICK s \in ExecutionState : s.status = st[p].status /\ Persist(p, s)
    BY <1>2 DEF Quiet
  <2>2. ~(ended[p] \/ aborted[p] \/ Yielding(p))
    BY <1>2, <2>1, PersistEffect
  <2>3. Active(p)
    BY <2>2 DEF Quiet, Yielding
  <2>4. st[p].status = "running"
    BY <2>2, <2>3 DEF Ownership
  <2>5. Taken(p) => store.s.status = "running"
    BY DEF Taken
  <2> QED BY <2>1, <2>3, <2>4, <2>5, PersistEffect DEF TypeOK
<1> QED BY <1>1, <1>2

\* Where a quiet step leaves a process.
LEMMA QuietAt ==
  ASSUME TypeOK, NEW p \in Procs, Quiet(p), NEW q \in Procs
  PROVE  /\ Active(q)' <=> Active(q)
         /\ Parted(q)' <=> Parted(q)
         /\ pc'[q] = "idle" => pc[q] = "idle"
         /\ pc'[q] \in Ended => pc'[q] = pc[q]
         /\ q # p => pc'[q] = pc[q]
<1>1. CASE pc' = pc
  BY <1>1 DEF Active, Parted
<1>2. CASE Active(p) /\ \E l \in Loop : pc' = [pc EXCEPT ![p] = l]
  <2>1. PICK l \in Loop : pc' = [pc EXCEPT ![p] = l]
    BY <1>2
  <2>2. pc[p] \in Loop
    BY <1>2 DEF Active
  <2>3. pc'[q] = IF q = p THEN l ELSE pc[q]
    BY <2>1 DEF TypeOK
  <2> QED BY <2>2, <2>3, Locations DEF Active, Parted
<1> QED BY <1>1, <1>2 DEF Quiet

LEMMA QuietStep ==
  ASSUME TypeOK, Ownership, NEW p \in Procs, Quiet(p)
  PROVE  Ownership' /\ Permitted
<1> USE DEF Quiet
<1>1. /\ store'.id = store.id
      /\ store'.s.status = store.s.status
      /\ store' # store => Active(p)
      /\ \A q \in Procs \ {p} : ended'[q] = ended[q]
      /\ \A q \in Procs : ended[q] => ended'[q]
      /\ ended'[p] # ended[p] => Active(p) /\ ~Taken(p)
  BY QuietStore
<1>2. ASSUME NEW q \in Procs
      PROVE  /\ Active(q)' <=> Active(q)
             /\ Parted(q)' <=> Parted(q)
             /\ pc'[q] = "idle" => pc[q] = "idle"
             /\ pc'[q] \in Ended => pc'[q] = pc[q]
             /\ q # p => pc'[q] = pc[q]
  BY QuietAt
<1>3. ASSUME NEW q \in Procs
      PROVE  st'[q].status = st[q].status
  BY DEF TypeOK
<1>4. ActiveOwnsStore'
  <2>1. ASSUME NEW q \in Procs, Active(q)'
        PROVE  /\ lock' = q /\ store'.id = runId'[q]
               /\ store'.s.status = "running" => ~ended'[q]
               /\ ~ended'[q] => store'.s.status = "running" \/ EndedLate(q)'
    <3>1. Active(q)
      BY <1>2, <2>1
    <3>2. /\ lock = q /\ store.id = runId[q]
          /\ store.s.status = "running" => ~ended[q]
          /\ ~ended[q] => store.s.status = "running" \/ EndedLate(q)
      BY <3>1 DEF Ownership, ActiveOwnsStore
    <3>3. store.s.status = "running" => ~ended'[q]
      BY <1>1, <3>1, <3>2, ActiveTaken DEF TypeOK
    <3>4. EndedLate(q) => EndedLate(q)'
      BY <1>1, <1>2, StaysEndedLate
    <3> QED BY <1>1, <3>2, <3>3, <3>4
  <2> QED BY <2>1 DEF ActiveOwnsStore
<1>5. ASSUME NEW q \in Procs, ~Active(q)', ~Parted(q)', NEW t \in Tasks
      PROVE  phase'[q][t] = "none"
  <2>1. ~Active(q) /\ ~Parted(q)
    BY <1>2, <1>5
  <2> QED BY <2>1 DEF Ownership
<1>6. ASSUME NEW q \in Procs
      PROVE  /\ Active(q)' \/ Parted(q)' => runId'[q] # NoProc
             /\ Active(q)' /\ ~ended'[q] => st'[q].status = "running"
  <2>1. (Active(q)' => Active(q)) /\ (Parted(q)' => Parted(q))
    BY <1>2
  <2>2. ~ended'[q] => ~ended[q]
    BY <1>1
  <2> QED BY <1>3, <2>1, <2>2 DEF Ownership
<1>7. ASSUME NEW q \in Procs, pc'[q] = "idle"
      PROVE  ~ended'[q] /\ store'.id # q
  <2>1. pc[q] = "idle"
    BY <1>2, <1>7
  <2>2. q # p
    BY <2>1, Locations DEF Active, Parted
  <2> QED BY <1>1, <2>1, <2>2 DEF Ownership
<1>a. ASSUME NEW q \in Procs, pc'[q] \in {"finished", "cancelled", "failed"}
      PROVE  ended'[q]
  BY <1>1, <1>2, <1>a DEF Ownership, Ended
<1>8. Ownership'
  BY <1>4, <1>5, <1>6, <1>7, <1>a DEF Ownership
<1>9. PartedRuns' = PartedRuns
  <2>1. \A q \in Procs : Parted(q)' = Parted(q)
    BY <1>2 DEF Parted
  <2> QED BY <2>1, SameParted
<1>10. UNCHANGED Lifecycle!vars
  BY <1>1, <1>9 DEF Lifecycle!vars
<1>11. WriterHolds
  <2>1. \A q \in Procs \ {p} : OwnState(q)' = OwnState(q)
    BY <1>1, <1>2 DEF OwnState
  <2>2. store' # store => lock = p
    BY <1>1 DEF Ownership, ActiveOwnsStore
  <2> QED BY <2>1, <2>2 DEF WriterHolds
<1> QED BY <1>8, <1>10, <1>11 DEF Permitted

\* A step that leaves the run's state as it is.
LEMMA SameState ==
  ASSUME TypeOK, NEW p \in Procs, st' = st
  PROVE  \E s \in ExecutionState : s.status = st[p].status /\ st' = [st EXCEPT ![p] = s]
BY DEF TypeOK

\* What FreeSlot and LaunchCur leave of the other processes.
LEMMA OtherPhases ==
  ASSUME TypeOK, NEW p \in Procs,
         \/ LaunchCur(p) \/ phase' = phase
         \/ \E t \in Tasks : FreeSlot(p, t)
         \/ \E t \in Tasks, x \in Phase : phase' = [phase EXCEPT ![p][t] = x]
  PROVE  \A q \in Procs \ {p} : phase'[q] = phase[q]
BY DEF TypeOK, LaunchCur, FreeSlot

LEMMA PassQuiet ==
  ASSUME TypeOK, NEW p \in Procs, Active(p), NEW ready, NEW sync,
         PrepareNext(p, ready, sync) \/ EndPass(p, ready, sync)
  PROVE  Quiet(p)
<1>1. ASSUME NEW ts
      PROVE  Deferred(p, ts) \in ExecutionState /\ Deferred(p, ts).status = st[p].status
  BY SetTasksType, StatusTypes DEF Deferred, TypeOK
<1>2. \E ts : st' = [st EXCEPT ![p] = Deferred(p, ts)]
  BY DEF PrepareNext, EndPass
<1>3. \E s \in ExecutionState : s.status = st[p].status /\ st' = [st EXCEPT ![p] = s]
  BY <1>1, <1>2
<1>4. \E l \in {"read", "yield", "race", "drain", "top"} : pc' = [pc EXCEPT ![p] = l]
  BY DEF PrepareNext, EndPass
<1>5. \E l \in Loop : pc' = [pc EXCEPT ![p] = l]
  BY <1>4 DEF Loop
<1>6. LaunchCur(p) /\ UNCHANGED <<store, lock, aborted, ended, runId>>
  BY DEF PrepareNext, EndPass, durable, flags
<1> QED BY <1>3, <1>5, <1>6, OtherPhases DEF Quiet

LEMMA LoopTaskQuiet ==
  ASSUME TypeOK, NEW p \in Procs, NEW t \in Tasks,
         \/ LoopWaiting(p, t) \/ LoopStart(p, t) \/ LoopHit(p, t) \/ LoopDetect(p, t)
  PROVE  Quiet(p)
<1>1. Active(p)
  BY DEF LoopWaiting, LoopStart, LoopHit, LoopDetect, Active, Loop
<1>2. \E l \in Loop : pc' = [pc EXCEPT ![p] = l]
  BY DEF LoopWaiting, LoopStart, LoopHit, LoopDetect, NextLaunch, Loop
<1>3. UNCHANGED <<lock, runId>>
  BY DEF LoopWaiting, LoopStart, LoopHit, LoopDetect, NextLaunch, flags
<1>4. \A q \in Procs \ {p} : phase'[q] = phase[q]
  BY OtherPhases DEF LoopWaiting, LoopStart, LoopHit, LoopDetect, slots
<1>5. /\ \E s \in ExecutionState : s.status = st[p].status /\ st' = [st EXCEPT ![p] = s]
      /\ \/ UNCHANGED <<store, aborted, ended>>
         \/ \E s \in ExecutionState : s.status = st[p].status /\ Persist(p, s)
  <2>1. CASE LoopWaiting(p, t)
    BY <2>1, OneTaskTypes DEF LoopWaiting, TypeOK
  <2>2. CASE LoopStart(p, t)
    BY <2>2, OneTaskTypes DEF LoopStart, TypeOK
  <2>3. CASE LoopHit(p, t)
    BY <2>3, BackToPendingEffect, ApplyEffect DEF LoopHit, flags
  <2>4. CASE LoopDetect(p, t)
    BY <2>4, DetectEffect DEF LoopDetect
  <2> QED BY <2>1, <2>2, <2>3, <2>4
<1> QED BY <1>1, <1>2, <1>3, <1>4, <1>5, PersistEffect DEF Quiet

LEMMA HandlerQuiet ==
  ASSUME TypeOK, Ownership, NEW p \in Procs, NEW t \in Tasks,
         Handler(p, t) \/ HandlerThrows(p, t)
  PROVE  Quiet(p)
<1> USE DEF Handler
<1>1. phase[p][t] # "none"
  BY DEF RunnerFinish, HandlerApply, HandlerDetect, HandlerStopped, HandlerFailed,
         HandlerFailTask, HandlerThrows
<1>2. Active(p) \/ Parted(p)
  BY <1>1 DEF Ownership
<1>3. UNCHANGED <<pc, lock, runId>>
  BY DEF RunnerFinish, HandlerApply, HandlerDetect, HandlerStopped, HandlerFailed,
         HandlerFailTask, HandlerThrows, flags, durable
<1>4. \A q \in Procs \ {p} : phase'[q] = phase[q]
  <2>1. \/ FreeSlot(p, t)
        \/ \E x \in Phase : phase' = [phase EXCEPT ![p][t] = x]
    BY DEF RunnerFinish, HandlerApply, HandlerDetect, HandlerStopped, HandlerFailed,
           HandlerFailTask, HandlerThrows, Phase
  <2> QED BY <2>1, OtherPhases
<1>5. /\ \E s \in ExecutionState : s.status = st[p].status /\ st' = [st EXCEPT ![p] = s]
      /\ \/ UNCHANGED <<store, aborted, ended>>
         \/ \E s \in ExecutionState : s.status = st[p].status /\ Persist(p, s)
  <2>1. CASE RunnerFinish(p, t) \/ HandlerThrows(p, t)
    BY <2>1, SameState DEF RunnerFinish, HandlerThrows, durable, flags
  <2>2. CASE HandlerApply(p, t)
    <3>1. (phase[p][t] = "hit") \in BOOLEAN
      OBVIOUS
    <3> QED BY <2>2, <3>1, BackToPendingEffect, ApplyEffect DEF HandlerApply, flags
  <2>3. CASE HandlerDetect(p, t)
    BY <2>3, DetectEffect DEF HandlerDetect
  <2>4. CASE HandlerStopped(p, t)
    BY <2>4, OneTaskTypes, BackToPendingEffect DEF HandlerStopped
  <2>5. CASE HandlerFailed(p, t)
    BY <2>5, SkippedType DEF HandlerFailed
  <2>6. CASE HandlerFailTask(p, t)
    BY <2>6, OneTaskTypes DEF HandlerFailTask, TypeOK
  <2> QED BY <2>1, <2>2, <2>3, <2>4, <2>5, <2>6
<1> QED BY <1>2, <1>3, <1>4, <1>5, PersistEffect DEF Quiet

\* The steps of a process that neither begin nor end a run.
LEMMA QuietSteps ==
  ASSUME TypeOK, Ownership, NEW p \in Procs,
         \/ Top(p) \/ Launch(p) \/ Race(p) \/ DrainStuck(p) \/ LoopThrows(p)
         \/ RequestCancel(p)
         \/ \E t \in Tasks : \E d \in Datasets : ReadInput(p, t, d)
         \/ \E t \in Tasks :
              LoopWaiting(p, t) \/ LoopStart(p, t) \/ LoopHit(p, t) \/ LoopDetect(p, t)
         \/ \E t \in Tasks : Handler(p, t) \/ HandlerThrows(p, t)
  PROVE  Quiet(p)
<1>1. CASE Top(p) \/ Launch(p)
  <2>1. Active(p)
    BY <1>1 DEF Top, Launch, Active, Loop
  <2>2. CASE /\ pc' = [pc EXCEPT ![p] = "drain"]
             /\ UNCHANGED <<durable, st, pass, slots, flags>>
    BY <2>1, <2>2, SameState DEF Quiet, Loop, durable, slots, flags
  <2> QED BY <1>1, <2>1, <2>2, PassQuiet DEF Top, Launch
<1>2. CASE Race(p) \/ DrainStuck(p)
  <2>1. Active(p) /\ \E l \in Loop : pc' = [pc EXCEPT ![p] = l]
    BY <1>2 DEF Race, DrainStuck, Active, Loop
  <2> QED BY <1>2, <2>1, SameState DEF Race, DrainStuck, Quiet, durable, slots, flags
<1>3. CASE LoopThrows(p)
  <2>1. Active(p) /\ \E l \in Loop : pc' = [pc EXCEPT ![p] = l]
    BY <1>3 DEF LoopThrows, Active, Loop
  <2>2. \A q \in Procs \ {p} : phase'[q] = phase[q]
    BY <1>3, OtherPhases DEF LoopThrows, TypeOK
  <2> QED BY <1>3, <2>1, <2>2, SameState DEF LoopThrows, Quiet, durable, flags
<1>4. CASE RequestCancel(p)
  <2>1. \A q \in Procs : aborted[q] => aborted'[q]
    BY <1>4 DEF RequestCancel, TypeOK
  <2>2. Active(p) \/ Parted(p)
    BY <1>4 DEF RequestCancel, Parted
  <2> QED BY <1>4, <2>1, <2>2, SameState DEF RequestCancel, Quiet, durable, slots
<1>5. ASSUME NEW t \in Tasks, NEW d \in Datasets, ReadInput(p, t, d) PROVE Quiet(p)
  <2>1. Active(p)
    BY <1>5 DEF ReadInput, Active, Loop
  <2>2. \E l \in {"read", "wait", "hit", "start"} : pc' = [pc EXCEPT ![p] = l]
    BY <1>5, ReadInputTarget
  <2>3. \E l \in Loop : pc' = [pc EXCEPT ![p] = l]
    BY <2>2 DEF Loop
  <2> QED BY <1>5, <2>1, <2>3, SameState DEF ReadInput, Quiet, durable, flags
<1> QED BY <1>1, <1>2, <1>3, <1>4, <1>5, LoopTaskQuiet, HandlerQuiet

-----------------------------------------------------------------------------
(* The steps that begin or end a run                                       *)

LEMMA BeginSteps ==
  ASSUME TypeOK, Ownership, NEW p \in Procs, Start(p) \/ Resume(p)
  PROVE  Ownership' /\ Permitted
<1>1. PICK s \in ExecutionState, id \in Procs :
        /\ Begin(p, s, id) /\ s.status = "running"
        /\ \/ id = p
           \/ id = store.id /\ store.s.status = "running"
  <2>1. CASE Start(p)
    <3>1. Initialize(root) \in ExecutionState /\ Initialize(root).status = "running"
      BY InitializeType DEF TypeOK
    <3> QED BY <2>1, <3>1 DEF Start
  <2>2. CASE Resume(p)
    <3>1. store.s \in ExecutionState /\ store.id \in Procs
      BY <2>2 DEF Resume, TypeOK
    <3>2. Yield(store.s) \in ExecutionState /\ Yield(store.s).status = "running"
      BY <2>2, <3>1, EndTypes DEF Resume
    <3> QED BY <2>2, <3>1, <3>2 DEF Resume
  <2> QED BY <2>1, <2>2
<1>2. /\ pc[p] = "idle" /\ lock = NoProc /\ lock' = p
      /\ pc' = [pc EXCEPT ![p] = "top"] /\ st' = [st EXCEPT ![p] = s]
      /\ store' = [id |-> id, s |-> s] /\ runId' = [runId EXCEPT ![p] = id]
      /\ UNCHANGED <<phase, ended, aborted>>
  BY <1>1 DEF Begin, slots
<1>3. ~ended[p] /\ store.id # p /\ p # NoProc /\ id # NoProc
  BY <1>1, <1>2, RunAssumption DEF Ownership, RunAssumption
<1>4. \A q \in Procs : ~Active(q)
  BY <1>2, RunAssumption DEF Ownership, ActiveOwnsStore, RunAssumption
<1>5. ASSUME NEW q \in Procs
      PROVE  /\ q # p => ~Active(q)' /\ pc'[q] = pc[q]
             /\ q = p => pc'[q] = "top" /\ Active(q)'
             /\ Parted(q)' = Parted(q) /\ (Parted(q) => runId'[q] = runId[q])
  BY <1>2, <1>4 DEF Active, Parted, TypeOK, Loop
<1>6. ASSUME NEW q \in Procs, pc'[q] = "idle"
      PROVE  ~ended'[q] /\ store'.id # q
  BY <1>1, <1>2, <1>5, <1>6 DEF Ownership
<1>7. ActiveOwnsStore'
  BY <1>1, <1>2, <1>3, <1>5 DEF ActiveOwnsStore, TypeOK
<1>8. ASSUME NEW q \in Procs
      PROVE  /\ Active(q)' \/ Parted(q)' => runId'[q] # NoProc
             /\ Active(q)' /\ ~ended'[q] => st'[q].status = "running"
  <2>1. Parted(q)' => runId'[q] # NoProc
    BY <1>5 DEF Ownership
  <2> QED BY <1>1, <1>2, <1>3, <1>5, <2>1 DEF TypeOK
<1>9. ASSUME NEW q \in Procs, ~Active(q)', ~Parted(q)', NEW t \in Tasks
      PROVE  phase'[q][t] = "none"
  <2>1. ~Parted(q) /\ ~Active(q)
    BY <1>4, <1>5, <1>9
  <2> QED BY <1>2, <2>1 DEF Ownership
<1>b. ASSUME NEW q \in Procs, pc'[q] \in {"finished", "cancelled", "failed"}
      PROVE  ended'[q]
  BY <1>2, <1>5, <1>b DEF Ownership
<1>10. Ownership'
  BY <1>6, <1>7, <1>8, <1>9, <1>b DEF Ownership
<1>a. PartedRuns' = PartedRuns
  BY <1>5, SameParted
<1>11. Lifecycle!Next
  <2>1. CASE id = p
    <3>1. Lifecycle!StartRun(p)
      BY <1>1, <1>2, <1>3, <1>a, <2>1 DEF Lifecycle!StartRun
    <3> QED BY <3>1 DEF Lifecycle!Next
  <2>2. CASE id = store.id /\ store.s.status = "running"
    <3>1. Lifecycle!ResumeRun(p)
      BY <1>1, <1>2, <1>3, <1>a, <2>2 DEF Lifecycle!ResumeRun
    <3> QED BY <3>1 DEF Lifecycle!Next
  <2> QED BY <1>1, <2>1, <2>2
<1>12. WriterHolds
  <2>1. \A q \in Procs \ {p} : OwnState(q)' = OwnState(q)
    BY <1>2, <1>5 DEF OwnState
  <2> QED BY <1>2, <2>1 DEF WriterHolds
<1> QED BY <1>10, <1>11, <1>12 DEF Permitted

\* The step in which a run leaves its loop: nobody is active any more.
LEMMA LeaveSteps ==
  ASSUME TypeOK, Ownership, NEW p \in Procs, Active(p),
         NEW how \in Ended \union {"leaving"}, pc' = [pc EXCEPT ![p] = how],
         \A q \in Procs \ {p} : ended'[q] = ended[q],
         \A q \in Procs \ {p} : phase'[q] = phase[q],
         how # "leaving" => \A t \in Tasks : phase'[p][t] = "none",
         how \in {"finished", "cancelled", "failed"} => ended'[p],
         store'.id = store.id, runId' = runId
  PROVE  Ownership'
<1>1. ASSUME NEW q \in Procs PROVE ~Active(q)'
  <2>1. q # p => ~Active(q)
    BY OneActive DEF Ownership
  <2> QED BY <2>1, Locations DEF Active, TypeOK
<1>2. ASSUME NEW q \in Procs, pc'[q] = "idle"
      PROVE  ~ended'[q] /\ store'.id # q
  <2>1. q # p /\ pc[q] = "idle"
    BY <1>2 DEF TypeOK, Ended
  <2> QED BY <2>1 DEF Ownership, TypeOK
<1>3. ASSUME NEW q \in Procs, ~Parted(q)', NEW t \in Tasks
      PROVE  phase'[q][t] = "none"
  <2>1. CASE q = p
    BY <1>3, <2>1 DEF TypeOK, Parted
  <2>2. CASE q # p
    <3>1. ~Active(q) /\ ~Parted(q)
      BY <1>3, <2>2, OneActive DEF Ownership, TypeOK, Parted
    <3> QED BY <2>2, <3>1 DEF Ownership
  <2> QED BY <2>1, <2>2
<1>4. ASSUME NEW q \in Procs, pc'[q] \in {"finished", "cancelled", "failed"}
      PROVE  ended'[q]
  BY <1>4 DEF Ownership, TypeOK
<1>5. ASSUME NEW q \in Procs, Parted(q)'
      PROVE  runId'[q] # NoProc
  <2>1. q = p \/ Parted(q)
    BY <1>5 DEF Parted, TypeOK
  <2> QED BY <2>1 DEF Ownership
<1> QED BY <1>1, <1>2, <1>3, <1>4, <1>5 DEF Ownership, ActiveOwnsStore

\* A run that ends otherwise than by a yield parts with nothing.
LEMMA NoneParts ==
  ASSUME TypeOK, NEW p \in Procs, Active(p), NEW how \in Ended \ {"yielded"},
         pc' = [pc EXCEPT ![p] = how], runId' = runId
  PROVE  PartedRuns' = PartedRuns
<1>1. ~Parted(p) /\ how \notin {"leaving", "yielded"}
  BY ActiveOrParted, Locations
<1>2. \A q \in Procs : Parted(q)' = Parted(q)
  BY <1>1 DEF Parted, TypeOK
<1> QED BY <1>2, SameParted

\* A step of the holder that changes nothing of another process.
LEMMA HolderAlone ==
  ASSUME TypeOK, NEW p \in Procs, p \in {lock, lock'},
         NEW how, pc' = pc \/ pc' = [pc EXCEPT ![p] = how],
         \A q \in Procs \ {p} : ended'[q] = ended[q],
         \A q \in Procs \ {p} : phase'[q] = phase[q]
  PROVE  WriterHolds
<1>1. \A q \in Procs \ {p} : OwnState(q)' = OwnState(q)
  BY DEF OwnState, TypeOK
<1> QED BY <1>1 DEF WriterHolds

\* A step that records an end, when the store still has the run running, or
\* else leaves the store, and that lets the workspace go.
LEMMA RecordEnd ==
  ASSUME TypeOK, Ownership, NEW p \in Procs, Active(p), NEW s \in ExecutionState,
         s.status \in {"completed", "failed"}, Write(p, s), lock' = NoProc,
         PartedRuns' = PartedRuns
  PROVE  [Lifecycle!Next]_(Lifecycle!vars) /\ store'.id = store.id
<1>1. /\ lock = p /\ store.id = runId[p] /\ store.id # NoProc
      /\ store'.id = store.id
  BY WriteEffect DEF Ownership, ActiveOwnsStore
<1>2. CASE Taken(p)
  <2>1. store.s.status = "running" /\ store'.s = s
    BY <1>2, WriteEffect DEF Taken
  <2>2. Lifecycle!EndRun(p, s.status)
    BY <1>1, <2>1 DEF Lifecycle!EndRun
  <2> QED BY <1>1, <2>2 DEF Lifecycle!Next
<1>3. CASE ~Taken(p)
  <2>1. store' = store
    BY <1>3, WriteEffect
  <2>2. Lifecycle!LetGo(p)
    BY <1>1, <2>1 DEF Lifecycle!LetGo
  <2> QED BY <1>1, <2>2 DEF Lifecycle!Next
<1> QED BY <1>1, <1>2, <1>3

\* Nothing in flight: nothing tracked.
LEMMA NothingTracked ==
  ASSUME NEW p \in Procs, InFlight(p) = {}
  PROVE  \A t \in Tasks : phase[p][t] = "none"
BY DEF InFlight

\* A cancel records its end: of a run its process runs, or of one it yielded.
LEMMA CancelSteps ==
  ASSUME TypeOK, Ownership, NEW p \in Procs, EndCancelled(p)
  PROVE  Ownership' /\ Permitted
<1> DEFINE s == Cancel(Yield(st[p]))
<1>1. s \in ExecutionState /\ s.status = "cancelled"
  BY EndTypes DEF TypeOK
<1> HIDE DEF s
<1>2. /\ aborted[p] /\ ~ended[p] /\ Write(p, s)
      /\ ended' = [ended EXCEPT ![p] = TRUE]
      /\ UNCHANGED <<lock, pc, runId, phase, aborted>>
      /\ \A q \in Procs \ {p} : st'[q] = st[q]
  BY DEF EndCancelled, CancelDue, s, slots, TypeOK
<1>3. Active(p) \/ Parted(p)
  <2>1. pc[p] \in PC \ {"idle", "dead"}
    BY DEF EndCancelled, CancelDue, TypeOK
  <2>2. pc[p] \notin {"finished", "cancelled", "failed"}
    BY <1>2 DEF Ownership
  <2> QED BY <2>1, <2>2 DEF PC, Ended, Active, Parted
<1>4. /\ store'.id = store.id
      /\ Taken(p) => store'.s.status = "cancelled"
      /\ ~Taken(p) => store' = store
  BY <1>1, <1>2, WriteEffect
<1>5. ended'[p] /\ \A q \in Procs \ {p} : ended'[q] = ended[q]
  BY <1>2 DEF TypeOK
<1>6. \A q \in Procs : Active(q)' = Active(q) /\ Parted(q)' = Parted(q)
  BY <1>2 DEF Active, Parted
<1>7. ASSUME NEW q \in Procs, Active(q)'
      PROVE  /\ lock' = q /\ store'.id = runId'[q]
             /\ store'.s.status = "running" => ~ended'[q]
             /\ ~ended'[q] => store'.s.status = "running" \/ EndedLate(q)'
  <2>1. /\ lock = q /\ store.id = runId[q]
        /\ store.s.status = "running" => ~ended[q]
        /\ ~ended[q] => store.s.status = "running" \/ EndedLate(q)
    BY <1>6, <1>7 DEF Ownership, ActiveOwnsStore
  <2>2. CASE Taken(p)
    <3>1. store'.s.status = "cancelled" /\ runId[p] = runId[q]
      BY <1>4, <2>1, <2>2 DEF Taken
    <3>2. ~ended'[q] => Parted(p)
      BY <1>3, <1>5, <1>6, <1>7, OneActive DEF Ownership
    <3>3. ~ended'[q] => EndedLate(q)'
      BY <1>2, <1>5, <1>6, <3>1, <3>2 DEF EndedLate
    <3> QED BY <1>2, <1>4, <2>1, <3>1, <3>3
  <2>3. CASE ~Taken(p)
    <3>1. q = p => store.s.status # "running"
      BY <1>6, <1>7, <2>3, ActiveTaken
    <3>2. EndedLate(q) => EndedLate(q)'
      BY <1>2, <1>4, <1>5, <1>6, <2>3, StaysEndedLate
    <3> QED BY <1>2, <1>4, <1>5, <2>1, <2>3, <3>1, <3>2
  <2> QED BY <2>2, <2>3
<1>8. ASSUME NEW q \in Procs
      PROVE  /\ Active(q)' \/ Parted(q)' => runId'[q] # NoProc
             /\ Active(q)' /\ ~ended'[q] => st'[q].status = "running"
  <2>1. (Active(q)' => Active(q)) /\ (Parted(q)' => Parted(q))
    BY <1>6
  <2>2. q # p => ended'[q] = ended[q] /\ st'[q] = st[q]
    BY <1>2, <1>5
  <2> QED BY <1>2, <1>5, <2>1, <2>2 DEF Ownership
<1>9. ASSUME NEW q \in Procs, pc'[q] = "idle"
      PROVE  ~ended'[q] /\ store'.id # q
  <2>1. q # p
    BY <1>2, <1>3, <1>9, Locations DEF Active, Parted
  <2> QED BY <1>2, <1>4, <1>5, <1>9, <2>1 DEF Ownership
<1>10. ASSUME NEW q \in Procs, ~Active(q)', ~Parted(q)', NEW t \in Tasks
       PROVE  phase'[q][t] = "none"
  BY <1>2, <1>6, <1>10 DEF Ownership
<1>11. ASSUME NEW q \in Procs, pc'[q] \in {"finished", "cancelled", "failed"}
       PROVE  ended'[q]
  BY <1>2, <1>5, <1>11 DEF Ownership
<1>12. Ownership'
  BY <1>7, <1>8, <1>9, <1>10, <1>11 DEF Ownership, ActiveOwnsStore
<1>13. PartedRuns' = PartedRuns
  BY <1>2, <1>6, SameParted
<1>14. [Lifecycle!Next]_(Lifecycle!vars) /\ WriterHolds
  <2>1. CASE ~Taken(p)
    BY <1>2, <1>4, <1>13, <2>1 DEF Lifecycle!vars, WriterHolds
  <2>2. CASE Taken(p) /\ Active(p)
    <3>1. lock = p /\ store.id # NoProc /\ store.s.status = "running"
      BY <2>2 DEF Ownership, ActiveOwnsStore, Taken
    <3>2. Lifecycle!EndRun(p, "cancelled")
      BY <1>2, <1>4, <1>13, <2>2, <3>1 DEF Lifecycle!EndRun
    <3>3. WriterHolds
      BY <1>2, <1>5, <3>1 DEF WriterHolds, OwnState
    <3> QED BY <3>2, <3>3 DEF Lifecycle!Next
  <2>3. CASE Taken(p) /\ Parted(p)
    <3>1. store.id = runId[p] /\ store.s.status = "running"
      BY <2>3 DEF Taken
    <3>2. store.id \in PartedRuns
      BY <2>3, <3>1 DEF PartedRuns
    <3>3. store.id # NoProc
      BY <2>3, <3>1 DEF Ownership
    <3>4. Lifecycle!CancelLate
      BY <1>2, <1>4, <1>13, <2>3, <3>1, <3>2, <3>3 DEF Lifecycle!CancelLate
    <3>5. EndsLate(p)
      BY <1>2, <1>4, <1>5, <2>3, <3>1 DEF EndsLate
    <3>6. WriterHolds
      BY <1>2, <1>5, <3>5 DEF WriterHolds, OwnState
    <3> QED BY <3>4, <3>6 DEF Lifecycle!Next
  <2> QED BY <1>3, <2>1, <2>2, <2>3
<1> QED BY <1>12, <1>14 DEF Permitted

\* A checkpoint: the last word of the run in this process, but for a cancel, or
\* the word that the run was ended while it ran.
LEMMA YieldSteps ==
  ASSUME TypeOK, Ownership, NEW p \in Procs, YieldCheckpoint(p)
  PROVE  Ownership' /\ Permitted
<1> DEFINE s == Yield(st[p])
<1>1. s \in ExecutionState /\ s.status = st[p].status
  BY EndTypes DEF TypeOK
<1> HIDE DEF s
<1>2. /\ st' = [st EXCEPT ![p] = s] /\ Write(p, s) /\ Told(p)
      /\ UNCHANGED <<lock, phase, runId>>
      /\ Active(p)
  BY DEF YieldCheckpoint, s, slots, Active, Loop, TypeOK
<1>3. /\ lock = p /\ store.id = runId[p] /\ store.id # NoProc
      /\ Taken(p) = (store.s.status = "running")
  BY <1>2, ActiveTaken DEF Ownership, ActiveOwnsStore
<1>4. CASE Taken(p)
  <2>1. /\ pc' = [pc EXCEPT ![p] = "leaving"] /\ store'.s = s /\ store'.id = store.id
        /\ ended' = ended
    BY <1>1, <1>2, <1>4, WriteEffect DEF YieldCheckpoint, Told, TypeOK
  <2>2. store'.s.status = "running"
    BY <1>1, <1>2, <1>3, <1>4, <2>1 DEF Ownership, ActiveOwnsStore
  <2>3. Ownership'
    BY <1>2, <2>1, LeaveSteps, Locations
  <2>4. PartedRuns' = PartedRuns \union {store.id}
    <3>1. \A q \in Procs : Parted(q)' = (q = p \/ Parted(q))
      BY <2>1 DEF Parted, TypeOK
    <3> QED BY <1>2, <1>3, <3>1 DEF PartedRuns
  <2>5. Lifecycle!YieldRun(p)
    BY <1>2, <1>3, <1>4, <2>1, <2>2, <2>4 DEF Lifecycle!YieldRun
  <2>6. WriterHolds
    BY <1>2, <1>3, <2>1, HolderAlone
  <2> QED BY <2>3, <2>5, <2>6 DEF Permitted, Lifecycle!Next
<1>5. CASE ~Taken(p)
  <2>2. pc' = [pc EXCEPT ![p] = "drain"] /\ "drain" \in Loop
    BY <1>5 DEF YieldCheckpoint, Loop
  <2>3. store' = store /\ ended'[p] /\ \A q \in Procs \ {p} : ended'[q] = ended[q]
    BY <1>1, <1>2, <1>5, WriteEffect DEF Told, TypeOK
  <2>4. \A q \in Procs : (aborted[q] => aborted'[q]) /\ (ended[q] => ended'[q])
    BY <1>2, <2>3 DEF Told, Stops, TypeOK
  <2>5. ASSUME NEW q \in Procs
        PROVE  /\ Active(q)' = Active(q) /\ Parted(q)' = Parted(q)
               /\ q # p => pc'[q] = pc[q]
    BY <1>2, <2>2, Locations DEF Active, Parted, TypeOK
  <2>6. ASSUME NEW q \in Procs, Active(q)
        PROVE  q = p
    BY <1>2, <2>6, OneActive DEF Ownership
  <2>7. PartedRuns' = PartedRuns
    BY <1>2, <2>5, SameParted
  <2>8. ActiveOwnsStore'
    BY <1>2, <1>3, <1>5, <2>3, <2>5, <2>6 DEF ActiveOwnsStore
  <2>9. ASSUME NEW q \in Procs
        PROVE  /\ Active(q)' \/ Parted(q)' => runId'[q] # NoProc
               /\ Active(q)' /\ ~ended'[q] => st'[q].status = "running"
    BY <1>2, <2>3, <2>5, <2>6 DEF Ownership
  <2>10. ASSUME NEW q \in Procs
         PROVE  /\ pc'[q] = "idle" => ~ended'[q] /\ store'.id # q
                /\ pc'[q] \in {"finished", "cancelled", "failed"} => ended'[q]
    <3>1. pc'[p] = "drain"
      BY <2>2 DEF TypeOK
    <3> QED BY <2>3, <2>5, <3>1 DEF Ownership
  <2>11. ASSUME NEW q \in Procs, ~Active(q)', ~Parted(q)', NEW t \in Tasks
         PROVE  phase'[q][t] = "none"
    BY <1>2, <2>5, <2>11 DEF Ownership
  <2>12. Ownership'
    BY <2>8, <2>9, <2>10, <2>11 DEF Ownership
  <2> QED BY <1>2, <2>3, <2>7, <2>12 DEF Permitted, Lifecycle!vars, WriterHolds
<1> QED BY <1>4, <1>5

\* A process that yielded lets go of its locks, and then forgets the run.
LEMMA PartingSteps ==
  ASSUME TypeOK, Ownership, NEW p \in Procs, LetGo(p) \/ Forget(p)
  PROVE  Ownership' /\ Permitted
<1>1. /\ pc[p] = "leaving"
      /\ pc' = pc \/ pc' = [pc EXCEPT ![p] = "yielded"]
      /\ UNCHANGED <<store, st, phase, ended, aborted, runId>>
      /\ lock' = lock \/ (lock = p /\ lock' = NoProc)
      /\ pc' # pc => lock' = lock
  BY DEF LetGo, Forget, durable, slots, flags
<1>2. ASSUME NEW q \in Procs
      PROVE  /\ Active(q)' = Active(q) /\ Parted(q)' = Parted(q)
             /\ pc'[q] \notin {"leaving", "yielded"} => pc'[q] = pc[q]
  <2>1. CASE pc' = pc
    BY <2>1 DEF Active, Parted
  <2>2. CASE pc' = [pc EXCEPT ![p] = "yielded"]
    <3>1. pc'[q] = IF q = p THEN "yielded" ELSE pc[q]
      BY <2>2 DEF TypeOK
    <3> QED BY <1>1, <3>1, Locations DEF Active, Parted
  <2> QED BY <1>1, <2>1, <2>2
<1>3. ASSUME NEW q \in Procs, Active(q)
      PROVE  lock' = lock
  <2>1. lock = q /\ q # p
    BY <1>1, <1>3, Locations DEF Ownership, ActiveOwnsStore, Active
  <2> QED BY <1>1, <2>1
<1>4. ASSUME NEW q \in Procs, EndedLate(q)
      PROVE  EndedLate(q)'
  BY <1>1, <1>2, <1>4, StaysEndedLate
<1>5. Ownership'
  <2>1. ActiveOwnsStore'
    BY <1>1, <1>2, <1>3, <1>4 DEF Ownership, ActiveOwnsStore
  <2> QED BY <1>1, <1>2, <2>1 DEF Ownership
<1>6. PartedRuns' = PartedRuns
  BY <1>1, <1>2, SameParted
<1>7. lock' # lock => Lifecycle!LetGo(p)
  BY <1>1, <1>6 DEF Lifecycle!LetGo
<1>8. lock' = lock => UNCHANGED Lifecycle!vars
  BY <1>1, <1>6 DEF Lifecycle!vars
<1> QED BY <1>1, <1>5, <1>7, <1>8 DEF Permitted, WriterHolds, Lifecycle!Next

LEMMA EndSteps ==
  ASSUME TypeOK, Ownership, NEW p \in Procs,
         DrainCancelled(p) \/ DrainFinalize(p) \/ EndFailed(p) \/ Crash(p)
  PROVE  Ownership' /\ Permitted
<1>0. Active(p) /\ st[p] \in ExecutionState /\ store.s \in ExecutionState
  BY DEF DrainCancelled, DrainFinalize, EndFailed, Crash, Active, Loop, TypeOK
<1>a. lock = p /\ store.id = runId[p] /\ store.id # NoProc
  BY <1>0 DEF Ownership, ActiveOwnsStore
<1>1. CASE DrainCancelled(p) \/ Crash(p)
  <2>1. PICK how \in {"cancelled", "dead"} : pc' = [pc EXCEPT ![p] = how]
    BY <1>1 DEF DrainCancelled, Leave, Crash
  <2>2. /\ lock' = NoProc /\ UNCHANGED <<store, ended, runId>>
        /\ \A q \in Procs \ {p} : phase'[q] = phase[q]
        /\ \A t \in Tasks : phase'[p][t] = "none"
        /\ how = "cancelled" => ended[p]
    <3>1. CASE DrainCancelled(p)
      BY <3>1, NothingTracked DEF DrainCancelled, Leave, slots, flags
    <3>2. CASE Crash(p)
      <4>1. how = "dead"
        BY <2>1, <3>2 DEF Crash, TypeOK
      <4> QED BY <1>a, <3>2, <4>1 DEF Crash, TypeOK, flags
    <3> QED BY <1>1, <3>1, <3>2
  <2>3. how \in Ended \ {"yielded"} /\ how \notin {"finished", "failed"}
    BY DEF Ended
  <2>4. PartedRuns' = PartedRuns
    BY <1>0, <2>1, <2>2, <2>3, NoneParts
  <2>5. Ownership'
    BY <1>0, <2>1, <2>2, <2>3, LeaveSteps
  <2>6. Lifecycle!LetGo(p)
    BY <1>a, <2>2, <2>4 DEF Lifecycle!LetGo
  <2> QED BY <2>2, <2>5, <2>6 DEF Permitted, WriterHolds, Lifecycle!Next
<1>2. CASE DrainFinalize(p) \/ EndFailed(p)
  <2>1. PICK s \in ExecutionState, how \in {"finished", "cancelled", "failed"} :
          /\ s.status \in {"completed", "failed"} /\ Write(p, s)
          /\ pc' = [pc EXCEPT ![p] = how]
    <3>1. CASE DrainFinalize(p)
      <4>1. /\ Finalize(st[p]) \in ExecutionState
            /\ Finalize(st[p]).status \in {"completed", "failed"}
        BY <1>0, EndTypes DEF Finalize, ExecutionState
      <4> QED BY <3>1, <4>1 DEF DrainFinalize, Leave
    <3>2. CASE EndFailed(p)
      <4>1. /\ [store.s EXCEPT !.status = "failed"] \in ExecutionState
            /\ [store.s EXCEPT !.status = "failed"].status = "failed"
        BY <1>0, EndTypes DEF ExecutionState
      <4> QED BY <3>2, <4>1 DEF EndFailed, Leave
    <3> QED BY <1>2, <3>1, <3>2
  <2>2. /\ lock' = NoProc /\ UNCHANGED <<phase, runId>>
        /\ ended' = [ended EXCEPT ![p] = TRUE]
        /\ \A t \in Tasks : phase[p][t] = "none"
    BY <1>2, NothingTracked DEF DrainFinalize, EndFailed, Leave, slots
  <2>3. how \in Ended \ {"yielded"}
    BY DEF Ended
  <2>4. PartedRuns' = PartedRuns
    BY <1>0, <2>1, <2>2, <2>3, NoneParts
  <2>5. [Lifecycle!Next]_(Lifecycle!vars) /\ store'.id = store.id
    BY <1>0, <2>1, <2>2, <2>4, RecordEnd
  <2>6. ended'[p] /\ \A q \in Procs \ {p} : ended'[q] = ended[q]
    BY <2>2 DEF TypeOK
  <2>7. Ownership'
    BY <1>0, <2>1, <2>2, <2>3, <2>5, <2>6, LeaveSteps
  <2>8. WriterHolds
    BY <1>a, <2>1, <2>2, <2>6, HolderAlone
  <2> QED BY <2>5, <2>7, <2>8 DEF Permitted
<1> QED BY <1>1, <1>2

-----------------------------------------------------------------------------
(* The theorems                                                            *)

LEMMA InitOwnership == Init => Ownership /\ PartedRuns = {}
<1> SUFFICES ASSUME Init PROVE Ownership /\ PartedRuns = {}
  OBVIOUS
<1>1. \A p \in Procs : pc[p] = "idle" /\ ~Active(p) /\ ~ended[p] /\ store.id # p
  BY Locations, RunAssumption DEF Init, Active, RunAssumption
<1>2. \A p \in Procs : \A t \in Tasks : phase[p][t] = "none"
  BY DEF Init
<1>3. \A p \in Procs : ~Parted(p)
  BY <1>1 DEF Parted
<1> QED BY <1>1, <1>2, <1>3 DEF Ownership, ActiveOwnsStore, PartedRuns

LEMMA NextOwnership ==
  ASSUME TypeOK, Ownership, [Next]_vars
  PROVE  Ownership' /\ Permitted
<1>1. CASE UNCHANGED <<store, lock, pc, st, phase, ended, aborted, runId>>
  <2>1. \A q \in Procs : Active(q)' = Active(q) /\ Parted(q)' = Parted(q)
    BY <1>1 DEF Active, Parted
  <2>2. \A q \in Procs : EndedLate(q) => EndedLate(q)'
    BY <1>1, <2>1, StaysEndedLate
  <2>3. ActiveOwnsStore'
    BY <1>1, <2>1, <2>2 DEF Ownership, ActiveOwnsStore
  <2>4. Ownership'
    BY <1>1, <2>1, <2>3 DEF Ownership
  <2>5. PartedRuns' = PartedRuns
    BY <1>1, <2>1, SameParted
  <2> QED BY <1>1, <2>4, <2>5 DEF Permitted, WriterHolds, Lifecycle!vars
<1>2. ASSUME NEW i \in Inputs, NEW v \in Values, SetInput(i, v)
      PROVE  Ownership' /\ Permitted
  BY <1>1, <1>2 DEF SetInput, slots, flags
<1>3. CASE UNCHANGED vars
  BY <1>1, <1>3 DEF vars, durable, slots, flags
<1>4. ASSUME NEW p \in Procs, LoopStep(p)
      PROVE  Ownership' /\ Permitted
  BY <1>4, QuietSteps, QuietStep, YieldSteps, PartingSteps, EndSteps DEF LoopStep
<1> QED BY <1>2, <1>3, <1>4, QuietSteps, QuietStep, BeginSteps, CancelSteps, EndSteps DEF Next

LEMMA AlwaysOwned == Spec => [](TypeOK /\ Ownership)
<1>1. Init => TypeOK /\ Ownership
  BY InitType, InitOwnership
<1>2. TypeOK /\ Ownership /\ [Next]_vars => (TypeOK /\ Ownership)'
  BY NextType, NextOwnership
<1> QED BY <1>1, <1>2, PTL DEF Spec

\* While a run is active its process holds the dataflow lock, no two processes
\* run the workspace, and the store holds the run as running until its end is
\* recorded: by the run, or by a cancel that reached a process as it yielded.
THEOREM ActiveOwns == Spec => []ActiveOwnsStore
<1>1. Ownership => ActiveOwnsStore
  BY DEF Ownership
<1> QED BY <1>1, AlwaysOwned, PTL

\* The store changes only in a step of the process that holds the lock, takes
\* it or lets go of it, or in the late end of a cancel that reached a process
\* as it yielded: no handler of a yielded run writes over its checkpoint.
THEOREM HolderWrites == Spec => StoreByHolder
<1>1. TypeOK /\ Ownership /\ [Next]_vars => [WriterHolds]_vars
  BY NextOwnership DEF Permitted
<1> QED BY <1>1, AlwaysOwned, PTL DEF Spec, StoreByHolder, WriterHolds

\* The orchestrator implements RunLifecycle: one holder at a time, a yield or a
\* crash leaves the run to be resumed, a run's end is recorded once, by its
\* holder or by a late cancel of a run that was yielded.
THEOREM LifecycleRefined == Spec => FollowsLifecycle
<1>1. Init => Lifecycle!Init
  BY InitOwnership DEF Init, Lifecycle!Init
<1>2. TypeOK /\ Ownership /\ [Next]_vars => [Lifecycle!Next]_(Lifecycle!vars)
  BY NextOwnership DEF Permitted
<1> QED BY <1>1, <1>2, AlwaysOwned, PTL DEF Spec, FollowsLifecycle, Lifecycle!Spec
=============================================================================
