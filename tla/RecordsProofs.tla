---------------------------- MODULE RecordsProofs ----------------------------
(***************************************************************************)
(* Proofs, for any number of calls, keys, packages and deploys, that a     *)
(* record keeps its types, applies a keyed mutation once, keeps its index  *)
(* in step with its rows, is atomic to its clients, and what the chain of  *)
(* its commits keeps: every commit its ref names, and states that have had *)
(* the migrations the ref says.                                            *)
(***************************************************************************)
EXTENDS Records, Induction, TLAPS

-----------------------------------------------------------------------------
(* The inductive invariant                                                 *)

\* An index is over the rows beside it.
Sound(state) == state.index # NoIndex => state.indexed = state.rows

Vector(r) ==
  /\ ~r.held => r = NoRef
  /\ r.idem = NoKey <=> r.idemCommit = 0
  /\ Sound(r.state)

Vectors ==
  /\ Vector(ref) /\ Vector(deploy.prior)
  /\ \A h \in 1..Len(commits) : Sound(commits[h].state)

\* What a call in flight read is what its conditional write finds.
InStep(c) ==
  LET at == call[c]
  IN /\ deploy.at = "none" /\ package # NoPackage
     /\ at.ask.op = "mutate" <=> c \in Calls
     /\ c \in Operators => at.ask.op \in {"rollback", "restore", "init"}
     /\ at.ask.target <= Len(commits)
     /\ at.revision <= revision
     /\ at.at = "running" =>
          /\ at.revision = revision => at.seen = ref
          /\ at.ask.op = "init" <=> ~at.seen.held
          /\ at.ask.op = "mutate" => KeyOf[c] = NoKey \/ at.seen.idem # KeyOf[c]
          /\ at.ask.expected # 0 => at.seen.head = at.ask.expected

CallsInStep ==
  /\ \A c \in InFlight : InStep(c)
  /\ \A c \in Calls : call[c].at # "done" => answer[c] = 0

\* A deploy takes up the record it planned for.
DeployInStep ==
  /\ deploy.at # "none" => deploy.package # NoPackage
  /\ deploy.at = "planned" => deploy.prior = ref
  /\ deploy.at = "written" => ref = Unversioned(deploy.package)
  /\ deploy.at \in {"planned", "wiped", "written"} =>
       /\ deploy.action \in {"mint", "unassigned"} <=> ~deploy.prior.held
       /\ deploy.action = "unassigned" => ~deploy.package.initial
       /\ deploy.action = "migrate" => deploy.prior.schema < deploy.package.chain
       /\ deploy.action # "none"

IndexInStep ==
  /\ ref.held /\ deploy.at \in {"none", "planned"} => package # NoPackage /\ ref.state.index = package.index
  /\ ref.held /\ deploy.at = "indexed" => ref.state.index = deploy.package.index

\* The last mutation's key is the ref's.
LastKeyed ==
  applied # <<>> =>
    LET last == KeyOf[applied[Len(applied)]] IN last # NoKey => Standing.idem = last

IInv ==
  /\ TypeOK /\ Vectors /\ CallsInStep /\ DeployInStep /\ IndexInStep /\ LastKeyed /\ AppliedOnce

-----------------------------------------------------------------------------
(* Helpers                                                                 *)

CallRecords == [at: {"idle", "running", "retry", "done"}, seen: Refs, revision: Nat, ask: Asks]
DeployRecords ==
  [at: {"none", "planned", "wiped", "written", "committed", "indexed"},
   package: Packages \union {NoPackage},
   action: {"none", "mint", "unassigned", "keep", "migrate", "reset", "unassign"}, prior: Refs]

LEMMA Types ==
  TypeOK <=>
    /\ ref \in Refs /\ revision \in Nat /\ commits \in Seq(Commits)
    /\ call \in [Callers -> CallRecords] /\ answer \in [Calls -> Nat] /\ applied \in Seq(Calls)
    /\ package \in Packages \union {NoPackage} /\ deploy \in DeployRecords /\ deploys \in 0..MaxDeploys
    /\ (ref.idem = NoKey <=> ref.idemCommit = 0)
BY DEF TypeOK, CallRecords, DeployRecords

LEMMA FreshState ==
  ASSUME NEW rows \in SUBSET Calls, NEW steps \in Nat
  PROVE  Fresh(rows, steps) \in States /\ Sound(Fresh(rows, steps)) /\ Fresh(rows, steps).rows = rows
BY DEF Fresh, States, Indexes, Sound

LEMMA NoRefType == NoRef \in Refs /\ Vector(NoRef) /\ NoRef.state.rows = {}
<1>1. Fresh({}, 0) \in States /\ Sound(Fresh({}, 0)) /\ Fresh({}, 0).rows = {}
  BY FreshState
<1> QED BY <1>1 DEF NoRef, Refs, Keys, Vector

LEMMA PackageType ==
  ASSUME NEW p \in Packages
  PROVE  p.chain \in Nat /\ p.initial \in BOOLEAN /\ p.index \in Indexes /\ p # NoPackage
BY RecordsAssumption DEF RecordsAssumption, Indexes

LEMMA IndexedState ==
  ASSUME NEW state \in States, NEW index \in Indexes, Sound(state)
  PROVE  /\ Indexed(state, index) \in States /\ Sound(Indexed(state, index))
         /\ Indexed(state, index).index = index /\ Indexed(state, index).rows = state.rows
BY DEF Indexed, States, Sound

LEMMA Committed ==
  ASSUME TypeOK, NEW parent \in Nat, NEW state \in States, NEW kind \in Kinds
  PROVE  /\ Commit(parent, state, kind) \in Seq(Commits)
         /\ Len(Commit(parent, state, kind)) = Newest
         /\ \A h \in 1..Len(commits) : Commit(parent, state, kind)[h] = commits[h]
         /\ Commit(parent, state, kind)[Newest] = [parent |-> parent, state |-> state, kind |-> kind]
<1>1. commits \in Seq(Commits) /\ [parent |-> parent, state |-> state, kind |-> kind] \in Commits
  BY DEF TypeOK, Commits
<1> QED BY <1>1 DEF Commit, Newest

LEMMA CommitState ==
  ASSUME TypeOK, NEW h \in 1..Len(commits)
  PROVE  commits[h].state \in States
<1>1. commits[h] \in Commits
  BY DEF TypeOK
<1> QED BY <1>1 DEF Commits

LEMMA TargetState ==
  ASSUME TypeOK, Vectors, package \in Packages, NEW ask \in Asks, ask.target <= Len(commits)
  PROVE  Target(ask) \in States /\ Sound(Target(ask))
<1>1. ask.target \in Nat
  BY DEF Asks
<1>2. CASE ask.target = 0
  BY <1>2, FreshState, PackageType DEF Target
<1>3. CASE ask.target # 0
  <2>1. ask.target \in 1..Len(commits)
    BY <1>1, <1>3 DEF TypeOK
  <2> QED BY <2>1, <1>3, CommitState DEF Target, Vectors
<1> QED BY <1>2, <1>3

-----------------------------------------------------------------------------
(* The calls                                                               *)

\* What a call in flight has, by its step.
LEMMA Flying ==
  ASSUME IInv, NEW c \in Callers, call[c].at \in {"running", "retry"}
  PROVE  /\ InStep(c) /\ package \in Packages /\ deploy.at = "none" /\ Standing = ref
         /\ call[c] \in CallRecords
<1>1. call[c] \in CallRecords /\ package \in Packages \union {NoPackage}
  BY Types DEF IInv
<1>2. InStep(c)
  BY DEF IInv, CallsInStep, InFlight
<1> QED BY <1>1, <1>2 DEF InStep, Standing

\* Whatever a conditional write commits, it commits over the ref as it stands.
WritesOver(c, parent, state, kind, next) ==
  /\ parent \in {0, ref.head} /\ state \in States /\ kind \in Kinds /\ next \in Refs
  /\ Sound(state) /\ state.index = package.index
  /\ next.idem = NoKey <=> next.idemCommit = 0
  /\ Write(c, parent, state, kind, next)

LEMMA MutateOver ==
  ASSUME IInv, NEW c \in Callers, MutateWrite(c)
  PROVE  /\ c \in Calls /\ ref.held /\ (KeyOf[c] = NoKey \/ ref.idem # KeyOf[c])
         /\ applied' = Append(applied, c)
         /\ \E parent, state, kind, next :
              /\ WritesOver(c, parent, state, kind, next)
              /\ state.rows = ref.state.rows \union {c} /\ next.idem = KeyOf[c]
<1>1. call[c].at = "running" /\ call[c].ask.op = "mutate" /\ Unmoved(c)
  BY DEF MutateWrite, Running, Write
<1>2. InStep(c) /\ package \in Packages /\ Standing = ref /\ deploy.at = "none"
  BY <1>1, Flying
<1>3. call[c].seen = ref /\ c \in Calls /\ ref.held /\ (KeyOf[c] = NoKey \/ ref.idem # KeyOf[c])
  BY <1>1, <1>2 DEF InStep, Unmoved
<1>4. ref \in Refs /\ commits \in Seq(Commits) /\ Sound(ref.state) /\ KeyOf[c] \in Keys /\ ref.state \in States
  BY <1>3, Types DEF IInv, Vectors, Vector, Keys, Refs
<1>5. ref.state.index = package.index
  BY <1>3, <1>2 DEF IInv, IndexInStep
<1> DEFINE state == [ref.state EXCEPT !.rows = ref.state.rows \union {c},
                       !.indexed = IF ref.state.index = NoIndex THEN {} ELSE ref.state.indexed \union {c}]
           next == [ref EXCEPT !.idem = KeyOf[c], !.idemCommit = IF KeyOf[c] # NoKey THEN Newest ELSE 0]
<1>6. state \in States /\ Sound(state) /\ state.index = package.index /\ state.rows = ref.state.rows \union {c}
  BY <1>3, <1>4, <1>5 DEF States, Sound
<1>7. Newest \in Nat \ {0}
  BY <1>4 DEF Newest
<1>8. next \in Refs /\ next.idem = KeyOf[c] /\ (next.idem = NoKey <=> next.idemCommit = 0)
  BY <1>4, <1>7 DEF Refs
<1>9. Write(c, ref.head, state, "mutation", next) /\ applied' = Append(applied, c)
  BY <1>3 DEF MutateWrite
<1>10. WritesOver(c, ref.head, state, "mutation", next)
  BY <1>6, <1>8, <1>9 DEF WritesOver, Kinds
<1> HIDE DEF state, next
<1> QED BY <1>3, <1>6, <1>8, <1>9, <1>10

\* A reindex or a compaction commits the rows as they are.
LEMMA KeepOver ==
  ASSUME IInv, NEW c \in Callers, ReindexWrite(c) \/ CompactWrite(c)
  PROVE  /\ ref.held /\ UNCHANGED applied /\ c \notin Calls
         /\ \E parent, state, kind, next :
              /\ WritesOver(c, parent, state, kind, next)
              /\ state.rows = ref.state.rows /\ next.idem = ref.idem
         /\ c \notin Operators
<1>1. call[c].at = "running" /\ call[c].ask.op \in {"reindex", "compact"} /\ Unmoved(c)
  BY DEF ReindexWrite, CompactWrite, Running, Write
<1>2. InStep(c) /\ package \in Packages /\ Standing = ref /\ deploy.at = "none"
  BY <1>1, Flying
<1>3. call[c].seen = ref /\ c \notin Calls /\ ref.held /\ c \notin Operators
  BY <1>1, <1>2 DEF InStep, Unmoved
<1>4. ref \in Refs /\ commits \in Seq(Commits) /\ Vector(ref) /\ ref.state \in States /\ package.index \in Indexes
  BY <1>2, Types, PackageType DEF IInv, Vectors, Refs
<1>5. Newest \in Nat \ {0} /\ ref.state.index = package.index /\ Sound(ref.state)
  BY <1>2, <1>3, <1>4 DEF Newest, IInv, IndexInStep, Vector
<1>6. CASE ReindexWrite(c)
  <2> DEFINE state == [ref.state EXCEPT !.index = package.index,
                         !.indexed = IF package.index = NoIndex THEN {} ELSE ref.state.rows]
  <2>1. state \in States /\ Sound(state) /\ state.index = package.index /\ state.rows = ref.state.rows
    BY <1>4 DEF States, Sound
  <2>2. Write(c, ref.head, state, "$reindex", ref) /\ UNCHANGED applied
    BY <1>3, <1>6 DEF ReindexWrite
  <2>3. WritesOver(c, ref.head, state, "$reindex", ref)
    BY <2>1, <2>2, <1>4 DEF WritesOver, Kinds, Vector
  <2> HIDE DEF state
  <2> QED BY <2>1, <2>2, <2>3, <1>3
<1>7. CASE CompactWrite(c)
  <2> DEFINE next == [ref EXCEPT !.idemCommit = IF ref.idem # NoKey THEN Newest ELSE 0, !.migrated = {}]
  <2>1. next \in Refs /\ next.idem = ref.idem /\ (next.idem = NoKey <=> next.idemCommit = 0)
    BY <1>4, <1>5 DEF Refs
  <2>2. Write(c, 0, ref.state, "$compact", next) /\ UNCHANGED applied
    BY <1>3, <1>7 DEF CompactWrite
  <2>3. WritesOver(c, 0, ref.state, "$compact", next)
    BY <2>1, <2>2, <1>4, <1>5 DEF WritesOver, Kinds
  <2> HIDE DEF next
  <2> QED BY <2>1, <2>2, <2>3, <1>3
<1> QED BY <1>6, <1>7

\* An operator's commit brings back a state that was committed, or one from
\* elsewhere, over the head the caller expected.
LEMMA OperatorOver ==
  ASSUME IInv, NEW c \in Callers, SystemWrite(c) \/ InitWrite(c)
  PROVE  /\ UNCHANGED applied /\ c \notin Calls /\ call[c].at = "running"
         /\ \E parent, state, kind, next :
              /\ WritesOver(c, parent, state, kind, next)
              /\ state.rows = Target(call[c].ask).rows /\ next.idem = ref.idem
              /\ call[c].ask.expected # 0 => parent = call[c].ask.expected
         /\ call[c].ask \in Asks /\ call[c].ask.target <= Len(commits) /\ package \in Packages
<1>1. call[c].at = "running" /\ call[c].ask.op \in {"rollback", "restore", "init"} /\ Unmoved(c)
  BY DEF SystemWrite, InitWrite, Running, Write
<1>2. InStep(c) /\ package \in Packages /\ Standing = ref /\ deploy.at = "none" /\ call[c] \in CallRecords
  BY <1>1, Flying
<1>3. call[c].seen = ref /\ c \notin Calls /\ call[c].ask \in Asks /\ call[c].ask.target <= Len(commits)
  BY <1>1, <1>2 DEF InStep, Unmoved, CallRecords
<1>4. ref \in Refs /\ commits \in Seq(Commits) /\ Vector(ref) /\ package.index \in Indexes /\ package.chain \in Nat
  BY <1>2, Types, PackageType DEF IInv, Vectors
<1>5. Newest \in Nat \ {0} /\ Target(call[c].ask) \in States /\ Sound(Target(call[c].ask))
  BY <1>2, <1>3, <1>4, TargetState DEF Newest, IInv
<1> DEFINE state == Indexed(Target(call[c].ask), package.index)
<1>6. state \in States /\ Sound(state) /\ state.index = package.index /\ state.rows = Target(call[c].ask).rows
  BY <1>4, <1>5, IndexedState
<1> HIDE DEF state
<1>7. CASE SystemWrite(c)
  <2>1. PICK kind \in {"$rollback", "$restore"} : Write(c, ref.head, state, kind, ref)
    BY <1>3, <1>7 DEF SystemWrite, state
  <2>2. WritesOver(c, ref.head, state, kind, ref)
    BY <2>1, <1>6, <1>4 DEF WritesOver, Kinds, Vector
  <2>3. UNCHANGED applied /\ (call[c].ask.expected # 0 => ref.head = call[c].ask.expected)
    BY <1>7, <1>1, <1>2, <1>3 DEF SystemWrite, InStep
  <2> QED BY <2>2, <2>3, <1>1, <1>2, <1>3, <1>6
<1>8. CASE InitWrite(c)
  <2> DEFINE next == [NoRef EXCEPT !.schema = package.chain,
                        !.migrated = IF package.chain = 0 THEN {} ELSE {Newest}]
  <2>1. ref = NoRef
    BY <1>1, <1>2, <1>3, <1>4, <1>8 DEF InStep, Vector, InitWrite, Running
  <2>2. NoRef \in Refs /\ Vector(NoRef)
    BY NoRefType
  <2>3. next \in Refs /\ next.idem = ref.idem /\ (next.idem = NoKey <=> next.idemCommit = 0)
    BY <2>1, <2>2, <1>4, <1>5 DEF Refs, NoRef
  <2>4. Write(c, 0, state, "$init", next) /\ UNCHANGED applied
    BY <1>8 DEF InitWrite, state
  <2>5. WritesOver(c, 0, state, "$init", next)
    BY <2>3, <2>4, <1>6 DEF WritesOver, Kinds
  <2>6. call[c].ask.expected = 0
    BY <1>1, <1>2, <1>3, <2>1 DEF InStep, NoRef
  <2> HIDE DEF next
  <2> QED BY <2>3, <2>4, <2>5, <2>6, <1>1, <1>2, <1>3, <1>6
<1> QED BY <1>7, <1>8

LEMMA WriteEffect ==
  ASSUME TypeOK, NEW c \in Callers, NEW parent, NEW state, NEW kind, NEW next,
         WritesOver(c, parent, state, kind, next)
  PROVE  /\ commits' \in Seq(Commits) /\ Len(commits') = Newest
         /\ \A h \in 1..Len(commits) : commits'[h] = commits[h]
         /\ commits'[Newest] = [parent |-> parent, state |-> state, kind |-> kind]
         /\ ref' \in Refs /\ ref'.held /\ ref'.state = state /\ ref'.idem = next.idem
         /\ ref'.idemCommit = next.idemCommit
         /\ revision' = revision + 1
         /\ call' \in [Callers -> CallRecords] /\ call'[c].at = "done"
         /\ \A d \in Callers \ {c} : call'[d] = call[d]
         /\ answer' \in [Calls -> Nat] /\ \A d \in Calls \ {c} : answer'[d] = answer[d]
         /\ c \in Calls => answer'[c] = Newest
         /\ UNCHANGED <<package, deploy, deploys>>
<1>1. parent \in Nat
  BY DEF WritesOver, TypeOK, Refs
<1>2. commits' = Commit(parent, state, kind) /\ revision' = revision + 1 /\ UNCHANGED <<package, deploy, deploys>>
  BY DEF WritesOver, Write
<1>3. commits \in Seq(Commits) /\ call \in [Callers -> CallRecords] /\ answer \in [Calls -> Nat]
  BY Types
<1>4. Newest \in Nat
  BY <1>3 DEF Newest
<1>5. ref' \in Refs /\ ref'.held /\ ref'.state = state /\ ref'.idem = next.idem /\ ref'.idemCommit = next.idemCommit
  BY <1>4 DEF WritesOver, Write, Refs
<1>6. Done \in CallRecords /\ Done.at = "done"
  BY NoRefType DEF Done, Idle, CallRecords, NoAsk, Asks, Ops
<1>7. call' = [call EXCEPT ![c] = Done]
  BY DEF WritesOver, Write
<1>8. answer' = IF c \in Calls THEN [answer EXCEPT ![c] = Newest] ELSE answer
  BY DEF WritesOver, Write
<1>9. commits' \in Seq(Commits) /\ Len(commits') = Newest
      /\ (\A h \in 1..Len(commits) : commits'[h] = commits[h])
      /\ commits'[Newest] = [parent |-> parent, state |-> state, kind |-> kind]
  BY <1>1, <1>2, Committed DEF WritesOver
<1> QED BY <1>2, <1>3, <1>4, <1>5, <1>6, <1>7, <1>8, <1>9

\* A call's write leaves every other call's read behind.
LEMMA WritePreserves ==
  ASSUME IInv, NEW c \in Callers, call[c].at = "running", NEW parent, NEW state, NEW kind, NEW next,
         WritesOver(c, parent, state, kind, next), applied' \in Seq(Calls)
  PROVE  TypeOK' /\ Vectors' /\ CallsInStep' /\ DeployInStep' /\ IndexInStep' /\ Standing' = ref'
<1>1. TypeOK /\ revision \in Nat /\ commits \in Seq(Commits) /\ call \in [Callers -> CallRecords]
  BY Types DEF IInv
<1>0. /\ \A h \in 1..Len(commits) : commits'[h] = commits[h]
      /\ commits'[Newest] = [parent |-> parent, state |-> state, kind |-> kind]
      /\ ref'.held /\ ref'.state = state /\ ref'.idem = next.idem /\ ref'.idemCommit = next.idemCommit
      /\ call'[c].at = "done" /\ (\A d \in Callers \ {c} : call'[d] = call[d])
      /\ (\A d \in Calls \ {c} : answer'[d] = answer[d])
  BY <1>1, WriteEffect
<1>2. package \in Packages /\ deploy.at = "none" /\ deploys \in 0..MaxDeploys /\ deploy \in DeployRecords
  BY Flying, Types DEF IInv
<1>3. UNCHANGED <<package, deploy, deploys>> /\ revision' = revision + 1 /\ Len(commits') = Len(commits) + 1
  BY <1>1, WriteEffect DEF Newest
<1>4. TypeOK'
  <2>1. ref' \in Refs /\ commits' \in Seq(Commits) /\ call' \in [Callers -> CallRecords] /\ answer' \in [Calls -> Nat]
        /\ (ref'.idem = NoKey <=> ref'.idemCommit = 0)
    BY <1>1, WriteEffect DEF WritesOver
  <2> QED BY <2>1, <1>1, <1>2, <1>3 DEF TypeOK, CallRecords, DeployRecords
<1>5. Vectors'
  <2>1. \A h \in 1..Len(commits') : Sound(commits'[h].state)
    <3> SUFFICES ASSUME NEW h \in 1..Len(commits') PROVE Sound(commits'[h].state)
      OBVIOUS
    <3>1. CASE h = Newest
      <4>1. commits'[Newest] = [parent |-> parent, state |-> state, kind |-> kind]
        BY <1>0
      <4>2. commits'[h].state = state
        BY <3>1, <4>1
      <4> QED BY <4>2 DEF WritesOver
    <3>2. CASE h # Newest
      <4>1. h \in 1..Len(commits)
        BY <3>2, <1>1, <1>3 DEF Newest
      <4>2. commits'[h] = commits[h]
        BY <4>1, <1>0
      <4> QED BY <4>1, <4>2 DEF IInv, Vectors
    <3> QED BY <3>1, <3>2
  <2>2. Vector(ref')
    <3>1. ref'.held /\ ref'.state = state /\ ref'.idem = next.idem /\ ref'.idemCommit = next.idemCommit
      BY <1>0
    <3> QED BY <3>1 DEF WritesOver, Vector
  <2>3. Vector(deploy'.prior)
    BY <1>3 DEF IInv, Vectors
  <2> QED BY <2>1, <2>2, <2>3 DEF Vectors, Sound, Vector
<1>6. CallsInStep'
  <2>1. \A d \in Callers : call'[d].at \in {"running", "retry"} => d # c /\ call'[d] = call[d]
    BY <1>0
  <2>2. ASSUME NEW d \in Callers, call'[d].at \in {"running", "retry"} PROVE InStep(d)'
    <3>1. d # c /\ call'[d] = call[d] /\ call[d].at \in {"running", "retry"}
      BY <2>1, <2>2
    <3>2. InStep(d) /\ call[d] \in CallRecords
      BY <3>1, Flying
    <3>3. call[d].ask.target <= Len(commits') /\ call[d].revision <= revision' /\ call[d].revision # revision'
      BY <3>2, <1>1, <1>3 DEF InStep, CallRecords, Asks
    <3> QED BY <3>1, <3>2, <3>3, <1>3 DEF InStep
  <2>3. ASSUME NEW d \in Calls, call'[d].at # "done" PROVE answer'[d] = 0
    <3>1. d # c /\ d \in Callers
      BY <2>3, <1>0 DEF Callers
    <3>2. call'[d] = call[d]
      BY <3>1, <1>0
    <3>3. answer'[d] = answer[d]
      BY <3>1, <1>0
    <3> QED BY <2>3, <3>2, <3>3 DEF IInv, CallsInStep
  <2> QED BY <2>2, <2>3 DEF CallsInStep, InFlight
<1>7. DeployInStep'
  BY <1>2, <1>3 DEF DeployInStep
<1>8. IndexInStep'
  <2>1. ref'.state.index = package.index /\ package # NoPackage
    BY <1>1, <1>2, PackageType, WriteEffect DEF WritesOver
  <2> QED BY <2>1, <1>2, <1>3 DEF IndexInStep
<1>9. Standing' = ref'
  BY <1>2, <1>3 DEF Standing
<1> QED BY <1>4, <1>5, <1>6, <1>7, <1>8, <1>9

\* A step that moves only calls.
LEMMA ReadPreserves ==
  ASSUME IInv, NEW c \in Callers,
         \/ MutateRead(c) \/ MutateRepeat(c) \/ KeepRead(c) \/ SystemRead(c) \/ Conflict(c) \/ Stop(c)
  PROVE  /\ TypeOK' /\ Vectors' /\ CallsInStep' /\ DeployInStep' /\ IndexInStep'
         /\ UNCHANGED <<ref, commits, applied, deploy, package>>
         /\ \E called \in CallRecords : call' = [call EXCEPT ![c] = called]
<1>1. UNCHANGED <<ref, revision, commits, applied, package, deploy, deploys>>
  BY DEF MutateRead, MutateRepeat, KeepRead, SystemRead, Conflict, Stop, Saw
<1>2. ref \in Refs /\ revision \in Nat /\ call \in [Callers -> CallRecords] /\ answer \in [Calls -> Nat]
      /\ ref.idemCommit \in Nat /\ commits \in Seq(Commits) /\ package \in Packages \union {NoPackage}
      /\ ref.head \in Nat
  BY Types DEF IInv, Refs
<1>3. ASSUME NEW ask \in Asks, Saw(c, ask), MayRead(c), ask.target <= Len(commits),
             ask.op = "mutate" <=> c \in Calls,
             c \in Operators => ask.op \in {"rollback", "restore", "init"},
             ask.op = "init" <=> ~ref.held,
             ask.op = "mutate" => KeyOf[c] = NoKey \/ ref.idem # KeyOf[c],
             ask.expected # 0 => ref.head = ask.expected
      PROVE  \E called \in CallRecords :
               /\ call' = [call EXCEPT ![c] = called] /\ UNCHANGED answer /\ called.at = "running"
               /\ InStep(c)'
  <2> DEFINE called == [at |-> "running", seen |-> ref, revision |-> revision, ask |-> ask]
  <2>1. called \in CallRecords /\ called.at = "running"
    BY <1>2 DEF CallRecords
  <2>2. call' = [call EXCEPT ![c] = called] /\ UNCHANGED answer
    BY <1>3 DEF Saw
  <2>3. call'[c] = called
    BY <1>2, <2>2
  <2>4. deploy.at = "none" /\ package # NoPackage
    BY <1>3, Flying, PackageType DEF MayRead
  <2>5. InStep(c)'
    BY <2>3, <2>4, <1>1, <1>2, <1>3 DEF InStep
  <2> QED BY <2>1, <2>2, <2>5
<1>4. ASSUME NEW called \in CallRecords, call' = [call EXCEPT ![c] = called],
             called.at \in {"running", "retry"} => InStep(c)',
             answer' \in [Calls -> Nat], \A d \in Calls \ {c} : answer'[d] = answer[d],
             c \in Calls /\ called.at # "done" => answer'[c] = 0
      PROVE  TypeOK' /\ Vectors' /\ CallsInStep' /\ DeployInStep' /\ IndexInStep'
  <2>1. call' \in [Callers -> CallRecords] /\ call'[c] = called /\ \A d \in Callers \ {c} : call'[d] = call[d]
    BY <1>2, <1>4
  <2>2. TypeOK'
    BY <2>1, <1>1, <1>4 DEF IInv, TypeOK, CallRecords
  <2>3. Vectors' /\ DeployInStep' /\ IndexInStep'
    BY <1>1 DEF IInv, Vectors, Vector, Sound, DeployInStep, IndexInStep, Unversioned, NoRef, Fresh
  <2>4. ASSUME NEW d \in Callers, call'[d].at \in {"running", "retry"} PROVE InStep(d)'
    <3>1. CASE d = c
      BY <3>1, <2>1, <2>4, <1>4
    <3>2. CASE d # c
      <4>1. call'[d] = call[d] /\ InStep(d)
        BY <3>2, <2>1, <2>4, Flying
      <4> QED BY <4>1, <1>1 DEF InStep
    <3> QED BY <3>1, <3>2
  <2>5. ASSUME NEW d \in Calls, call'[d].at # "done" PROVE answer'[d] = 0
    <3>1. CASE d = c
      BY <3>1, <2>1, <2>5, <1>4
    <3>2. CASE d # c
      BY <3>2, <2>1, <2>5, <1>4 DEF IInv, CallsInStep, Callers
    <3> QED BY <3>1, <3>2
  <2> QED BY <2>2, <2>3, <2>4, <2>5 DEF CallsInStep, InFlight
<1>5. c \in Calls /\ call[c].at # "done" => answer[c] = 0
  BY DEF IInv, CallsInStep
<1>6. MayRead(c) => call[c].at # "done"
  BY DEF MayRead
<1>7. CASE MutateRead(c)
  <2>1. NoAsk \in Asks /\ NoAsk.op = "mutate" /\ NoAsk.expected = 0 /\ NoAsk.target = 0
    BY DEF NoAsk, Asks, Ops
  <2>2. KeyOf[c] = NoKey \/ ref.idem # KeyOf[c]
    BY <1>7 DEF MutateRead, Repeats, IInv, Vectors, Vector
  <2>3. Saw(c, NoAsk) /\ MayRead(c) /\ c \in Calls /\ ref.held /\ c \notin Operators
    BY <1>7, RecordsAssumption DEF MutateRead, RecordsAssumption
  <2>4. Len(commits) \in Nat
    BY <1>2
  <2> QED BY <2>1, <2>2, <2>3, <2>4, <1>1, <1>2, <1>3, <1>4, <1>5, <1>6
<1>8. CASE KeepRead(c)
  <2>1. PICK op \in {"reindex", "compact"} : Saw(c, [op |-> op, target |-> 0, expected |-> 0])
    BY <1>8 DEF KeepRead
  <2>2. [op |-> op, target |-> 0, expected |-> 0] \in Asks
    BY DEF Asks, Ops
  <2>3. MayRead(c) /\ ref.held /\ c \notin Calls /\ c \notin Operators
    BY <1>8, RecordsAssumption DEF KeepRead, RecordsAssumption
  <2>4. Len(commits) \in Nat
    BY <1>2
  <2> QED BY <2>1, <2>2, <2>3, <2>4, <1>1, <1>2, <1>3, <1>4, <1>5, <1>6
<1>9. CASE SystemRead(c)
  <2>1. MayRead(c) /\ c \notin Calls
    BY <1>9, RecordsAssumption DEF SystemRead, RecordsAssumption
  <2>2. PICK ask \in IF call[c].at = "retry" THEN {call[c].ask} ELSE SystemAsks : SystemTarget(ask) /\ Saw(c, ask)
    BY <1>9 DEF SystemRead
  <2>3. ask \in Asks /\ ask.target <= Len(commits)
    <3>1. CASE call[c].at = "retry"
      BY <3>1, <2>2, Flying DEF InStep, CallRecords
    <3>2. CASE call[c].at # "retry"
      BY <3>2, <2>2, <1>2 DEF SystemAsks, Asks, Ops
    <3> QED BY <3>1, <3>2
  <2>4. ask.op \in {"rollback", "restore", "init"} /\ (ask.op = "init" <=> ~ref.held) /\ ask.expected \in {0, ref.head}
    BY <2>2 DEF SystemTarget
  <2> QED BY <2>1, <2>2, <2>3, <2>4, <1>1, <1>2, <1>3, <1>4, <1>5, <1>6
<1>10. CASE Conflict(c)
  <2> DEFINE called == [call[c] EXCEPT !.at = "retry"]
  <2>1. call[c].at = "running" /\ call' = [call EXCEPT ![c] = called] /\ UNCHANGED answer
    BY <1>2, <1>10 DEF Conflict
  <2>2. called \in CallRecords /\ called.at = "retry"
    BY <1>2 DEF CallRecords
  <2>3. InStep(c)
    BY <2>1, Flying
  <2>4. InStep(c)'
    BY <2>1, <2>3, <1>1, <1>2 DEF InStep, CallRecords
  <2> HIDE DEF called
  <2> QED BY <2>1, <2>2, <2>4, <1>1, <1>2, <1>4, <1>5
<1>11. CASE MutateRepeat(c) \/ Stop(c)
  <2>1. Done \in CallRecords /\ Done.at = "done"
    BY NoRefType DEF Done, Idle, CallRecords, NoAsk, Asks, Ops
  <2>2. call' = [call EXCEPT ![c] = Done] /\ answer' \in [Calls -> Nat] /\ \A d \in Calls \ {c} : answer'[d] = answer[d]
    BY <1>2, <1>11 DEF MutateRepeat, Stop
  <2> QED BY <2>1, <2>2, <1>1, <1>4
<1> QED BY <1>7, <1>8, <1>9, <1>10, <1>11

-----------------------------------------------------------------------------
(* The deploys                                                             *)

\* No call is in flight while a deploy holds the workspace.
LEMMA Alone ==
  ASSUME IInv, deploy.at # "none"
  PROVE  /\ InFlight = {} /\ deploy \in DeployRecords /\ deploy.package \in Packages
         /\ deploy.prior \in Refs /\ Vector(deploy.prior)
<1>1. deploy \in DeployRecords
  BY Types DEF IInv
<1>2. \A c \in InFlight : FALSE
  BY DEF IInv, CallsInStep, InStep
<1> QED BY <1>1, <1>2 DEF DeployRecords, IInv, DeployInStep, Vectors

\* What a deploy's commit leaves: the record it took up, or a new start.
Kept == ref'.state.rows = deploy.prior.state.rows /\ ref'.idem = deploy.prior.idem
Restarted == ref'.state.rows = {} /\ ref'.idem = NoKey

\* The commits added, all of the rows the ref is left with.
Added ==
  /\ commits' \in Seq(Commits) /\ Len(commits') \in Nat /\ Len(commits') >= Len(commits)
  /\ \A h \in 1..Len(commits) : commits'[h] = commits[h]
  /\ \A h \in 1..Len(commits') : h > Len(commits) =>
       Sound(commits'[h].state) /\ commits'[h].state.rows = ref'.state.rows

LEMMA RootEffect ==
  ASSUME IInv, deploy.at # "none", NEW kind \in {"$init", "$reset"}, Root(kind)
  PROVE  ref' \in Refs /\ Vector(ref') /\ Restarted /\ Added
<1> DEFINE state == Fresh({}, deploy.package.chain)
<1>1. deploy.package.chain \in Nat
  BY Alone, PackageType
<1>2. state \in States /\ Sound(state) /\ state.rows = {}
  BY <1>1, FreshState
<1>3. TypeOK /\ commits \in Seq(Commits) /\ NoRef \in Refs /\ Vector(NoRef)
  BY Types, NoRefType DEF IInv
<1>4. Newest \in Nat \ {0}
  BY <1>3 DEF Newest
<1> HIDE DEF state
<1>5. commits' = Commit(0, state, kind)
  BY DEF Root, state
<1>6. commits' \in Seq(Commits) /\ Len(commits') = Newest /\ (\A h \in 1..Len(commits) : commits'[h] = commits[h])
      /\ commits'[Newest] = [parent |-> 0, state |-> state, kind |-> kind]
  <2>1. kind \in Kinds /\ 0 \in Nat
    BY DEF Kinds
  <2> QED BY <2>1, <1>2, <1>3, <1>5, Committed
<1>7. ref' = [NoRef EXCEPT !.held = TRUE, !.state = state, !.head = Newest, !.schema = deploy.package.chain,
                !.migrated = IF deploy.package.chain = 0 THEN {} ELSE {Newest}]
  BY DEF Root, state
<1>8. ref' \in Refs /\ ref'.held /\ ref'.state = state /\ ref'.idem = NoKey /\ ref'.idemCommit = 0
  BY <1>1, <1>2, <1>3, <1>4, <1>7 DEF Refs, NoRef
<1>9. Vector(ref') /\ Restarted
  BY <1>2, <1>8 DEF Vector, Restarted
<1>10. ASSUME NEW h \in 1..Len(commits'), h > Len(commits) PROVE commits'[h].state = state
  <2>1. h = Newest
    BY <1>3, <1>6, <1>10 DEF Newest
  <2> QED BY <2>1, <1>6
<1>11. Added
  BY <1>2, <1>3, <1>6, <1>8, <1>10 DEF Added, Newest
<1> QED BY <1>8, <1>9, <1>11

LEMMA KeepEffect ==
  ASSUME IInv, deploy.at # "none", deploy.prior.held, Keep
  PROVE  ref' \in Refs /\ Vector(ref') /\ Kept /\ Added
<1>1. TypeOK /\ commits \in Seq(Commits) /\ deploy.prior \in Refs /\ Vector(deploy.prior)
  BY Types, Alone DEF IInv
<1>2. CASE deploy.package = package
  <2>1. ref' = deploy.prior /\ commits' = commits
    BY <1>2 DEF Keep
  <2>2. Added
    BY <2>1, <1>1 DEF Added
  <2> QED BY <2>1, <2>2, <1>1 DEF Kept
<1>3. CASE deploy.package # package
  <2> DEFINE state == deploy.prior.state
             parent == deploy.prior.head
  <2>1. state \in States /\ Sound(state) /\ parent \in Nat
    BY <1>1 DEF Refs, Vector
  <2>2. commits' = Commit(parent, state, "$deploy") /\ ref' = [deploy.prior EXCEPT !.head = Newest]
    BY <1>3 DEF Keep
  <2>3. Newest \in Nat
    BY <1>1 DEF Newest
  <2>4. ref' \in Refs /\ ref'.held /\ ref'.state = state /\ ref'.idem = deploy.prior.idem
        /\ ref'.idemCommit = deploy.prior.idemCommit
    BY <2>2, <2>3, <1>1 DEF Refs
  <2> HIDE DEF state, parent
  <2>5. commits' \in Seq(Commits) /\ Len(commits') = Newest
        /\ (\A h \in 1..Len(commits) : commits'[h] = commits[h])
        /\ commits'[Newest] = [parent |-> parent, state |-> state, kind |-> "$deploy"]
    <3>1. "$deploy" \in Kinds
      BY DEF Kinds
    <3> QED BY <2>1, <2>2, <3>1, <1>1, Committed
  <2>6. ASSUME NEW h \in 1..Len(commits'), h > Len(commits) PROVE commits'[h].state = state
    <3>1. h = Newest
      BY <1>1, <2>5, <2>6 DEF Newest
    <3> QED BY <3>1, <2>5
  <2>7. Added
    BY <2>1, <2>4, <2>5, <2>6, <1>1 DEF Added, Newest
  <2>8. Vector(ref') /\ Kept
    BY <2>1, <2>4, <1>1 DEF Vector, Kept, state
  <2> QED BY <2>4, <2>7, <2>8
<1> QED BY <1>2, <1>3

LEMMA Joined ==
  ASSUME NEW S, NEW s \in Seq(S), NEW t \in Seq(S)
  PROVE  /\ s \o t \in Seq(S) /\ Len(s \o t) = Len(s) + Len(t)
         /\ \A h \in 1..Len(s) : (s \o t)[h] = s[h]
         /\ \A h \in 1..Len(s \o t) : h > Len(s) => (s \o t)[h] = t[h - Len(s)]
OBVIOUS

LEMMA MigrateEffect ==
  ASSUME IInv, deploy.at = "written", deploy.action = "migrate", Migrate
  PROVE  ref' \in Refs /\ Vector(ref') /\ Kept /\ Added
<1> DEFINE prior == deploy.prior
           steps == deploy.package.chain - prior.schema
           last == Len(commits) + steps
           state(i) == Fresh(prior.state.rows, prior.schema + i)
           step(i) == [parent |-> IF i = 1 THEN prior.head ELSE Len(commits) + i - 1,
                       state |-> state(i), kind |-> "$migrate"]
           tail == [i \in 1..steps |-> step(i)]
<1>1. TypeOK /\ commits \in Seq(Commits) /\ prior \in Refs /\ Vector(prior) /\ deploy.package.chain \in Nat
  BY Types, Alone, PackageType DEF IInv
<1>2. prior.schema < deploy.package.chain /\ prior.held
  BY DEF IInv, DeployInStep
<1>3. prior.schema \in Nat /\ prior.head \in Nat /\ prior.state.rows \in SUBSET Calls /\ prior.migrated \in SUBSET Nat
      /\ prior.idem \in Keys /\ prior.idemCommit \in Nat
  BY <1>1 DEF Refs, States
<1>4. steps \in Nat \ {0} /\ last \in Nat \ {0} /\ Len(commits) \in Nat
  BY <1>1, <1>2, <1>3
<1>5. \A i \in 1..steps : state(i) \in States /\ Sound(state(i)) /\ state(i).rows = prior.state.rows
  BY <1>3, <1>4, FreshState
<1>6. commits' = commits \o tail
  BY DEF Migrate
<1>7. \A i \in 1..steps : step(i) \in Commits
  <2> SUFFICES ASSUME NEW i \in 1..steps PROVE step(i) \in Commits
    OBVIOUS
  <2>1. state(i) \in States
    BY <1>5
  <2> HIDE DEF state
  <2>2. (IF i = 1 THEN prior.head ELSE Len(commits) + i - 1) \in Nat
    BY <1>3, <1>4
  <2> QED BY <2>1, <2>2 DEF Commits, Kinds
<1>8. ref' = [prior EXCEPT !.state = Fresh(prior.state.rows, deploy.package.chain), !.head = last,
                !.schema = deploy.package.chain, !.migrated = @ \union Newest..last,
                !.idemCommit = IF prior.idem # NoKey THEN last ELSE @]
  BY DEF Migrate
<1>9. Fresh(prior.state.rows, deploy.package.chain) \in States /\ Sound(Fresh(prior.state.rows, deploy.package.chain))
      /\ Fresh(prior.state.rows, deploy.package.chain).rows = prior.state.rows
  BY <1>1, <1>3, FreshState
<1>10. Newest \in Nat
  BY <1>4 DEF Newest
<1> DEFINE landed == Fresh(prior.state.rows, deploy.package.chain)
           taken == prior.migrated \union Newest..last
<1>11. taken \in SUBSET Nat
  BY <1>3, <1>4, <1>10
<1>12. ref' = [prior EXCEPT !.state = landed, !.head = last, !.schema = deploy.package.chain, !.migrated = taken,
                 !.idemCommit = IF prior.idem # NoKey THEN last ELSE @]
  BY <1>8
<1> HIDE DEF landed, taken, last
<1>13. ref' \in Refs /\ ref'.held /\ ref'.state = landed /\ ref'.idem = prior.idem
       /\ ref'.idemCommit = IF prior.idem # NoKey THEN last ELSE prior.idemCommit
  <2> HIDE DEF prior
  <2>1. landed \in States
    BY <1>9 DEF landed
  <2> QED BY <2>1, <1>1, <1>2, <1>4, <1>11, <1>12 DEF Refs
<1>14. Vector(ref') /\ Kept
  BY <1>1, <1>4, <1>9, <1>13 DEF Vector, Kept, landed
<1>15. tail \in Seq(Commits) /\ Len(tail) = steps
  <2> HIDE DEF step, steps
  <2> QED BY <1>4, <1>7
<1>16. commits' \in Seq(Commits) /\ Len(commits') = Len(commits) + steps
       /\ (\A h \in 1..Len(commits) : commits'[h] = commits[h])
       /\ (\A h \in 1..Len(commits') : h > Len(commits) => commits'[h] = tail[h - Len(commits)])
  <2> HIDE DEF tail, steps
  <2> QED BY <1>1, <1>4, <1>6, <1>15, Joined
<1>17. ASSUME NEW h \in 1..Len(commits'), h > Len(commits)
       PROVE  Sound(commits'[h].state) /\ commits'[h].state.rows = prior.state.rows
  <2>1. h - Len(commits) \in 1..steps
    <3> HIDE DEF steps
    <3> QED BY <1>4, <1>16, <1>17
  <2>2. commits'[h] = step(h - Len(commits))
    <3> HIDE DEF step, steps
    <3> QED BY <2>1, <1>16, <1>17
  <2>3. commits'[h].state = state(h - Len(commits))
    BY <2>2
  <2> HIDE DEF state, steps
  <2> QED BY <2>1, <2>3, <1>5
<1>18. Added
  BY <1>4, <1>9, <1>13, <1>16, <1>17 DEF Added, landed
<1> QED BY <1>13, <1>14, <1>18

\* How the record a deploy will take up changes at its step: not at all, but
\* for what its history says, or it starts again.
Passed ==
  /\ UNCHANGED <<call, answer>>
  /\ commits' = commits \/ (Added /\ Standing' = ref')
  /\ \/ applied' = applied /\ Standing'.idem = Standing.idem /\ Standing'.state.rows = Standing.state.rows
     \/ applied' = <<>> /\ Standing'.idem = NoKey /\ Standing'.state.rows = {}

LEMMA AloneNext ==
  ASSUME IInv, InFlight = {}, UNCHANGED <<call, answer>>
  PROVE  CallsInStep'
BY DEF IInv, CallsInStep, InFlight

LEMMA PlanPreserves ==
  ASSUME IInv, DeployPlan
  PROVE  TypeOK' /\ Vectors' /\ CallsInStep' /\ DeployInStep' /\ IndexInStep' /\ Passed
<1>1. PICK p \in Packages, reset \in BOOLEAN :
        deploy' = [at |-> "planned", package |-> p, action |-> Plan(p, reset), prior |-> ref]
        /\ Plan(p, reset) # "refused"
  BY DEF DeployPlan
<1>2. UNCHANGED <<ref, revision, commits, call, answer, applied, package>> /\ deploys' = deploys + 1
      /\ deploy.at = "none" /\ InFlight = {} /\ deploys < MaxDeploys
  BY DEF DeployPlan
<1>3. ref \in Refs /\ Vector(ref) /\ p # NoPackage /\ p.chain \in Nat /\ p.initial \in BOOLEAN
      /\ ref.schema \in Nat /\ deploys \in 0..MaxDeploys /\ MaxDeploys \in Nat
  BY Types, PackageType, RecordsAssumption DEF IInv, Vectors, Refs, RecordsAssumption
<1>4. Plan(p, reset) \in {"mint", "unassigned", "keep", "migrate", "reset", "unassign"}
  BY <1>1 DEF Plan
<1>5. ref.held => package # NoPackage
  BY <1>2 DEF IInv, IndexInStep
<1>6. /\ Plan(p, reset) \in {"mint", "unassigned"} <=> ~ref.held
      /\ Plan(p, reset) = "unassigned" => ~p.initial
      /\ Plan(p, reset) = "migrate" => ref.schema < p.chain
      /\ Plan(p, reset) # "none"
  BY <1>3, <1>4, <1>5 DEF Plan
<1>7. deploy' \in DeployRecords
  BY <1>1, <1>3, <1>4 DEF DeployRecords
<1>8. deploys' \in 0..MaxDeploys
  BY <1>2, <1>3
<1>9. TypeOK'
  BY <1>2, <1>7, <1>8 DEF IInv, TypeOK, DeployRecords
<1>10. Vectors'
  BY <1>1, <1>2, <1>3 DEF IInv, Vectors, Vector, Sound, NoRef, Fresh
<1>11. DeployInStep'
  BY <1>1, <1>2, <1>3, <1>6 DEF DeployInStep
<1>12. IndexInStep'
  BY <1>1, <1>2 DEF IInv, IndexInStep
<1>13. CallsInStep'
  BY <1>2, AloneNext
<1>14. Passed
  BY <1>1, <1>2 DEF Passed, Standing
<1> QED BY <1>9, <1>10, <1>11, <1>12, <1>13, <1>14

LEMMA FailPreserves ==
  ASSUME IInv, DeployFail
  PROVE  TypeOK' /\ Vectors' /\ CallsInStep' /\ DeployInStep' /\ IndexInStep' /\ Passed
<1>1. UNCHANGED <<ref, revision, commits, call, answer, applied, package, deploys>>
      /\ deploy.at = "planned" /\ deploy' = NoDeploy
  BY DEF DeployFail
<1>2. NoDeploy \in DeployRecords /\ NoDeploy.at = "none" /\ Vector(NoDeploy.prior)
  BY NoRefType DEF NoDeploy, DeployRecords
<1>3. TypeOK'
  BY <1>1, <1>2 DEF IInv, TypeOK, DeployRecords
<1>4. Vectors'
  BY <1>1, <1>2 DEF IInv, Vectors, Vector, Sound, NoRef, Fresh
<1>5. DeployInStep' /\ IndexInStep'
  BY <1>1, <1>2 DEF IInv, DeployInStep, IndexInStep
<1>6. CallsInStep'
  BY <1>1, Alone, AloneNext
<1>7. Passed
  BY <1>1, <1>2 DEF Passed, Standing
<1> QED BY <1>3, <1>4, <1>5, <1>6, <1>7

LEMMA EndPreserves ==
  ASSUME IInv, DeployEnd
  PROVE  TypeOK' /\ Vectors' /\ CallsInStep' /\ DeployInStep' /\ IndexInStep' /\ Passed
<1>1. UNCHANGED <<ref, revision, commits, call, answer, applied, deploys>>
      /\ deploy.at = "indexed" /\ package' = deploy.package /\ deploy' = NoDeploy
  BY DEF DeployEnd
<1>2. NoDeploy \in DeployRecords /\ NoDeploy.at = "none" /\ Vector(NoDeploy.prior)
  BY NoRefType DEF NoDeploy, DeployRecords
<1>3. deploy.package \in Packages /\ deploy.package # NoPackage
  BY <1>1, Alone, PackageType
<1>4. TypeOK'
  BY <1>1, <1>2, <1>3 DEF IInv, TypeOK, DeployRecords
<1>5. Vectors'
  BY <1>1, <1>2 DEF IInv, Vectors, Vector, Sound, NoRef, Fresh
<1>6. DeployInStep' /\ IndexInStep'
  BY <1>1, <1>2, <1>3 DEF IInv, DeployInStep, IndexInStep
<1>7. CallsInStep'
  BY <1>1, Alone, AloneNext
<1>8. Passed
  BY <1>1, <1>2 DEF Passed, Standing
<1> QED BY <1>4, <1>5, <1>6, <1>7, <1>8

LEMMA StepType ==
  ASSUME IInv, NEW from \in {"planned", "wiped", "written", "committed"},
         NEW to \in {"wiped", "written", "committed", "indexed"}, DeployStep(from, to)
  PROVE  /\ deploy.at = from /\ deploy' \in DeployRecords /\ deploy'.at = to
         /\ deploy'.package = deploy.package /\ deploy'.action = deploy.action /\ deploy'.prior = deploy.prior
<1>1. deploy \in DeployRecords
  BY Types DEF IInv
<1> QED BY <1>1 DEF DeployStep, DeployRecords

LEMMA WipePreserves ==
  ASSUME IInv, DeployWipe
  PROVE  TypeOK' /\ Vectors' /\ CallsInStep' /\ DeployInStep' /\ IndexInStep' /\ Passed
<1>1. UNCHANGED <<commits, call, answer, applied, package, deploys>> /\ ref' = NoRef /\ revision' = revision + 1
      /\ DeployStep("planned", "wiped")
  BY DEF DeployWipe
<1>2. deploy.at = "planned" /\ deploy' \in DeployRecords /\ deploy'.at = "wiped"
      /\ deploy'.package = deploy.package /\ deploy'.action = deploy.action /\ deploy'.prior = deploy.prior
  BY <1>1, StepType
<1>3. NoRef \in Refs /\ Vector(NoRef) /\ ~NoRef.held /\ (NoRef.idem = NoKey <=> NoRef.idemCommit = 0)
  BY NoRefType DEF NoRef
<1>4. revision' \in Nat
  BY <1>1, Types DEF IInv
<1>5. TypeOK'
  BY <1>1, <1>2, <1>3, <1>4 DEF IInv, TypeOK, DeployRecords
<1>6. Vectors'
  BY <1>1, <1>2, <1>3 DEF IInv, Vectors, Vector, Sound, NoRef, Fresh
<1>7. DeployInStep' /\ IndexInStep'
  BY <1>1, <1>2, <1>3 DEF IInv, DeployInStep, IndexInStep
<1>8. CallsInStep'
  BY <1>1, <1>2, Alone, AloneNext
<1>9. Standing' = Standing
  <2>1. Standing = deploy.prior
    BY <1>2 DEF Standing, IInv, DeployInStep
  <2> QED BY <2>1, <1>2 DEF Standing
<1>10. Passed
  BY <1>1, <1>9 DEF Passed
<1> QED BY <1>5, <1>6, <1>7, <1>8, <1>10

LEMMA UnversionedType ==
  ASSUME NEW p \in Packages
  PROVE  /\ Unversioned(p) \in Refs /\ Vector(Unversioned(p)) /\ Unversioned(p).state.rows = {}
         /\ Unversioned(p).idem = NoKey /\ Unversioned(p).idemCommit = 0
         /\ ~p.initial => Unversioned(p) = NoRef
<1>1. p.chain \in Nat /\ p.initial \in BOOLEAN /\ NoRef \in Refs
  BY PackageType, NoRefType
<1> DEFINE state == Fresh({}, IF p.initial THEN p.chain ELSE 0)
<1>2. state \in States /\ Sound(state) /\ state.rows = {}
  BY <1>1, FreshState
<1>3. ~p.initial => state = NoRef.state
  BY DEF NoRef
<1> HIDE DEF state
<1>4. Unversioned(p) = [NoRef EXCEPT !.held = p.initial, !.state = state]
  BY DEF Unversioned, state
<1>5. Unversioned(p) \in Refs /\ Unversioned(p).held = p.initial /\ Unversioned(p).state = state
      /\ Unversioned(p).idem = NoKey /\ Unversioned(p).idemCommit = 0
  BY <1>1, <1>2, <1>4 DEF Refs, NoRef
<1>6. ~p.initial => Unversioned(p) = NoRef
  BY <1>1, <1>3, <1>4 DEF NoRef
<1> QED BY <1>2, <1>5, <1>6 DEF Vector

LEMMA RefsPreserves ==
  ASSUME IInv, DeployRefs
  PROVE  TypeOK' /\ Vectors' /\ CallsInStep' /\ DeployInStep' /\ IndexInStep' /\ Passed
<1>1. UNCHANGED <<commits, call, answer, applied, package, deploys>> /\ ref' = Unversioned(deploy.package)
      /\ revision' = revision + 1 /\ DeployStep("wiped", "written")
  BY DEF DeployRefs
<1>2. deploy.at = "wiped" /\ deploy' \in DeployRecords /\ deploy'.at = "written"
      /\ deploy'.package = deploy.package /\ deploy'.action = deploy.action /\ deploy'.prior = deploy.prior
  BY <1>1, StepType
<1>3. ref' \in Refs /\ Vector(ref') /\ (ref'.idem = NoKey <=> ref'.idemCommit = 0)
  <2>1. deploy.package \in Packages
    BY <1>2, Alone
  <2>2. Unversioned(deploy.package) \in Refs /\ Vector(Unversioned(deploy.package))
    BY <2>1, UnversionedType
  <2> QED BY <2>2, <1>1 DEF Vector
<1>4. revision' \in Nat
  BY <1>1, Types DEF IInv
<1>5. TypeOK'
  BY <1>1, <1>2, <1>3, <1>4 DEF IInv, TypeOK, DeployRecords
<1>6. Vectors'
  BY <1>1, <1>2, <1>3 DEF IInv, Vectors, Vector, Sound, NoRef, Fresh
<1>7. DeployInStep' /\ IndexInStep'
  BY <1>1, <1>2 DEF IInv, DeployInStep, IndexInStep, Unversioned, NoRef, Fresh
<1>8. CallsInStep'
  BY <1>1, <1>2, Alone, AloneNext
<1>9. Standing' = Standing
  BY <1>2 DEF Standing
<1>10. Passed
  BY <1>1, <1>9 DEF Passed
<1> QED BY <1>5, <1>6, <1>7, <1>8, <1>10

LEMMA CommitEffect ==
  ASSUME IInv, DeployCommit
  PROVE  /\ ref' \in Refs /\ Vector(ref') /\ Added
         /\ (Kept /\ applied' = applied) \/ (Restarted /\ applied' = <<>>)
<1>1. DeployStep("written", "committed")
      /\ applied' = IF deploy.action \in {"reset", "unassign"} THEN <<>> ELSE applied
  BY DEF DeployCommit
<1>2. deploy.at = "written"
  BY <1>1 DEF DeployStep
<1>3. TypeOK /\ commits \in Seq(Commits) /\ deploy.package \in Packages /\ deploy.prior \in Refs
      /\ Vector(deploy.prior) /\ NoRef \in Refs /\ Vector(NoRef) /\ NoRef.state.rows = {} /\ NoRef.idem = NoKey
  BY <1>2, Types, Alone, NoRefType DEF IInv, NoRef
<1>4. /\ deploy.action \in {"mint", "unassigned"} <=> ~deploy.prior.held
      /\ deploy.action = "unassigned" => ~deploy.package.initial
      /\ ref = Unversioned(deploy.package)
  BY <1>2 DEF IInv, DeployInStep
<1>5. ~deploy.prior.held => deploy.prior = NoRef
  BY <1>3 DEF Vector
<1>6. CASE deploy.action = "mint" /\ Root("$init")
  <2>1. ref' \in Refs /\ Vector(ref') /\ Restarted /\ Added
    BY <1>2, <1>6, RootEffect
  <2>2. Kept
    BY <2>1, <1>3, <1>4, <1>5, <1>6 DEF Restarted, Kept
  <2> QED BY <2>1, <2>2, <1>1, <1>6
<1>7. CASE deploy.action = "keep" /\ Keep
  <2>1. ref' \in Refs /\ Vector(ref') /\ Kept /\ Added
    BY <1>2, <1>4, <1>7, KeepEffect
  <2> QED BY <2>1, <1>1, <1>7
<1>8. CASE deploy.action = "migrate" /\ Migrate
  <2>1. ref' \in Refs /\ Vector(ref') /\ Kept /\ Added
    BY <1>2, <1>8, MigrateEffect
  <2> QED BY <2>1, <1>1, <1>8
<1>9. CASE deploy.action = "reset" /\ Root("$reset")
  <2>1. ref' \in Refs /\ Vector(ref') /\ Restarted /\ Added
    BY <1>2, <1>9, RootEffect
  <2> QED BY <2>1, <1>1, <1>9
<1>10. CASE deploy.action = "unassign" /\ ref' = NoRef /\ UNCHANGED commits
  <2>1. Added
    BY <1>3, <1>10 DEF Added
  <2> QED BY <2>1, <1>1, <1>3, <1>10 DEF Restarted
<1>11. CASE deploy.action = "unassigned" /\ UNCHANGED <<ref, commits>>
  <2>1. ref = NoRef /\ deploy.prior = NoRef
    <3>1. ~deploy.prior.held /\ ~deploy.package.initial /\ ref = Unversioned(deploy.package)
      BY <1>4, <1>11
    <3>2. Unversioned(deploy.package) = NoRef
      BY <1>3, <3>1, UnversionedType
    <3> QED BY <1>5, <3>1, <3>2
  <2>2. Added
    BY <1>3, <1>11 DEF Added
  <2>3. Kept /\ applied' = applied /\ ref' = NoRef
    BY <1>1, <1>11, <2>1 DEF Kept
  <2> QED BY <2>2, <2>3, <1>3
<1> QED BY <1>6, <1>7, <1>8, <1>9, <1>10, <1>11 DEF DeployCommit

\* What the commits and the ref added leave of Vectors.
LEMMA AddedSound ==
  ASSUME IInv, Added, Vector(ref'), deploy'.prior = deploy.prior
  PROVE  Vectors'
<1>1. \A h \in 1..Len(commits) : Sound(commits[h].state)
  BY DEF IInv, Vectors
<1>2. commits \in Seq(Commits)
  BY Types DEF IInv
<1>3. ASSUME NEW h \in 1..Len(commits') PROVE Sound(commits'[h].state)
  <2>1. CASE h > Len(commits)
    BY <2>1, <1>3 DEF Added
  <2>2. CASE ~(h > Len(commits))
    <3>1. h \in 1..Len(commits)
      BY <2>2, <1>2, <1>3 DEF Added
    <3>2. commits'[h] = commits[h]
      BY <3>1 DEF Added
    <3> QED BY <3>1, <3>2, <1>1
  <2> QED BY <2>1, <2>2
<1>4. Vector(deploy'.prior)
  BY DEF IInv, Vectors
<1> QED BY <1>3, <1>4 DEF Vectors, Vector, Sound

LEMMA CommitPreserves ==
  ASSUME IInv, DeployCommit
  PROVE  TypeOK' /\ Vectors' /\ CallsInStep' /\ DeployInStep' /\ IndexInStep' /\ Passed
<1>1. UNCHANGED <<call, answer, package, deploys>> /\ revision' = revision + 1 /\ DeployStep("written", "committed")
  BY DEF DeployCommit
<1>2. deploy.at = "written" /\ deploy' \in DeployRecords /\ deploy'.at = "committed"
      /\ deploy'.package = deploy.package /\ deploy'.action = deploy.action /\ deploy'.prior = deploy.prior
  BY <1>1, StepType
<1>3. ref' \in Refs /\ Vector(ref') /\ Added /\ ((Kept /\ applied' = applied) \/ (Restarted /\ applied' = <<>>))
  BY CommitEffect
<1>4. revision' \in Nat /\ commits' \in Seq(Commits) /\ (ref'.idem = NoKey <=> ref'.idemCommit = 0)
  BY <1>1, <1>3, Types DEF IInv, Added, Vector
<1>5. applied' \in Seq(Calls)
  <2>1. applied' = applied \/ applied' = <<>>
    BY <1>3
  <2>2. applied \in Seq(Calls) /\ <<>> \in Seq(Calls)
    BY Types DEF IInv
  <2> QED BY <2>1, <2>2
<1>6. TypeOK'
  BY <1>1, <1>2, <1>3, <1>4, <1>5 DEF IInv, TypeOK, DeployRecords
<1>7. Vectors'
  BY <1>2, <1>3, AddedSound
<1>8. DeployInStep' /\ IndexInStep'
  BY <1>1, <1>2 DEF IInv, DeployInStep, IndexInStep
<1>9. CallsInStep'
  BY <1>1, <1>2, Alone, AloneNext
<1>10. Standing = deploy.prior /\ Standing' = ref'
  BY <1>2 DEF Standing
<1>11. Passed
  BY <1>1, <1>3, <1>10 DEF Passed, Kept, Restarted
<1> QED BY <1>6, <1>7, <1>8, <1>9, <1>11

LEMMA IndexesPreserves ==
  ASSUME IInv, DeployIndexes
  PROVE  TypeOK' /\ Vectors' /\ CallsInStep' /\ DeployInStep' /\ IndexInStep' /\ Passed
<1> DEFINE index == deploy.package.index
           state == Indexed(ref.state, index)
           moved == ref.held /\ ref.state.index # index
<1>1. UNCHANGED <<call, answer, applied, package, deploys>> /\ DeployStep("committed", "indexed")
      /\ IF moved
         THEN commits' = Commit(ref.head, state, "$reindex") /\ revision' = revision + 1
              /\ ref' = [ref EXCEPT !.state = state, !.head = Newest]
         ELSE UNCHANGED <<ref, revision, commits>>
  BY DEF DeployIndexes
<1>2. deploy.at = "committed" /\ deploy' \in DeployRecords /\ deploy'.at = "indexed"
      /\ deploy'.package = deploy.package /\ deploy'.action = deploy.action /\ deploy'.prior = deploy.prior
  BY <1>1, StepType
<1>3. TypeOK /\ ref \in Refs /\ commits \in Seq(Commits) /\ revision \in Nat /\ Vector(ref) /\ deploy.package \in Packages
  BY <1>2, Alone, Types DEF IInv, Vectors
<1>4. index \in Indexes /\ ref.state \in States /\ Sound(ref.state) /\ ref.head \in Nat /\ deploy.package # NoPackage
  BY <1>3, PackageType DEF Refs, Vector
<1>5. state \in States /\ Sound(state) /\ state.index = index /\ state.rows = ref.state.rows
  BY <1>4, IndexedState
<1>6. Newest \in Nat
  BY <1>3 DEF Newest
<1> HIDE DEF state
<1>7. /\ ref' \in Refs /\ Vector(ref') /\ Added /\ revision' \in Nat
      /\ ref'.idem = ref.idem /\ ref'.state.rows = ref.state.rows
      /\ ref'.held => ref'.state.index = index
  <2>1. CASE moved
    <3>1. commits' = Commit(ref.head, state, "$reindex") /\ revision' = revision + 1
          /\ ref' = [ref EXCEPT !.state = state, !.head = Newest]
      BY <1>1, <2>1
    <3>2. commits' \in Seq(Commits) /\ Len(commits') = Newest
          /\ (\A h \in 1..Len(commits) : commits'[h] = commits[h])
          /\ commits'[Newest] = [parent |-> ref.head, state |-> state, kind |-> "$reindex"]
      <4>1. "$reindex" \in Kinds
        BY DEF Kinds
      <4> QED BY <4>1, <3>1, <1>3, <1>4, <1>5, Committed
    <3>3. ref' \in Refs /\ ref'.held /\ ref'.state = state /\ ref'.idem = ref.idem /\ ref'.idemCommit = ref.idemCommit
      BY <2>1, <3>1, <1>3, <1>5, <1>6 DEF Refs
    <3>4. ASSUME NEW h \in 1..Len(commits'), h > Len(commits) PROVE commits'[h].state = state
      <4>1. h = Newest
        BY <1>3, <3>2, <3>4 DEF Newest
      <4> QED BY <4>1, <3>2
    <3>5. Added
      BY <1>3, <1>5, <3>2, <3>3, <3>4 DEF Added, Newest
    <3>6. Vector(ref')
      BY <3>3, <1>3, <1>5 DEF Vector
    <3>7. ref'.state.rows = ref.state.rows /\ ref'.state.index = index /\ revision' \in Nat
      BY <3>1, <3>3, <1>3, <1>5
    <3> QED BY <3>3, <3>5, <3>6, <3>7
  <2>2. CASE ~moved
    <3>1. UNCHANGED <<ref, revision, commits>>
      BY <1>1, <2>2
    <3>2. Added
      BY <3>1, <1>3 DEF Added
    <3> QED BY <3>1, <3>2, <2>2, <1>3
  <2> QED BY <2>1, <2>2
<1>8. commits' \in Seq(Commits) /\ (ref'.idem = NoKey <=> ref'.idemCommit = 0)
  BY <1>7 DEF Added, Vector
<1> HIDE DEF index, moved
<1>9. TypeOK'
  BY <1>1, <1>2, <1>7, <1>8 DEF IInv, TypeOK, DeployRecords
<1>10. Vectors'
  BY <1>2, <1>7, AddedSound
<1>11. DeployInStep' /\ IndexInStep'
  BY <1>1, <1>2, <1>4, <1>7 DEF DeployInStep, IndexInStep, index
<1>12. CallsInStep'
  BY <1>1, <1>2, Alone, AloneNext
<1>13. Standing = ref /\ Standing' = ref'
  BY <1>2 DEF Standing
<1>14. Passed
  BY <1>1, <1>7, <1>13 DEF Passed
<1> QED BY <1>9, <1>10, <1>11, <1>12, <1>14

LEMMA DeployPreserves ==
  ASSUME IInv,
         \/ DeployPlan \/ DeployFail \/ DeployWipe \/ DeployRefs \/ DeployCommit \/ DeployIndexes \/ DeployEnd
  PROVE  TypeOK' /\ Vectors' /\ CallsInStep' /\ DeployInStep' /\ IndexInStep' /\ Passed
BY PlanPreserves, FailPreserves, WipePreserves, RefsPreserves, CommitPreserves, IndexesPreserves, EndPreserves

-----------------------------------------------------------------------------
(* The invariant                                                           *)

LEMMA InitInv == Init => IInv
<1> SUFFICES ASSUME Init PROVE IInv
  OBVIOUS
<1>1. ref = NoRef /\ revision = 0 /\ commits = <<>> /\ call = [c \in Callers |-> Idle]
      /\ answer = [c \in Calls |-> 0] /\ applied = <<>> /\ package = NoPackage /\ deploy = NoDeploy /\ deploys = 0
  BY DEF Init
<1>2. NoRef \in Refs /\ Vector(NoRef) /\ ~NoRef.held /\ NoRef.idem = NoKey /\ NoRef.idemCommit = 0
  BY NoRefType DEF NoRef
<1>3. NoDeploy \in DeployRecords /\ NoDeploy.at = "none" /\ Vector(NoDeploy.prior)
  BY <1>2 DEF NoDeploy, DeployRecords
<1>4. Idle \in CallRecords /\ Idle.at = "idle"
  BY <1>2 DEF Idle, CallRecords, NoAsk, Asks, Ops
<1>5. MaxDeploys \in Nat
  BY RecordsAssumption DEF RecordsAssumption
<1>6. TypeOK
  <2>1. call \in [Callers -> CallRecords] /\ answer \in [Calls -> Nat]
    BY <1>1, <1>4
  <2> QED BY <2>1, <1>1, <1>2, <1>3, <1>5, Types
<1>7. Vectors
  BY <1>1, <1>2, <1>3 DEF Vectors
<1>8. CallsInStep
  <2>1. \A c \in Callers : call[c].at = "idle"
    BY <1>1, <1>4
  <2> QED BY <2>1, <1>1 DEF CallsInStep, InFlight
<1>9. DeployInStep /\ IndexInStep
  BY <1>1, <1>2, <1>3 DEF DeployInStep, IndexInStep
<1>10. LastKeyed /\ AppliedOnce
  BY <1>1 DEF LastKeyed, AppliedOnce
<1> QED BY <1>6, <1>7, <1>8, <1>9, <1>10 DEF IInv

\* The key that is remembered is not applied again.
LEMMA AppliedNext ==
  ASSUME IInv, deploy.at = "none", NEW c \in Calls, KeyOf[c] = NoKey \/ ref.idem # KeyOf[c],
         applied' = Append(applied, c), Standing' = ref', ref'.idem = KeyOf[c]
  PROVE  LastKeyed' /\ AppliedOnce' /\ applied' \in Seq(Calls)
<1>1. applied \in Seq(Calls)
  BY Types DEF IInv
<1>2. Len(applied') = Len(applied) + 1 /\ applied'[Len(applied')] = c /\ applied' # <<>>
      /\ (\A i \in 1..Len(applied) : applied'[i] = applied[i]) /\ applied' \in Seq(Calls)
  BY <1>1
<1>3. LastKeyed'
  BY <1>2 DEF LastKeyed
<1>4. Standing = ref
  BY DEF Standing
<1>5. ASSUME NEW i \in 1..Len(applied'), NEW j \in 1..Len(applied'), i < j,
             KeyOf[applied'[i]] = KeyOf[applied'[j]], KeyOf[applied'[i]] # NoKey
      PROVE  \E n \in i..j : KeyOf[applied'[n]] # KeyOf[applied'[i]]
  <2>1. i \in 1..Len(applied) /\ Len(applied) \in Nat /\ applied'[i] = applied[i]
    BY <1>1, <1>2, <1>5
  <2>2. CASE j \in 1..Len(applied)
    <3>1. applied'[j] = applied[j]
      BY <2>2, <1>2
    <3>2. PICK n \in i..j : KeyOf[applied[n]] # KeyOf[applied[i]]
      <4>1. i \in DOMAIN applied /\ j \in DOMAIN applied
        BY <2>1, <2>2, <1>1
      <4>2. KeyOf[applied[i]] = KeyOf[applied[j]] /\ KeyOf[applied[i]] # NoKey
        BY <2>1, <3>1, <1>5
      <4> QED BY <4>1, <4>2, <1>5 DEF IInv, AppliedOnce
    <3>3. applied'[n] = applied[n]
      BY <2>1, <2>2, <1>2
    <3> QED BY <2>1, <3>2, <3>3
  <2>3. CASE j = Len(applied')
    <3> DEFINE l == Len(applied)
    <3>1. l \in 1..Len(applied) /\ l \in i..j /\ applied'[l] = applied[l] /\ applied # <<>>
      BY <2>1, <2>3, <1>1, <1>2
    <3>2. KeyOf[applied'[i]] = KeyOf[c]
      BY <2>3, <1>2, <1>5
    <3>3. KeyOf[applied[l]] # KeyOf[c]
      BY <3>1, <3>2, <1>4, <1>5 DEF IInv, LastKeyed
    <3> QED BY <3>1, <3>2, <3>3
  <2> QED BY <2>2, <2>3, <1>1, <1>2
<1>6. DOMAIN applied' = 1..Len(applied')
  BY <1>2
<1>7. AppliedOnce'
  BY <1>5, <1>6 DEF AppliedOnce
<1> QED BY <1>2, <1>3, <1>7

LEMMA AppliedSame ==
  ASSUME IInv, applied' = <<>> \/ (applied' = applied /\ Standing'.idem = Standing.idem)
  PROVE  LastKeyed' /\ AppliedOnce' /\ applied' \in Seq(Calls)
<1>1. applied \in Seq(Calls) /\ <<>> \in Seq(Calls)
  BY Types DEF IInv
<1>2. CASE applied' = <<>>
  BY <1>1, <1>2 DEF LastKeyed, AppliedOnce
<1>3. CASE applied' = applied /\ Standing'.idem = Standing.idem
  BY <1>1, <1>3 DEF IInv, LastKeyed, AppliedOnce
<1> QED BY <1>2, <1>3

\* The parts a write preserves whoever made it.
LEMMA CallWritePreserves ==
  ASSUME IInv, NEW c \in Callers,
         MutateWrite(c) \/ ReindexWrite(c) \/ CompactWrite(c) \/ SystemWrite(c) \/ InitWrite(c)
  PROVE  IInv'
<1>1. call[c].at = "running"
  BY DEF MutateWrite, ReindexWrite, CompactWrite, SystemWrite, InitWrite, Running
<1>2. deploy.at = "none" /\ Standing = ref /\ TypeOK
  BY <1>1, Flying DEF IInv
<1>3. CASE MutateWrite(c)
  <2>1. c \in Calls /\ (KeyOf[c] = NoKey \/ ref.idem # KeyOf[c]) /\ applied' = Append(applied, c)
    BY <1>3, MutateOver
  <2>2. PICK parent, state, kind, next : WritesOver(c, parent, state, kind, next) /\ next.idem = KeyOf[c]
    BY <1>3, MutateOver
  <2>3. ref'.idem = KeyOf[c]
    <3>1. WritesOver(c, parent, state, kind, next)
      BY <2>2
    <3>2. ref'.idem = next.idem
      BY <3>1, <1>2, WriteEffect
    <3> QED BY <3>2, <2>2
  <2>4. applied' \in Seq(Calls)
    BY <2>1, Types DEF IInv
  <2>5. TypeOK' /\ Vectors' /\ CallsInStep' /\ DeployInStep' /\ IndexInStep' /\ Standing' = ref'
    BY <2>2, <2>4, <1>1, WritePreserves
  <2>6. LastKeyed' /\ AppliedOnce'
    BY <2>1, <2>3, <2>5, <1>2, AppliedNext
  <2> QED BY <2>5, <2>6 DEF IInv
<1>4. CASE ReindexWrite(c) \/ CompactWrite(c) \/ SystemWrite(c) \/ InitWrite(c)
  <2>1. applied' = applied
    BY <1>4, KeepOver, OperatorOver
  <2>2. \E parent, state, kind, next : WritesOver(c, parent, state, kind, next) /\ next.idem = ref.idem
    <3>1. CASE ReindexWrite(c) \/ CompactWrite(c)
      BY <3>1, KeepOver
    <3>2. CASE SystemWrite(c) \/ InitWrite(c)
      BY <3>2, OperatorOver
    <3> QED BY <3>1, <3>2, <1>4
  <2>3. PICK parent, state, kind, next : WritesOver(c, parent, state, kind, next) /\ next.idem = ref.idem
    BY <2>2
  <2>4. ref'.idem = ref.idem
    <3>1. WritesOver(c, parent, state, kind, next)
      BY <2>3
    <3>2. ref'.idem = next.idem
      BY <3>1, <1>2, WriteEffect
    <3> QED BY <3>2, <2>3
  <2>5. applied' \in Seq(Calls)
    BY <2>1, Types DEF IInv
  <2>6. TypeOK' /\ Vectors' /\ CallsInStep' /\ DeployInStep' /\ IndexInStep' /\ Standing' = ref'
    BY <2>3, <2>5, <1>1, WritePreserves
  <2>7. LastKeyed' /\ AppliedOnce'
    BY <2>1, <2>4, <2>6, <1>2, AppliedSame
  <2> QED BY <2>6, <2>7 DEF IInv
<1> QED BY <1>3, <1>4

LEMMA NextInv == IInv /\ [Next]_vars => IInv'
<1> SUFFICES ASSUME IInv, [Next]_vars PROVE IInv'
  OBVIOUS
<1>1. ASSUME NEW c \in Callers,
             MutateWrite(c) \/ ReindexWrite(c) \/ CompactWrite(c) \/ SystemWrite(c) \/ InitWrite(c)
      PROVE  IInv'
  BY <1>1, CallWritePreserves
<1>2. ASSUME NEW c \in Callers,
             \/ MutateRead(c) \/ MutateRepeat(c) \/ KeepRead(c) \/ SystemRead(c) \/ Conflict(c) \/ Stop(c)
      PROVE  IInv'
  <2>1. /\ TypeOK' /\ Vectors' /\ CallsInStep' /\ DeployInStep' /\ IndexInStep'
        /\ UNCHANGED <<ref, commits, applied, deploy, package>>
    BY <1>2, ReadPreserves
  <2>2. Standing' = Standing
    BY <2>1 DEF Standing
  <2>3. LastKeyed' /\ AppliedOnce'
    BY <2>1, <2>2, AppliedSame
  <2> QED BY <2>1, <2>3 DEF IInv
<1>3. ASSUME \/ DeployPlan \/ DeployFail \/ DeployWipe \/ DeployRefs \/ DeployCommit \/ DeployIndexes \/ DeployEnd
      PROVE  IInv'
  <2>1. TypeOK' /\ Vectors' /\ CallsInStep' /\ DeployInStep' /\ IndexInStep' /\ Passed
    BY <1>3, DeployPreserves
  <2>2. applied' = <<>> \/ (applied' = applied /\ Standing'.idem = Standing.idem)
    BY <2>1 DEF Passed
  <2>3. LastKeyed' /\ AppliedOnce'
    BY <2>2, AppliedSame
  <2> QED BY <2>1, <2>3 DEF IInv
<1>4. CASE UNCHANGED vars
  BY <1>4 DEF vars, IInv, TypeOK, Vectors, Vector, Sound, CallsInStep, InFlight, InStep, DeployInStep, Unversioned,
      NoRef, Fresh, IndexInStep, LastKeyed, Standing, AppliedOnce
<1> QED BY <1>1, <1>2, <1>3, <1>4 DEF Next

-----------------------------------------------------------------------------
(* The theorems                                                            *)

\* The record, its calls and its deploys keep their types, and a key is beside
\* the ref with the commit that answers it, for any number of each.
THEOREM RecordsTypeCorrect == Spec => []TypeOK
<1>1. IInv => TypeOK
  BY DEF IInv
<1> QED BY <1>1, InitInv, NextInv, PTL DEF Spec

\* Every call, operator and deploy keeps the whole of the invariant, for any
\* number of each.
THEOREM RecordsInvariant == Spec => []IInv
BY InitInv, NextInv, PTL DEF Spec

\* A keyed mutation is applied again only after another one was committed,
\* whatever calls, retries and deploys race it (recordMutate, recordCompact,
\* commitDeployRecords), for any number of calls and of keys.
THEOREM RecordsAppliedOnce == Spec => []AppliedOnce
<1>1. IInv => AppliedOnce
  BY DEF IInv
<1> QED BY <1>1, RecordsInvariant, PTL

\* The index of the head is over the head's own rows, and between deploys it is
\* the deployed package's, for any number of indexes and whatever races.
THEOREM RecordsIndexAgrees == Spec => []IndexAgrees
<1>1. IInv => IndexAgrees
  BY DEF IInv, Vectors, Vector, Sound, IndexInStep, IndexAgrees
<1> QED BY <1>1, RecordsInvariant, PTL

\* An operator's commit is made over the head it expected and no other, however
\* many times its write was raced (recordSystemCommit).
THEOREM RecordsNotOverUnseen == Spec => NotOverUnseen
<1> DEFINE Over == \A c \in Operators :
                     commits' # commits /\ call'[c] # call[c] /\ call[c].ask.expected # 0 =>
                       commits'[Newest].parent = call[c].ask.expected
<1>1. IInv /\ [Next]_vars => [Over]_vars
  <2> SUFFICES ASSUME IInv, Next, NEW c \in Operators, commits' # commits, call'[c] # call[c],
                      call[c].ask.expected # 0
               PROVE  commits'[Newest].parent = call[c].ask.expected
    OBVIOUS
  <2>1. ASSUME NEW d \in Callers,
               \/ MutateRead(d) \/ MutateRepeat(d) \/ KeepRead(d) \/ SystemRead(d) \/ Conflict(d) \/ Stop(d)
        PROVE  FALSE
    BY <2>1, ReadPreserves
  <2>2. ASSUME NEW d \in Callers, MutateWrite(d) \/ ReindexWrite(d) \/ CompactWrite(d) PROVE FALSE
    <3>1. d \notin Operators
      BY <2>2, MutateOver, KeepOver, RecordsAssumption DEF RecordsAssumption
    <3>2. PICK parent, state, kind, next : WritesOver(d, parent, state, kind, next)
      BY <2>2, MutateOver, KeepOver
    <3>3. call'[c] = call[c]
      <4>1. \A e \in Callers \ {d} : call'[e] = call[e]
        BY <3>2, WriteEffect DEF IInv
      <4> QED BY <4>1, <3>1 DEF Callers
    <3> QED BY <3>3
  <2>3. ASSUME NEW d \in Callers, SystemWrite(d) \/ InitWrite(d)
        PROVE  commits'[Newest].parent = call[c].ask.expected
    <3>1. PICK parent, state, kind, next :
            /\ WritesOver(d, parent, state, kind, next)
            /\ call[d].ask.expected # 0 => parent = call[d].ask.expected
      BY <2>3, OperatorOver
    <3>2. WritesOver(d, parent, state, kind, next) /\ TypeOK
      BY <3>1 DEF IInv
    <3>3. c = d
      BY <3>2, WriteEffect DEF Callers
    <3>4. commits'[Newest] = [parent |-> parent, state |-> state, kind |-> kind]
      BY <3>2, WriteEffect
    <3> QED BY <3>1, <3>3, <3>4
  <2>4. ASSUME \/ DeployPlan \/ DeployFail \/ DeployWipe \/ DeployRefs \/ DeployCommit \/ DeployIndexes
               \/ DeployEnd
        PROVE  FALSE
    BY <2>4, DeployPreserves DEF Passed
  <2> QED BY <2>1, <2>2, <2>3, <2>4 DEF Next
<1> QED BY <1>1, RecordsInvariant, PTL DEF Spec, NotOverUnseen

-----------------------------------------------------------------------------
(* The refinement                                                          *)

\* The values that have been committed, when what is added is of one value.
LEMMA PastGrows ==
  ASSUME IInv, NEW rows, commits' \in Seq(Commits), Len(commits') >= Len(commits),
         \A h \in 1..Len(commits) : commits'[h] = commits[h],
         \A h \in 1..Len(commits') : h > Len(commits) => commits'[h].state.rows = rows
  PROVE  /\ Past' = Past \/ Past' = Past \union {rows}
         /\ Len(commits') > Len(commits) => Past' = Past \union {rows}
<1>1. commits \in Seq(Commits) /\ DOMAIN commits = 1..Len(commits) /\ DOMAIN commits' = 1..Len(commits')
      /\ Len(commits) \in Nat /\ Len(commits') \in Nat
  BY Types DEF IInv
<1>2. ASSUME NEW h \in 1..Len(commits) PROVE commits[h].state.rows \in Past'
  BY <1>1, <1>2 DEF Past
<1>3. ASSUME NEW h \in 1..Len(commits') PROVE commits'[h].state.rows \in Past \union {rows}
  BY <1>1, <1>3 DEF Past
<1>4. Past \subseteq Past' /\ Past' \subseteq Past \union {rows}
  BY <1>1, <1>2, <1>3 DEF Past
<1>5. Len(commits') > Len(commits) => rows \in Past'
  <2> SUFFICES ASSUME Len(commits') > Len(commits) PROVE rows \in Past'
    OBVIOUS
  <2>1. Len(commits') \in 1..Len(commits') /\ commits'[Len(commits')].state.rows = rows
    BY <1>1
  <2> QED BY <2>1, <1>1 DEF Past
<1> QED BY <1>4, <1>5

LEMMA WriteState ==
  ASSUME IInv, NEW c \in Callers, NEW parent, NEW state, NEW kind, NEW next,
         WritesOver(c, parent, state, kind, next)
  PROVE  ref'.state = state
BY DEF WritesOver, Write, Refs

LEMMA WritePast ==
  ASSUME IInv, NEW c \in Callers, NEW parent, NEW state, NEW kind, NEW next,
         WritesOver(c, parent, state, kind, next)
  PROVE  Past' = Past \union {state.rows}
<1>1. commits' \in Seq(Commits) /\ Len(commits') = Len(commits) + 1 /\ Len(commits) \in Nat
      /\ \A h \in 1..Len(commits) : commits'[h] = commits[h]
  <2>1. TypeOK /\ commits \in Seq(Commits)
    BY Types DEF IInv
  <2>2. commits' \in Seq(Commits) /\ Len(commits') = Newest /\ \A h \in 1..Len(commits) : commits'[h] = commits[h]
    BY <2>1, WriteEffect
  <2> QED BY <2>1, <2>2 DEF Newest
<1>2. commits'[Newest] = [parent |-> parent, state |-> state, kind |-> kind]
  BY WriteEffect DEF IInv
<1>3. ASSUME NEW h \in 1..Len(commits'), h > Len(commits) PROVE commits'[h].state.rows = state.rows
  <2>1. h = Newest
    BY <1>1, <1>3 DEF Newest
  <2> QED BY <2>1, <1>2
<1>4. Len(commits') >= Len(commits) /\ Len(commits') > Len(commits)
  BY <1>1
<1>5. \A h \in 1..Len(commits') : h > Len(commits) => commits'[h].state.rows = state.rows
  BY <1>3
<1> QED BY <1>1, <1>4, <1>5, PastGrows

LEMMA ToldAlike ==
  ASSUME UNCHANGED answer PROVE Told' = Told
BY DEF Told

LEMMA ToldOne ==
  ASSUME IInv, NEW c \in Calls, answer' \in [Calls -> Nat], \A d \in Calls \ {c} : answer'[d] = answer[d],
         answer'[c] # 0
  PROVE  Told' = Told \union {c}
BY DEF Told

LEMMA TypesOfPast ==
  ASSUME IInv, NEW ask \in Asks, ask.target <= Len(commits), package \in Packages
  PROVE  Target(ask).rows \in Past \union {{}}
<1>1. commits \in Seq(Commits) /\ Len(commits) \in Nat /\ DOMAIN commits = 1..Len(commits) /\ ask.target \in Nat
  BY Types DEF IInv, Asks
<1>2. CASE ask.target = 0
  BY <1>2, FreshState, PackageType DEF Target
<1>3. CASE ask.target # 0
  <2>1. ask.target \in DOMAIN commits
    BY <1>1, <1>3
  <2> QED BY <2>1, <1>3 DEF Target, Past
<1> QED BY <1>2, <1>3

LEMMA InitImplements == Init => Atomic!Init
<1>1. NoRef.state.rows = {} /\ NoRef.idem = NoKey
  BY NoRefType DEF NoRef
<1> QED BY <1>1 DEF Init, Atomic!Init, Rows, Last, Past, Told, Standing, NoDeploy

\* Each step of the record is one of an atomic record, or none.
LEMMA StepImplements == IInv /\ [Next]_vars => [Atomic!Next]_(Atomic!vars)
<1> SUFFICES ASSUME IInv, [Next]_vars PROVE Atomic!Next \/ UNCHANGED Atomic!vars
  OBVIOUS
<1>1. ASSUME NEW c \in Callers, MutateWrite(c) PROVE Atomic!Next
  <2>1. call[c].at = "running"
    BY <1>1 DEF MutateWrite, Running
  <2>2. Standing = ref /\ TypeOK /\ c \in Calls /\ (KeyOf[c] = NoKey \/ ref.idem # KeyOf[c])
        /\ applied' = Append(applied, c)
    BY <1>1, <2>1, Flying, MutateOver DEF IInv
  <2>3. PICK parent, state, kind, next :
          /\ WritesOver(c, parent, state, kind, next)
          /\ state.rows = ref.state.rows \union {c} /\ next.idem = KeyOf[c]
    BY <1>1, MutateOver
  <2>4. WritesOver(c, parent, state, kind, next)
    BY <2>3
  <2>5. /\ ref'.state = state /\ ref'.idem = next.idem /\ UNCHANGED <<package, deploy, deploys>>
        /\ answer' \in [Calls -> Nat] /\ answer'[c] = Newest /\ \A d \in Calls \ {c} : answer'[d] = answer[d]
    <3>1. ref'.state = state
      BY <2>4, WriteState
    <3>2. ref'.idem = next.idem
      BY <2>2, <2>4, WriteEffect
    <3>3. UNCHANGED <<package, deploy, deploys>>
      BY <2>2, <2>4, WriteEffect
    <3>4. answer' \in [Calls -> Nat] /\ \A d \in Calls \ {c} : answer'[d] = answer[d]
      BY <2>2, <2>4, WriteEffect
    <3>5. answer'[c] = Newest
      BY <2>2, <2>4, WriteEffect
    <3> QED BY <3>1, <3>2, <3>3, <3>4, <3>5
  <2>6. Standing' = ref'
    BY <2>1, <2>5, Flying DEF Standing
  <2>7. Rows' = Rows \union {c} /\ Last' = KeyOf[c] /\ Last = ref.idem
    BY <2>2, <2>3, <2>5, <2>6 DEF Rows, Last
  <2>8. Past' = Past \union {Rows'}
    <3>1. Past' = Past \union {state.rows}
      BY <2>4, WritePast
    <3> QED BY <3>1, <2>5, <2>6 DEF Rows
  <2>9. Told' = Told \union {c}
    <3>1. Newest # 0
      BY <2>2 DEF TypeOK, Newest
    <3> QED BY <3>1, <2>2, <2>5, ToldOne
  <2>10. c \notin Told
    BY <2>1, <2>2 DEF IInv, CallsInStep, Told
  <2>11. Atomic!Apply(c)
    BY <2>2, <2>7, <2>8, <2>9, <2>10 DEF Atomic!Apply, Atomic!Repeats
  <2> QED BY <2>2, <2>11 DEF Atomic!Next
<1>2. ASSUME NEW c \in Callers, MutateRepeat(c) PROVE Atomic!Next
  <2>1. c \in Calls /\ Repeats(c) /\ answer' = [answer EXCEPT ![c] = ref.idemCommit]
        /\ UNCHANGED <<ref, commits, deploy>> /\ MayRead(c) /\ answer \in [Calls -> Nat] /\ ref.idemCommit \in Nat
    BY <1>2, Types DEF MutateRepeat, IInv, Refs
  <2>2. deploy.at = "none"
    BY <2>1, <1>2, Flying DEF MayRead
  <2>3. Standing = ref /\ Standing' = Standing
    BY <2>1, <2>2 DEF Standing
  <2>4. UNCHANGED <<Rows, Last, Past>> /\ KeyOf[c] # NoKey /\ KeyOf[c] = Last
    BY <2>1, <2>3 DEF Rows, Last, Past, Repeats
  <2>5. Told' = Told \union {c}
    BY <2>1 DEF Repeats, Told
  <2>6. Atomic!Repeat(c)
    BY <2>4, <2>5 DEF Atomic!Repeat, Atomic!Repeats
  <2> QED BY <2>1, <2>6 DEF Atomic!Next
<1>3. ASSUME NEW c \in Callers, ReindexWrite(c) \/ CompactWrite(c) PROVE Atomic!Next
  <2>1. call[c].at = "running"
    BY <1>3 DEF ReindexWrite, CompactWrite, Running
  <2>2. Standing = ref /\ TypeOK /\ c \notin Calls
    BY <1>3, <2>1, Flying, KeepOver DEF IInv
  <2>3. PICK parent, state, kind, next :
          /\ WritesOver(c, parent, state, kind, next)
          /\ state.rows = ref.state.rows /\ next.idem = ref.idem
    BY <1>3, KeepOver
  <2>4. WritesOver(c, parent, state, kind, next)
    BY <2>3
  <2>5. /\ ref'.state = state /\ ref'.idem = next.idem /\ UNCHANGED <<package, deploy, deploys>>
    <3>1. ref'.state = state
      BY <2>4, WriteState
    <3>2. ref'.idem = next.idem
      BY <2>2, <2>4, WriteEffect
    <3>3. UNCHANGED <<package, deploy, deploys>>
      BY <2>2, <2>4, WriteEffect
    <3> QED BY <3>1, <3>2, <3>3
  <2>6. Standing' = ref'
    BY <2>1, <2>5, Flying DEF Standing
  <2>7. Rows' = Rows /\ Last' = Last /\ Rows = state.rows
    BY <2>2, <2>3, <2>5, <2>6 DEF Rows, Last
  <2>8. Past' = Past \union {Rows}
    BY <2>4, <2>7, WritePast
  <2>9. Told' = Told
    BY <2>2, <2>4, ToldAlike DEF WritesOver, Write
  <2>10. Atomic!Recommit
    BY <2>7, <2>8, <2>9 DEF Atomic!Recommit
  <2> QED BY <2>10 DEF Atomic!Next
<1>4. ASSUME NEW c \in Callers, SystemWrite(c) \/ InitWrite(c) PROVE Atomic!Next
  <2>1. call[c].at = "running"
    BY <1>4, OperatorOver
  <2>2. Standing = ref /\ TypeOK /\ c \notin Calls
    BY <1>4, <2>1, Flying, OperatorOver DEF IInv
  <2>3. PICK parent, state, kind, next :
          /\ WritesOver(c, parent, state, kind, next)
          /\ state.rows = Target(call[c].ask).rows /\ next.idem = ref.idem
    BY <1>4, OperatorOver
  <2>4. WritesOver(c, parent, state, kind, next)
    BY <2>3
  <2>5. /\ ref'.state = state /\ ref'.idem = next.idem /\ UNCHANGED <<package, deploy, deploys>>
    <3>1. ref'.state = state
      BY <2>4, WriteState
    <3>2. ref'.idem = next.idem
      BY <2>2, <2>4, WriteEffect
    <3>3. UNCHANGED <<package, deploy, deploys>>
      BY <2>2, <2>4, WriteEffect
    <3> QED BY <3>1, <3>2, <3>3
  <2>6. Standing' = ref'
    BY <2>1, <2>5, Flying DEF Standing
  <2>7. Rows' = state.rows /\ Last' = Last
    BY <2>2, <2>3, <2>5, <2>6 DEF Rows, Last
  <2>8. Past' = Past \union {Rows'}
    BY <2>4, <2>7, WritePast
  <2>9. Told' = Told
    BY <2>2, <2>4, ToldAlike DEF WritesOver, Write
  <2>10. Rows' \in Past \union {{}}
    <3>1. call[c].ask \in Asks /\ call[c].ask.target <= Len(commits) /\ package \in Packages
      BY <1>4, OperatorOver
    <3>2. Target(call[c].ask).rows \in Past \union {{}}
      BY <3>1, TypesOfPast
    <3> QED BY <3>2, <2>3, <2>7
  <2>11. Atomic!BringBack
    BY <2>7, <2>8, <2>9, <2>10 DEF Atomic!BringBack
  <2> QED BY <2>11 DEF Atomic!Next
<1>5. ASSUME NEW c \in Callers, MutateRead(c) \/ KeepRead(c) \/ SystemRead(c) \/ Conflict(c) \/ Stop(c)
      PROVE  UNCHANGED Atomic!vars
  <2>1. UNCHANGED <<ref, commits, deploy, answer>>
    BY <1>5 DEF MutateRead, KeepRead, SystemRead, Conflict, Stop, Saw
  <2>2. Standing' = Standing
    BY <2>1 DEF Standing
  <2> QED BY <2>1, <2>2 DEF Atomic!vars, Rows, Last, Past, Told
<1>6. ASSUME \/ DeployPlan \/ DeployFail \/ DeployWipe \/ DeployRefs \/ DeployCommit \/ DeployIndexes
             \/ DeployEnd
      PROVE  Atomic!Next \/ UNCHANGED Atomic!vars
  <2>1. Passed
    BY <1>6, DeployPreserves
  <2>2. Told' = Told
    BY <2>1, ToldAlike DEF Passed
  <2>3. Past' = Past \/ Past' = Past \union {Rows'}
    <3>1. CASE commits' = commits
      BY <3>1 DEF Past
    <3>2. CASE Added /\ Standing' = ref'
      <4>1. Rows' = ref'.state.rows
        BY <3>2 DEF Rows
      <4>2. \A h \in 1..Len(commits') : h > Len(commits) => commits'[h].state.rows = Rows'
        BY <3>2, <4>1 DEF Added
      <4>3. commits' \in Seq(Commits) /\ Len(commits') >= Len(commits)
            /\ \A h \in 1..Len(commits) : commits'[h] = commits[h]
        BY <3>2 DEF Added
      <4> QED BY <4>2, <4>3, PastGrows
    <3> QED BY <3>1, <3>2, <2>1 DEF Passed
  <2>4. CASE Last' = Last /\ Rows' = Rows
    <3>1. CASE Past' = Past
      BY <2>2, <2>4, <3>1 DEF Atomic!vars
    <3>2. CASE Past' = Past \union {Rows'}
      <4>1. Atomic!Recommit
        BY <2>2, <2>4, <3>2 DEF Atomic!Recommit
      <4> QED BY <4>1 DEF Atomic!Next
    <3> QED BY <2>3, <3>1, <3>2
  <2>5. CASE Last' = NoKey /\ Rows' = {}
    <3>1. Atomic!Reset
      BY <2>2, <2>3, <2>5 DEF Atomic!Reset
    <3> QED BY <3>1 DEF Atomic!Next
  <2> QED BY <2>1, <2>4, <2>5 DEF Passed, Rows, Last
<1>7. CASE UNCHANGED vars
  BY <1>7 DEF vars, Atomic!vars, Rows, Last, Past, Told, Standing
<1> QED BY <1>1, <1>2, <1>3, <1>4, <1>5, <1>6, <1>7 DEF Next

\* A record is an atomic value to its clients, for any number of calls, keys,
\* packages and deploys: no update is lost, and no call is told of a commit that
\* is not its own or its key's (records.ts).
THEOREM RecordsImplements == Spec => ActsAtomically
BY InitImplements, StepImplements, RecordsInvariant, PTL DEF Spec, ActsAtomically, Atomic!Spec

-----------------------------------------------------------------------------
(* Chains                                                                  *)

\* The chains of Records, over any commits.
ChainOf(cs, head) ==
  LET up[h \in 0..Len(cs)] == IF h = 0 THEN {} ELSE {h} \union up[cs[h].parent]
  IN up[head]

RollsOf(cs, head) ==
  LET up[h \in 0..Len(cs)] ==
        IF h = 0 THEN {}
        ELSE {h} \union IF cs[h].kind \in {"$migrate", "$reset"} THEN {} ELSE up[cs[h].parent]
  IN up[head]

LEMMA ChainIs == \A h : Chain(h) = ChainOf(commits, h) /\ RollsTo(h) = RollsOf(commits, h)
BY DEF Chain, ChainOf, RollsTo, RollsOf

\* A commit's parent was there before it.
Climbing(cs) == \A h \in 1..Len(cs) : cs[h].parent \in 0..(h - 1)

\* A commit that is no migration and no reset has its parent's migrations.
Stepping(cs) ==
  \A h \in 1..Len(cs) :
    (cs[h].parent # 0 /\ cs[h].kind \notin {"$migrate", "$reset"})
      => cs[h].state.steps = cs[cs[h].parent].state.steps

\* What a commit reaches is defined by what its parent reaches: the recursion
\* that stops at some commits has a function.
Solves(cs, stop, up) ==
  up = [h \in 0..Len(cs) |-> IF h = 0 THEN {} ELSE {h} \union IF h \in stop THEN {} ELSE up[cs[h].parent]]

LEMMA Reaches ==
  ASSUME NEW cs \in Seq(Commits), Climbing(cs), NEW stop
  PROVE  \E up : Solves(cs, stop, up)
<1> DEFINE above(f, h) == IF h = 0 THEN {} ELSE {h} \union IF h \in stop THEN {} ELSE f[cs[h].parent]
           solves(f, n) == \A h \in 0..n : f[h] = above(f, h)
           S == {n \in Nat : n <= Len(cs) => \E f \in [0..n -> SUBSET Nat] : solves(f, n)}
<1>0. Len(cs) \in Nat
  OBVIOUS
<1>1. ASSUME NEW n \in Nat, \A m \in Nat : m < n => m \in S PROVE n \in S
  <2>1. CASE n = 0
    <3> DEFINE f == [h \in 0..0 |-> {}]
    <3>1. f \in [0..n -> SUBSET Nat] /\ f[0] = {} /\ \A h \in 0..n : h = 0
      BY <2>1
    <3>2. solves(f, n)
      BY <3>1
    <3> QED BY <3>1, <3>2
  <2>2. CASE n # 0 /\ n <= Len(cs)
    <3>1. n - 1 \in Nat /\ n - 1 \in S /\ n - 1 <= Len(cs)
      BY <2>2, <1>1, <1>0
    <3>2. PICK g \in [0..(n - 1) -> SUBSET Nat] : solves(g, n - 1)
      BY <3>1
    <3> DEFINE f == [h \in 0..n |-> IF h = n THEN above(g, n) ELSE g[h]]
    <3>3. cs[n].parent \in 0..(n - 1) /\ \A h \in 0..(n - 1) : h # 0 => cs[h].parent \in 0..(n - 1)
      <4>1. \A h \in 1..n : cs[h].parent \in 0..(h - 1)
        BY <2>2, <1>0 DEF Climbing
      <4>2. n \in 1..n /\ \A h \in 1..n : 0..(h - 1) \subseteq 0..(n - 1)
        BY <2>2
      <4>3. \A h \in 0..(n - 1) : h # 0 => h \in 1..n
        OBVIOUS
      <4> QED BY <4>1, <4>2, <4>3
    <3>4. above(g, n) \in SUBSET Nat
      BY <3>3
    <3>5. f \in [0..n -> SUBSET Nat]
      BY <3>4, <2>2
    <3>6. f[n] = above(g, n) /\ \A h \in 0..(n - 1) : f[h] = g[h]
      BY <2>2
    <3>7. above(f, n) = above(g, n) /\ \A h \in 0..(n - 1) : above(f, h) = above(g, h)
      BY <3>3, <3>6
    <3> HIDE DEF f, above
    <3>8. solves(f, n)
      BY <3>2, <3>6, <3>7, <2>2
    <3> QED BY <3>5, <3>8
  <2> QED BY <2>1, <2>2
<1> HIDE DEF S
<1>2. Nat \subseteq S
  BY <1>1, StrongInduction
<1>3. Len(cs) \in S
  BY <1>0, <1>2
<1>4. PICK f \in [0..Len(cs) -> SUBSET Nat] : solves(f, Len(cs))
  BY <1>0, <1>3 DEF S
<1>5. f = [h \in 0..Len(cs) |-> above(f, h)]
  BY <1>4
<1> QED BY <1>5 DEF Solves

LEMMA ChainUp ==
  ASSUME NEW cs \in Seq(Commits), Climbing(cs)
  PROVE  /\ ChainOf(cs, 0) = {}
         /\ \A h \in 1..Len(cs) : ChainOf(cs, h) = {h} \union ChainOf(cs, cs[h].parent)
<1> DEFINE eqn(f) == f = [h \in 0..Len(cs) |-> IF h = 0 THEN {} ELSE {h} \union f[cs[h].parent]]
           up == CHOOSE f : eqn(f)
<1>1. \E f : eqn(f)
  <2> DEFINE stop == {}
  <2>1. PICK f : Solves(cs, stop, f)
    <3> HIDE DEF stop
    <3> QED BY Reaches
  <2>2. \A h \in 0..Len(cs) : (IF h = 0 THEN {} ELSE {h} \union IF h \in stop THEN {} ELSE f[cs[h].parent])
                            = (IF h = 0 THEN {} ELSE {h} \union f[cs[h].parent])
    OBVIOUS
  <2> HIDE DEF stop
  <2>3. eqn(f)
    BY <2>1, <2>2 DEF Solves
  <2> QED BY <2>3
<1>2. eqn(up)
  <2> HIDE DEF eqn
  <2> QED BY <1>1
<1>3. \A h : ChainOf(cs, h) = up[h]
  BY DEF ChainOf
<1> HIDE DEF up
<1>4. \A h \in 0..Len(cs) : up[h] = IF h = 0 THEN {} ELSE {h} \union up[cs[h].parent]
  BY <1>2
<1>5. Len(cs) \in Nat
  OBVIOUS
<1> HIDE DEF eqn
<1>6. up[0] = {} /\ \A h \in 1..Len(cs) : up[h] = {h} \union up[cs[h].parent]
  <2>1. 0 \in 0..Len(cs) /\ \A h \in 1..Len(cs) : h \in 0..Len(cs) /\ h # 0
    BY <1>5
  <2> QED BY <2>1, <1>4, Zenon
<1> QED BY <1>3, <1>6

LEMMA RollsUp ==
  ASSUME NEW cs \in Seq(Commits), Climbing(cs)
  PROVE  /\ RollsOf(cs, 0) = {}
         /\ \A h \in 1..Len(cs) :
              RollsOf(cs, h) = {h} \union IF cs[h].kind \in {"$migrate", "$reset"} THEN {}
                                          ELSE RollsOf(cs, cs[h].parent)
<1> DEFINE ends(h) == cs[h].kind \in {"$migrate", "$reset"}
           eqn(f) == f = [h \in 0..Len(cs) |-> IF h = 0 THEN {} ELSE {h} \union IF ends(h) THEN {} ELSE f[cs[h].parent]]
           up == CHOOSE f : eqn(f)
           stop == {h \in 1..Len(cs) : ends(h)}
<1>0. Len(cs) \in Nat
  OBVIOUS
<1>1. \E f : eqn(f)
  <2>1. PICK f : Solves(cs, stop, f)
    <3> HIDE DEF stop
    <3> QED BY Reaches
  <2>2. \A h \in 0..Len(cs) : h # 0 => (h \in stop <=> ends(h))
    BY <1>0
  <2> HIDE DEF stop, ends
  <2>3. eqn(f)
    BY <2>1, <2>2 DEF Solves
  <2> QED BY <2>3
<1>2. eqn(up)
  <2> HIDE DEF eqn
  <2> QED BY <1>1
<1>3. \A h : RollsOf(cs, h) = up[h]
  BY DEF RollsOf
<1> HIDE DEF up
<1>4. \A h \in 0..Len(cs) : up[h] = IF h = 0 THEN {} ELSE {h} \union IF ends(h) THEN {} ELSE up[cs[h].parent]
  BY <1>2
<1> HIDE DEF eqn
<1>5. up[0] = {} /\ \A h \in 1..Len(cs) : up[h] = {h} \union IF ends(h) THEN {} ELSE up[cs[h].parent]
  <2>1. 0 \in 0..Len(cs) /\ \A h \in 1..Len(cs) : h \in 0..Len(cs) /\ h # 0
    BY <1>0
  <2> QED BY <2>1, <1>4, Zenon
<1> QED BY <1>3, <1>5

\* What a commit reaches is settled when it is made.
LEMMA ChainStays ==
  ASSUME NEW cs \in Seq(Commits), NEW ds \in Seq(Commits), Climbing(cs), Climbing(ds),
         Len(cs) <= Len(ds), \A h \in 1..Len(cs) : ds[h] = cs[h]
  PROVE  \A h \in 0..Len(cs) : ChainOf(ds, h) = ChainOf(cs, h)
<1> DEFINE S == {n \in Nat : n <= Len(cs) => ChainOf(ds, n) = ChainOf(cs, n)}
<1>0. Len(cs) \in Nat /\ Len(ds) \in Nat
  OBVIOUS
<1>1. ASSUME NEW n \in Nat, \A m \in Nat : m < n => m \in S PROVE n \in S
  <2>1. CASE n = 0
    BY <2>1, ChainUp
  <2>2. CASE n # 0 /\ n <= Len(cs)
    <3>1. n \in 1..Len(cs) /\ n \in 1..Len(ds) /\ ds[n] = cs[n]
      BY <2>2, <1>0
    <3>2. cs[n].parent \in Nat /\ cs[n].parent < n
      BY <3>1 DEF Climbing
    <3>3. ChainOf(ds, cs[n].parent) = ChainOf(cs, cs[n].parent)
      BY <3>2, <2>2, <1>0, <1>1
    <3>4. ChainOf(ds, n) = {n} \union ChainOf(ds, ds[n].parent) /\ ChainOf(cs, n) = {n} \union ChainOf(cs, cs[n].parent)
      BY <3>1, ChainUp
    <3> QED BY <3>1, <3>3, <3>4
  <2> QED BY <2>1, <2>2
<1> HIDE DEF S
<1>2. Nat \subseteq S
  BY <1>1, StrongInduction
<1> QED BY <1>0, <1>2 DEF S

\* A rollback goes back to a state that has had the head's migrations.
LEMMA RollsCrossNone ==
  ASSUME NEW cs \in Seq(Commits), Climbing(cs), Stepping(cs)
  PROVE  \A h \in 1..Len(cs) : \A t \in RollsOf(cs, h) :
           t \in 1..Len(cs) /\ cs[t].state.steps = cs[h].state.steps
<1> DEFINE fine(n) == \A t \in RollsOf(cs, n) : t \in 1..Len(cs) /\ cs[t].state.steps = cs[n].state.steps
           S == {n \in Nat : n \in 1..Len(cs) => fine(n)}
<1>0. Len(cs) \in Nat
  OBVIOUS
<1>1. ASSUME NEW n \in Nat, \A m \in Nat : m < n => m \in S PROVE n \in S
  <2> SUFFICES ASSUME n \in 1..Len(cs) PROVE fine(n)
    OBVIOUS
  <2>1. RollsOf(cs, n) = {n} \union IF cs[n].kind \in {"$migrate", "$reset"} THEN {} ELSE RollsOf(cs, cs[n].parent)
    BY RollsUp
  <2>2. CASE cs[n].kind \in {"$migrate", "$reset"}
    BY <2>1, <2>2
  <2>3. CASE cs[n].kind \notin {"$migrate", "$reset"} /\ cs[n].parent = 0
    BY <2>1, <2>3, RollsUp
  <2>4. CASE cs[n].kind \notin {"$migrate", "$reset"} /\ cs[n].parent # 0
    <3>1. cs[n].parent \in 1..Len(cs) /\ cs[n].parent \in Nat /\ cs[n].parent < n
      BY <2>4, <1>0 DEF Climbing
    <3>2. fine(cs[n].parent)
      BY <3>1, <1>1
    <3>3. cs[n].state.steps = cs[cs[n].parent].state.steps
      BY <2>4 DEF Stepping
    <3> QED BY <2>1, <2>4, <3>2, <3>3
  <2> QED BY <2>2, <2>3, <2>4
<1> HIDE DEF S
<1>2. Nat \subseteq S
  BY <1>1, StrongInduction
<1> QED BY <1>0, <1>2 DEF S

-----------------------------------------------------------------------------
(* The invariant                                                           *)

\* The record a ref holds is at its head, with the migrations it says.
AtHead(cs, r) ==
  /\ r.head \in 0..Len(cs)
  /\ r.held => r.head # 0 /\ r.state.steps = cs[r.head].state.steps /\ r.state.steps = r.schema

Slots(cs, r) ==
  r.migrated \union (IF r.idem = NoKey THEN {} ELSE {r.idemCommit}) \subseteq ChainOf(cs, r.head)

\* What an operator points the record at has had the migrations of what it read.
AskFits(c) ==
  LET ask == call[c].ask
  IN call[c].at = "running" =>
       /\ ask.op = "rollback" => ask.target # 0 /\ commits[ask.target].state.steps = call[c].seen.schema
       /\ ask.op = "restore" => Target(ask).steps = call[c].seen.schema
       /\ ask.op = "init" => Target(ask).steps = package.chain

\* The migrations of the record and of the package, through a deploy.
SchemaInStep ==
  /\ deploy.at \in {"none", "planned"} /\ ref.held => ref.schema = package.chain
  /\ deploy.at \in {"committed", "indexed"} /\ ref.held => ref.schema = deploy.package.chain
  /\ deploy.at \in {"planned", "wiped", "written"} /\ deploy.action = "keep" =>
       deploy.prior.schema = deploy.package.chain
  /\ deploy.at = "wiped" => ref = NoRef

ChainInv ==
  /\ Climbing(commits) /\ Stepping(commits)
  /\ AtHead(commits, Standing) /\ Slots(commits, Standing)
  /\ \A c \in InFlight : AskFits(c)
  /\ SchemaInStep

LEMMA NoChain ==
  ASSUME NEW cs \in Seq(Commits)
  PROVE  AtHead(cs, NoRef) /\ Slots(cs, NoRef)
BY DEF AtHead, Slots, NoRef

LEMMA ChainInit == Init => ChainInv
<1> SUFFICES ASSUME Init PROVE ChainInv
  OBVIOUS
<1>1. commits = <<>> /\ ref = NoRef /\ Standing = NoRef /\ InFlight = {} /\ deploy.at = "none" /\ ~NoRef.held
  BY DEF Init, Standing, NoDeploy, InFlight, Idle, NoRef
<1>2. commits \in Seq(Commits) /\ Len(commits) = 0
  BY <1>1
<1>3. AtHead(commits, Standing) /\ Slots(commits, Standing)
  BY <1>1, <1>2, NoChain
<1>4. Climbing(commits) /\ Stepping(commits)
  BY <1>2 DEF Climbing, Stepping
<1> QED BY <1>1, <1>3, <1>4 DEF ChainInv, SchemaInStep

-----------------------------------------------------------------------------
(* A commit more                                                           *)

LEMMA Grown ==
  ASSUME TypeOK, Climbing(commits), Stepping(commits),
         NEW parent \in 0..Len(commits), NEW state \in States, NEW kind \in Kinds,
         parent # 0 => state.steps = commits[parent].state.steps,
         commits' = Commit(parent, state, kind)
  PROVE  /\ commits' \in Seq(Commits) /\ Len(commits') = Newest /\ Newest = Len(commits) + 1
         /\ Climbing(commits') /\ Stepping(commits')
         /\ \A h \in 1..Len(commits) : commits'[h] = commits[h]
         /\ \A h \in 0..Len(commits) : ChainOf(commits', h) = ChainOf(commits, h)
         /\ commits'[Newest].state = state
         /\ ChainOf(commits', Newest) = {Newest} \union ChainOf(commits, parent)
<1>1. commits \in Seq(Commits) /\ Len(commits) \in Nat
  BY DEF TypeOK
<1>2. /\ commits' \in Seq(Commits) /\ Len(commits') = Newest /\ Newest = Len(commits) + 1
      /\ \A h \in 1..Len(commits) : commits'[h] = commits[h]
      /\ commits'[Newest] = [parent |-> parent, state |-> state, kind |-> kind]
  BY <1>1, Committed DEF Newest
<1>3. \A h \in 1..Len(commits') : h \in 1..Len(commits) \/ h = Newest
  BY <1>1, <1>2
<1>4. Climbing(commits')
  BY <1>1, <1>2, <1>3 DEF Climbing
<1>5. Stepping(commits')
  <2> SUFFICES ASSUME NEW h \in 1..Len(commits'), commits'[h].parent # 0,
                      commits'[h].kind \notin {"$migrate", "$reset"}
               PROVE  commits'[h].state.steps = commits'[commits'[h].parent].state.steps
    BY DEF Stepping
  <2>1. CASE h \in 1..Len(commits)
    <3>1. commits'[h] = commits[h] /\ commits[h].parent \in 1..Len(commits)
      BY <2>1, <1>1, <1>2 DEF Climbing
    <3>2. commits'[commits[h].parent] = commits[commits[h].parent]
      BY <3>1, <1>2
    <3> QED BY <2>1, <3>1, <3>2 DEF Stepping
  <2>2. CASE h = Newest
    <3>1. commits'[h].parent = parent /\ commits'[h].state = state /\ parent \in 1..Len(commits)
      BY <2>2, <1>1, <1>2
    <3>2. commits'[parent] = commits[parent]
      BY <3>1, <1>2
    <3> QED BY <3>1, <3>2
  <2> QED BY <2>1, <2>2, <1>3
<1>6. \A h \in 0..Len(commits) : ChainOf(commits', h) = ChainOf(commits, h)
  BY <1>1, <1>2, <1>4, ChainStays
<1>7. ChainOf(commits', Newest) = {Newest} \union ChainOf(commits, parent)
  <2>1. Newest \in 1..Len(commits') /\ commits'[Newest].parent = parent
    BY <1>1, <1>2
  <2>2. ChainOf(commits', Newest) = {Newest} \union ChainOf(commits', parent)
    BY <2>1, <1>2, <1>4, ChainUp
  <2> QED BY <2>2, <1>6
<1> QED BY <1>2, <1>4, <1>5, <1>6, <1>7

\* What the calls in flight ask for is as it was while the commits only grow.
LEMMA AsksStay ==
  ASSUME IInv, NEW c \in Callers, call[c].at = "running", AskFits(c), call'[c] = call[c], UNCHANGED package,
         commits' \in Seq(Commits), \A h \in 1..Len(commits) : commits'[h] = commits[h]
  PROVE  AskFits(c)'
<1>1. InStep(c) /\ call[c] \in CallRecords
  BY Flying
<1>2. call[c].ask.target \in 0..Len(commits)
  BY <1>1 DEF InStep, CallRecords, Asks, IInv, TypeOK
<1>3. call[c].ask.target # 0 => commits'[call[c].ask.target] = commits[call[c].ask.target]
  BY <1>2
<1>4. Target(call[c].ask)' = Target(call[c].ask)
  BY <1>3 DEF Target
<1> QED BY <1>3, <1>4 DEF AskFits

\* A call's write: over the head or none, with the migrations the ref then says,
\* naming only what it commits or what its parent's chain has.
LEMMA WriteChains ==
  ASSUME IInv, ChainInv, NEW c \in Callers, call[c].at = "running",
         NEW parent \in {0, ref.head}, NEW state \in States, NEW kind \in Kinds, NEW next \in Refs,
         Write(c, parent, state, kind, next),
         parent # 0 => state.steps = commits[parent].state.steps,
         state.steps = next.schema, next.schema = package.chain,
         next.migrated \union (IF next.idem = NoKey THEN {} ELSE {next.idemCommit})
           \subseteq {Newest} \union ChainOf(commits, parent)
  PROVE  ChainInv'
<1>1. TypeOK /\ commits \in Seq(Commits) /\ call \in [Callers -> CallRecords] /\ Len(commits) \in Nat
  BY Types DEF IInv
<1>2. deploy.at = "none" /\ Standing = ref /\ Climbing(commits) /\ Stepping(commits)
  BY Flying DEF ChainInv
<1>3. parent \in 0..Len(commits)
  BY <1>1, <1>2 DEF ChainInv, AtHead
<1>4. /\ commits' = Commit(parent, state, kind)
      /\ ref' = [next EXCEPT !.held = TRUE, !.state = state, !.head = Newest]
      /\ call' = [call EXCEPT ![c] = Done] /\ UNCHANGED <<package, deploy>>
  BY DEF Write
<1>5. /\ commits' \in Seq(Commits) /\ Len(commits') = Newest /\ Newest = Len(commits) + 1
      /\ Climbing(commits') /\ Stepping(commits')
      /\ \A h \in 1..Len(commits) : commits'[h] = commits[h]
      /\ commits'[Newest].state = state
      /\ ChainOf(commits', Newest) = {Newest} \union ChainOf(commits, parent)
  BY <1>1, <1>2, <1>3, <1>4, Grown
<1>6. /\ ref'.held /\ ref'.head = Newest /\ ref'.state = state /\ ref'.schema = next.schema
      /\ ref'.migrated = next.migrated /\ ref'.idem = next.idem /\ ref'.idemCommit = next.idemCommit
  BY <1>4 DEF Refs
<1>7. Standing' = ref' /\ deploy'.at = "none"
  BY <1>2, <1>4 DEF Standing
<1>8. AtHead(commits', ref')
  BY <1>1, <1>5, <1>6 DEF AtHead
<1>9. Slots(commits', ref')
  BY <1>5, <1>6 DEF Slots
<1>10. ASSUME NEW d \in Callers, call'[d].at = "running" PROVE AskFits(d)'
  <2>1. d # c /\ call'[d] = call[d]
    BY <1>10, <1>1, <1>4 DEF Done
  <2>2. d \in InFlight
    BY <2>1, <1>10 DEF InFlight
  <2> QED BY <2>1, <2>2, <1>4, <1>5, <1>10, AsksStay DEF ChainInv
<1>11. SchemaInStep'
  BY <1>4, <1>6, <1>7 DEF SchemaInStep
<1> QED BY <1>5, <1>7, <1>8, <1>9, <1>10, <1>11 DEF ChainInv, InFlight, AskFits

LEMMA CallChains ==
  ASSUME IInv, ChainInv, NEW c \in Callers,
         MutateWrite(c) \/ ReindexWrite(c) \/ CompactWrite(c) \/ SystemWrite(c) \/ InitWrite(c)
  PROVE  ChainInv'
<1>1. call[c].at = "running" /\ Unmoved(c)
  BY DEF MutateWrite, ReindexWrite, CompactWrite, SystemWrite, InitWrite, Running, Write
<1>2. InStep(c) /\ package \in Packages /\ Standing = ref /\ deploy.at = "none" /\ call[c] \in CallRecords
  BY <1>1, Flying
<1>3. call[c].seen = ref /\ (call[c].ask.op # "init" => ref.held) /\ (call[c].ask.op = "init" => ~ref.held)
  BY <1>1, <1>2 DEF InStep, Unmoved
<1>4. /\ TypeOK /\ ref \in Refs /\ commits \in Seq(Commits) /\ ref.state \in States
      /\ package.chain \in Nat /\ package.index \in Indexes
  BY <1>2, Types, PackageType DEF IInv, Refs
<1>5. ref.held => /\ ref.head # 0 /\ ref.state.steps = commits[ref.head].state.steps
                  /\ ref.state.steps = ref.schema /\ ref.schema = package.chain
  BY <1>2 DEF ChainInv, AtHead, SchemaInStep
<1>6. ref.migrated \union (IF ref.idem = NoKey THEN {} ELSE {ref.idemCommit}) \subseteq ChainOf(commits, ref.head)
  BY <1>2 DEF ChainInv, Slots
<1>7. Newest \in Nat /\ Newest # 0
  BY <1>4 DEF Newest
<1>8. AskFits(c)
  BY <1>1 DEF ChainInv, InFlight
<1>9. CASE MutateWrite(c)
  <2> DEFINE state == [ref.state EXCEPT !.rows = ref.state.rows \union {c},
                         !.indexed = IF ref.state.index = NoIndex THEN {} ELSE ref.state.indexed \union {c}]
             next == [ref EXCEPT !.idem = KeyOf[c], !.idemCommit = IF KeyOf[c] # NoKey THEN Newest ELSE 0]
  <2>1. c \in Calls /\ KeyOf[c] \in Keys /\ ref.held
    BY <1>9, <1>3, MutateOver DEF Keys, MutateWrite, Running
  <2>2. state \in States /\ state.steps = ref.state.steps
    BY <2>1, <1>4 DEF States
  <2>3. /\ next \in Refs /\ next.schema = ref.schema /\ next.migrated = ref.migrated /\ next.idem = KeyOf[c]
        /\ next.idem # NoKey => next.idemCommit = Newest
    BY <2>1, <1>4, <1>7 DEF Refs
  <2>4. Write(c, ref.head, state, "mutation", next)
    BY <1>9, <1>3 DEF MutateWrite
  <2>5. "mutation" \in Kinds /\ ref.head \in {0, ref.head}
    BY DEF Kinds
  <2>6. next.migrated \union (IF next.idem = NoKey THEN {} ELSE {next.idemCommit})
          \subseteq {Newest} \union ChainOf(commits, ref.head)
    BY <2>3, <1>6
  <2> HIDE DEF state, next
  <2> QED BY <2>1, <2>2, <2>3, <2>4, <2>5, <2>6, <1>1, <1>5, WriteChains
<1>10. CASE ReindexWrite(c)
  <2> DEFINE state == [ref.state EXCEPT !.index = package.index,
                         !.indexed = IF package.index = NoIndex THEN {} ELSE ref.state.rows]
  <2>1. ref.held /\ Write(c, ref.head, state, "$reindex", ref)
    BY <1>10, <1>3 DEF ReindexWrite, Running
  <2>2. state \in States /\ state.steps = ref.state.steps /\ "$reindex" \in Kinds /\ ref.head \in {0, ref.head}
    BY <1>4 DEF States, Kinds
  <2> HIDE DEF state
  <2> QED BY <2>1, <2>2, <1>1, <1>4, <1>5, <1>6, WriteChains
<1>11. CASE CompactWrite(c)
  <2> DEFINE next == [ref EXCEPT !.idemCommit = IF ref.idem # NoKey THEN Newest ELSE 0, !.migrated = {}]
  <2>1. ref.held /\ Write(c, 0, ref.state, "$compact", next)
    BY <1>11, <1>3 DEF CompactWrite, Running
  <2>2. /\ next \in Refs /\ next.schema = ref.schema /\ next.migrated = {} /\ next.idem = ref.idem
        /\ next.idem # NoKey => next.idemCommit = Newest
    BY <1>4, <1>7 DEF Refs
  <2>3. "$compact" \in Kinds
    BY DEF Kinds
  <2>4. next.migrated \union (IF next.idem = NoKey THEN {} ELSE {next.idemCommit})
          \subseteq {Newest} \union ChainOf(commits, 0)
    BY <2>2
  <2> HIDE DEF next
  <2> QED BY <2>1, <2>2, <2>3, <2>4, <1>1, <1>4, <1>5, WriteChains
<1>12. CASE SystemWrite(c)
  <2> DEFINE target == Target(call[c].ask)
             state == Indexed(target, package.index)
  <2>1. PICK kind \in {"$rollback", "$restore"} : Write(c, ref.head, state, kind, ref)
    BY <1>12, <1>3 DEF SystemWrite
  <2>2. call[c].ask.op \in {"rollback", "restore"} /\ ref.held
    BY <1>12, <1>3 DEF SystemWrite, Running
  <2>3. target \in States /\ Sound(target)
    BY <1>2, <1>4, TargetState DEF InStep, CallRecords, IInv
  <2>4. target.steps = ref.schema
    <3>1. CASE call[c].ask.op = "rollback"
      BY <3>1, <1>1, <1>3, <1>8 DEF AskFits, Target
    <3>2. CASE call[c].ask.op = "restore"
      BY <3>2, <1>1, <1>3, <1>8 DEF AskFits
    <3> QED BY <3>1, <3>2, <2>2
  <2> HIDE DEF target
  <2>5. state \in States /\ state.steps = target.steps
    BY <2>3, <1>4 DEF Indexed, States
  <2>6. kind \in Kinds /\ ref.head \in {0, ref.head}
    BY DEF Kinds
  <2> HIDE DEF state
  <2> QED BY <2>1, <2>2, <2>4, <2>5, <2>6, <1>1, <1>4, <1>5, <1>6, WriteChains
<1>13. CASE InitWrite(c)
  <2> DEFINE target == Target(call[c].ask)
             state == Indexed(target, package.index)
             next == [NoRef EXCEPT !.schema = package.chain,
                        !.migrated = IF package.chain = 0 THEN {} ELSE {Newest}]
  <2>1. Write(c, 0, state, "$init", next) /\ call[c].ask.op = "init"
    BY <1>13 DEF InitWrite, Running
  <2>2. target \in States /\ Sound(target) /\ target.steps = package.chain
    BY <2>1, <1>1, <1>2, <1>4, <1>8, TargetState DEF InStep, CallRecords, IInv, AskFits
  <2> HIDE DEF target
  <2>3. state \in States /\ state.steps = target.steps /\ "$init" \in Kinds /\ 0 \in {0, ref.head}
    BY <2>2, <1>4 DEF Indexed, States, Kinds
  <2>4. /\ next \in Refs /\ next.schema = package.chain /\ next.idem = NoKey /\ next.migrated \subseteq {Newest}
    BY <1>4, <1>7, NoRefType DEF Refs, NoRef
  <2> HIDE DEF state, next
  <2> QED BY <2>1, <2>2, <2>3, <2>4, <1>1, WriteChains
<1> QED BY <1>9, <1>10, <1>11, <1>12, <1>13

\* What a call reads, and a call that ends or conflicts, is no commit.
LEMMA ReadChains ==
  ASSUME IInv, ChainInv, NEW c \in Callers,
         \/ MutateRead(c) \/ MutateRepeat(c) \/ KeepRead(c) \/ SystemRead(c) \/ Conflict(c) \/ Stop(c)
  PROVE  ChainInv'
<1>1. /\ UNCHANGED <<ref, commits, deploy, package>>
      /\ \E called \in CallRecords : call' = [call EXCEPT ![c] = called]
  BY ReadPreserves
<1>2. TypeOK /\ commits \in Seq(Commits) /\ call \in [Callers -> CallRecords] /\ ref \in Refs
  BY Types DEF IInv
<1>3. \A d \in Callers : d # c => call'[d] = call[d]
  BY <1>1, <1>2
<1>4. ASSUME NEW d \in Callers, d # c, call'[d].at = "running" PROVE AskFits(d)'
  <2>1. d \in InFlight
    BY <1>3, <1>4 DEF InFlight
  <2> QED BY <2>1, <1>1, <1>2, <1>3, <1>4, AsksStay DEF ChainInv
<1>5. ASSUME call'[c].at = "running" PROVE AskFits(c)'
  <2>1. CASE MutateRead(c)
    <3>1. call'[c].ask.op = "mutate"
      BY <2>1, <1>2 DEF MutateRead, Saw, NoAsk
    <3> QED BY <3>1 DEF AskFits
  <2>2. CASE KeepRead(c)
    <3>1. call'[c].ask.op \in {"reindex", "compact"}
      BY <2>2, <1>2 DEF KeepRead, Saw
    <3> QED BY <3>1 DEF AskFits
  <2>3. CASE SystemRead(c)
    <3>1. PICK ask : SystemTarget(ask) /\ Saw(c, ask)
      BY <2>3 DEF SystemRead
    <3>2. call'[c].ask = ask /\ call'[c].seen = ref
      BY <3>1, <1>2 DEF Saw
    <3>3. MayRead(c)
      BY <2>3 DEF SystemRead
    <3>4. deploy.at = "none"
      BY <3>3, Flying DEF MayRead
    <3>5. Target(ask)' = Target(ask)
      BY <1>1 DEF Target
    <3>6. CASE ask.op = "rollback"
      <4>1. ref.held /\ ask.target \in RollsOf(commits, ref.head)
        BY <3>1, <3>6, ChainIs DEF SystemTarget
      <4>2. ref.head \in 1..Len(commits) /\ ref.state.steps = commits[ref.head].state.steps /\ ref.state.steps = ref.schema
        BY <4>1, <3>4, <1>2 DEF ChainInv, AtHead, Standing
      <4>c. Climbing(commits) /\ Stepping(commits)
        BY DEF ChainInv
      <4>r. \A t \in RollsOf(commits, ref.head) :
              t \in 1..Len(commits) /\ commits[t].state.steps = commits[ref.head].state.steps
        BY <4>2, <4>c, <1>2, RollsCrossNone
      <4>3. ask.target # 0 /\ commits[ask.target].state.steps = ref.schema
        BY <4>1, <4>2, <4>r
      <4>4. commits'[ask.target].state.steps = ref.schema
        BY <4>3, <1>1
      <4> QED BY <4>3, <4>4, <3>2, <3>6 DEF AskFits
    <3>7. CASE ask.op # "rollback"
      <4>1. ask.op = "restore" => Target(ask).steps = ref.schema
        BY <3>1 DEF SystemTarget
      <4>2. ask.op = "init" => Target(ask).steps = package.chain
        BY <3>1 DEF SystemTarget
      <4> QED BY <4>1, <4>2, <3>2, <3>5, <3>7, <1>1 DEF AskFits
    <3> QED BY <3>6, <3>7
  <2>4. CASE MutateRepeat(c) \/ Stop(c) \/ Conflict(c)
    BY <2>4, <1>2, <1>5 DEF MutateRepeat, Stop, Conflict, Done, Idle, CallRecords
  <2> QED BY <2>1, <2>2, <2>3, <2>4
<1>6. \A d \in InFlight' : AskFits(d)'
  BY <1>4, <1>5 DEF InFlight, AskFits
<1>7. Standing' = Standing
  BY <1>1 DEF Standing
<1> QED BY <1>1, <1>6, <1>7 DEF ChainInv, SchemaInStep

-----------------------------------------------------------------------------
(* The deploys                                                             *)

\* A deploy's root: a chain of its own.
LEMMA RootChains ==
  ASSUME IInv, ChainInv, deploy.at # "none", NEW kind \in {"$init", "$reset"}, Root(kind)
  PROVE  /\ Climbing(commits') /\ Stepping(commits')
         /\ AtHead(commits', ref') /\ Slots(commits', ref') /\ ref'.schema = deploy.package.chain
<1> DEFINE chain == deploy.package.chain
           state == Fresh({}, chain)
<1>1. chain \in Nat /\ TypeOK /\ commits \in Seq(Commits) /\ Len(commits) \in Nat
  BY Alone, PackageType, Types DEF IInv
<1>2. state \in States /\ state.steps = chain /\ kind \in Kinds /\ 0 \in 0..Len(commits)
  BY <1>1, FreshState DEF Fresh, Kinds
<1>3. /\ commits' = Commit(0, state, kind)
      /\ ref' = [NoRef EXCEPT !.held = TRUE, !.state = state, !.head = Newest, !.schema = chain,
                   !.migrated = IF chain = 0 THEN {} ELSE {Newest}]
  BY DEF Root
<1> HIDE DEF state
<1>4. /\ Len(commits') = Newest /\ Newest = Len(commits) + 1
      /\ Climbing(commits') /\ Stepping(commits')
      /\ commits'[Newest].state = state
      /\ ChainOf(commits', Newest) = {Newest} \union ChainOf(commits, 0)
  BY <1>1, <1>2, <1>3, Grown DEF ChainInv
<1>5. /\ ref'.held /\ ref'.head = Newest /\ ref'.state = state /\ ref'.schema = chain /\ ref'.idem = NoKey
      /\ ref'.migrated \subseteq {Newest}
  BY <1>3 DEF NoRef
<1> QED BY <1>1, <1>2, <1>4, <1>5 DEF AtHead, Slots

\* A commit over what a ref holds, that changes no more than its index.
LEMMA OverChains ==
  ASSUME TypeOK, Climbing(commits), Stepping(commits), NEW r \in Refs, r.held,
         AtHead(commits, r), Slots(commits, r), NEW state \in States, state.steps = r.state.steps,
         NEW kind \in Kinds, commits' = Commit(r.head, state, kind),
         ref' = [r EXCEPT !.state = state, !.head = Newest]
  PROVE  /\ Climbing(commits') /\ Stepping(commits')
         /\ AtHead(commits', ref') /\ Slots(commits', ref') /\ ref'.schema = r.schema
<1>1. r.head \in 0..Len(commits) /\ r.head # 0 /\ state.steps = commits[r.head].state.steps /\ state.steps = r.schema
  BY DEF AtHead
<1>2. commits \in Seq(Commits) /\ Len(commits) \in Nat
  BY DEF TypeOK
<1>3. /\ Len(commits') = Newest /\ Newest = Len(commits) + 1
      /\ Climbing(commits') /\ Stepping(commits')
      /\ commits'[Newest].state = state
      /\ ChainOf(commits', Newest) = {Newest} \union ChainOf(commits, r.head)
  BY <1>1, Grown
<1>4. /\ ref'.held /\ ref'.head = Newest /\ ref'.state = state /\ ref'.schema = r.schema /\ ref'.idem = r.idem
      /\ ref'.idemCommit = r.idemCommit /\ ref'.migrated = r.migrated
  BY DEF Refs
<1> QED BY <1>1, <1>2, <1>3, <1>4 DEF AtHead, Slots

LEMMA MigrateChains ==
  ASSUME IInv, ChainInv, deploy.at = "written", deploy.action = "migrate", Migrate
  PROVE  /\ Climbing(commits') /\ Stepping(commits')
         /\ AtHead(commits', ref') /\ Slots(commits', ref') /\ ref'.schema = deploy.package.chain
<1> DEFINE prior == deploy.prior
           chain == deploy.package.chain
           steps == chain - prior.schema
           last == Len(commits) + steps
           state(i) == Fresh(prior.state.rows, prior.schema + i)
           step(i) == [parent |-> IF i = 1 THEN prior.head ELSE Len(commits) + i - 1,
                       state |-> state(i), kind |-> "$migrate"]
           tail == [i \in 1..steps |-> step(i)]
<1>1. /\ TypeOK /\ commits \in Seq(Commits) /\ Len(commits) \in Nat /\ prior \in Refs /\ chain \in Nat
      /\ prior.schema < chain /\ prior.held /\ Standing = prior
  BY Types, Alone, PackageType DEF IInv, DeployInStep, Standing
<1>2. prior.schema \in Nat /\ prior.head \in 0..Len(commits) /\ prior.head # 0
  BY <1>1 DEF ChainInv, AtHead, Refs
<1>3. steps \in Nat /\ steps # 0 /\ last \in Nat /\ last > Len(commits)
  BY <1>1, <1>2
<1>4. commits' = commits \o tail
  BY DEF Migrate
<1>5. commits' \in Seq(Commits)
  BY <1>1, MigrateEffect DEF Added
<1>6. /\ Len(commits') = last
      /\ \A h \in 1..Len(commits) : commits'[h] = commits[h]
      /\ \A h \in 1..last : h > Len(commits) => commits'[h] = step(h - Len(commits))
  <2>1. tail \in Seq({step(i) : i \in 1..steps}) /\ Len(tail) = steps
    <3> HIDE DEF step, steps
    <3> QED BY <1>3
  <2> HIDE DEF tail
  <2>2. /\ Len(commits') = Len(commits) + steps
        /\ \A h \in 1..Len(commits) : commits'[h] = commits[h]
        /\ \A h \in 1..Len(commits') : h > Len(commits) => commits'[h] = tail[h - Len(commits)]
    <3> DEFINE both == Commits \union {step(i) : i \in 1..steps}
    <3>1. commits \in Seq(both) /\ tail \in Seq(both)
      <4> HIDE DEF step, steps
      <4> QED BY <1>1, <2>1
    <3> HIDE DEF both, steps
    <3>2. /\ Len(commits \o tail) = Len(commits) + Len(tail)
          /\ \A h \in 1..Len(commits) : (commits \o tail)[h] = commits[h]
          /\ \A h \in 1..Len(commits \o tail) : h > Len(commits) => (commits \o tail)[h] = tail[h - Len(commits)]
      BY <3>1, Joined
    <3> HIDE DEF tail
    <3> QED BY <3>2, <1>4, <2>1
  <2>3. \A i \in 1..steps : tail[i] = step(i)
    <3> HIDE DEF step, steps
    <3> QED BY DEF tail
  <2> HIDE DEF step
  <2> QED BY <2>2, <2>3, <1>1, <1>3
<1>7. \A h \in 1..last : h > Len(commits) =>
        /\ commits'[h].parent = IF h = Len(commits) + 1 THEN prior.head ELSE h - 1
        /\ commits'[h].state = state(h - Len(commits)) /\ commits'[h].kind = "$migrate"
  <2> HIDE DEF state, steps, last
  <2> QED BY <1>1, <1>3, <1>6
<1>8. Climbing(commits')
  <2> SUFFICES ASSUME NEW h \in 1..Len(commits') PROVE commits'[h].parent \in 0..(h - 1)
    BY DEF Climbing
  <2> HIDE DEF last, step, prior
  <2>1. CASE h > Len(commits)
    <3>1. commits'[h].parent = IF h = Len(commits) + 1 THEN prior.head ELSE h - 1
      BY <2>1, <1>6, <1>7
    <3>2. h \in Nat /\ Len(commits) \in Nat /\ h > Len(commits)
      BY <2>1, <1>1
    <3> QED BY <3>1, <3>2, <1>2
  <2>2. CASE ~(h > Len(commits))
    BY <2>2, <1>1, <1>6 DEF ChainInv, Climbing
  <2> QED BY <2>1, <2>2
<1>9. Stepping(commits')
  <2> SUFFICES ASSUME NEW h \in 1..Len(commits'), commits'[h].parent # 0,
                      commits'[h].kind \notin {"$migrate", "$reset"}
               PROVE  commits'[h].state.steps = commits'[commits'[h].parent].state.steps
    BY DEF Stepping
  <2> HIDE DEF last, step, prior
  <2>1. h \in 1..Len(commits)
    BY <1>1, <1>6, <1>7
  <2>2. commits'[h] = commits[h] /\ commits[h].parent \in 1..Len(commits)
    BY <2>1, <1>1, <1>6 DEF ChainInv, Climbing
  <2>3. commits'[commits[h].parent] = commits[commits[h].parent]
    BY <2>2, <1>6
  <2> QED BY <2>1, <2>2, <2>3 DEF ChainInv, Stepping
<1>10. \A h \in 0..Len(commits) : ChainOf(commits', h) = ChainOf(commits, h)
  <2> HIDE DEF last, step
  <2> QED BY <1>1, <1>3, <1>5, <1>6, <1>8, ChainStays DEF ChainInv
<1> DEFINE landed(n) ==
             n \in (Len(commits) + 1)..last =>
               (Len(commits) + 1)..n \union ChainOf(commits, prior.head) \subseteq ChainOf(commits', n)
<1>11. landed(last)
  <2> DEFINE S == {n \in Nat : landed(n)}
  <2>1. ASSUME NEW n \in Nat, \A m \in Nat : m < n => m \in S PROVE landed(n)
    <3> SUFFICES ASSUME n \in (Len(commits) + 1)..last
                 PROVE  (Len(commits) + 1)..n \union ChainOf(commits, prior.head) \subseteq ChainOf(commits', n)
      OBVIOUS
    <3> HIDE DEF last, step, prior
    <3>1. n \in 1..Len(commits') /\ n > Len(commits) /\ n \in 1..last
      BY <1>1, <1>3, <1>6
    <3>2. ChainOf(commits', n) = {n} \union ChainOf(commits', commits'[n].parent)
      BY <3>1, <1>5, <1>8, ChainUp
    <3>3. CASE n = Len(commits) + 1
      <4>1. commits'[n].parent = prior.head
        BY <3>1, <3>3, <1>7
      <4>2. ChainOf(commits', n) = {n} \union ChainOf(commits, prior.head)
        BY <4>1, <3>2, <1>2, <1>10
      <4>3. (Len(commits) + 1)..n = {n}
        BY <3>3, <1>1
      <4> QED BY <4>2, <4>3
    <3>4. CASE n # Len(commits) + 1
      <4>1. commits'[n].parent = n - 1
        BY <3>1, <3>4, <1>7
      <4>2. n - 1 \in Nat /\ n - 1 < n /\ n - 1 \in (Len(commits) + 1)..last
        BY <3>1, <3>4, <1>1, <1>3
      <4>3. (Len(commits) + 1)..(n - 1) \union ChainOf(commits, prior.head) \subseteq ChainOf(commits', n - 1)
        BY <4>2, <2>1
      <4>4. (Len(commits) + 1)..n \subseteq (Len(commits) + 1)..(n - 1) \union {n}
        BY <1>1
      <4> QED BY <4>1, <4>3, <4>4, <3>2
    <3> QED BY <3>3, <3>4
  <2>2. \A n \in Nat : (\A m \in Nat : m < n => m \in S) => n \in S
    BY <2>1
  <2> HIDE DEF S
  <2>3. Nat \subseteq S
    BY <2>2, StrongInduction
  <2> HIDE DEF landed, last
  <2> QED BY <2>3, <1>3 DEF S
<1>12. (Len(commits) + 1)..last \union ChainOf(commits, prior.head) \subseteq ChainOf(commits', last)
       /\ last \in (Len(commits) + 1)..last
  <2>1. last \in (Len(commits) + 1)..last
    <3> HIDE DEF last
    <3> QED BY <1>1, <1>3
  <2> QED BY <2>1, <1>11
<1>13. /\ ref'.state = Fresh(prior.state.rows, chain) /\ ref'.head = last /\ ref'.schema = chain
       /\ ref'.migrated = prior.migrated \union (Len(commits) + 1)..last /\ ref'.idem = prior.idem
       /\ ref'.idem # NoKey => ref'.idemCommit = last
  <2>1. ref' = [prior EXCEPT !.state = Fresh(prior.state.rows, chain), !.head = last,
                  !.schema = chain, !.migrated = @ \union (Len(commits) + 1)..last,
                  !.idemCommit = IF prior.idem # NoKey THEN last ELSE @]
    BY DEF Migrate, Newest
  <2> HIDE DEF prior, last, chain
  <2> QED BY <2>1, <1>1 DEF Refs
<1>14. Slots(commits', ref')
  <2>1. prior.migrated \subseteq ChainOf(commits, prior.head)
    BY <1>1 DEF ChainInv, Slots
  <2> HIDE DEF last, prior
  <2> QED BY <2>1, <1>12, <1>13 DEF Slots
<1>15. AtHead(commits', ref')
  <2>1. commits'[last].state = state(last - Len(commits)) /\ last - Len(commits) = steps
    <3> HIDE DEF state
    <3> QED BY <1>1, <1>3, <1>7
  <2>2. state(steps) = Fresh(prior.state.rows, chain)
    BY <1>1, <1>2
  <2>3. Fresh(prior.state.rows, chain).steps = chain
    BY DEF Fresh
  <2> HIDE DEF last, state, steps
  <2> QED BY <2>1, <2>2, <2>3, <1>3, <1>6, <1>13 DEF AtHead
<1> QED BY <1>8, <1>9, <1>13, <1>14, <1>15

\* A deploy takes the record up with the migrations its package counts.
LEMMA CommitChains ==
  ASSUME IInv, ChainInv, DeployCommit
  PROVE  /\ Climbing(commits') /\ Stepping(commits')
         /\ AtHead(commits', ref') /\ Slots(commits', ref')
         /\ ref'.held => ref'.schema = deploy.package.chain
<1> DEFINE prior == deploy.prior
<1>1. deploy.at = "written"
  BY DEF DeployCommit, DeployStep
<1>2. /\ TypeOK /\ commits \in Seq(Commits) /\ prior \in Refs /\ Standing = prior /\ deploy.package \in Packages
      /\ Climbing(commits) /\ Stepping(commits) /\ AtHead(commits, prior) /\ Slots(commits, prior)
  BY <1>1, Types, Alone DEF IInv, Standing, ChainInv
<1>3. /\ deploy.action \in {"mint", "unassigned"} <=> ~prior.held
      /\ deploy.action = "unassigned" => ~deploy.package.initial
      /\ deploy.action = "keep" => prior.schema = deploy.package.chain
      /\ ref = Unversioned(deploy.package)
  BY <1>1 DEF IInv, DeployInStep, ChainInv, SchemaInStep
<1>4. NoRef.held = FALSE /\ AtHead(commits, NoRef) /\ Slots(commits, NoRef)
  BY <1>2, NoChain DEF NoRef
<1>5. CASE deploy.action = "mint" /\ Root("$init")
  BY <1>1, <1>5, RootChains
<1>6. CASE deploy.action = "keep" /\ Keep
  <2>1. CASE deploy.package = package
    <3>1. ref' = prior /\ commits' = commits
      BY <1>6, <2>1 DEF Keep
    <3> QED BY <3>1, <1>2, <1>3, <1>6
  <2>2. CASE deploy.package # package
    <3>1. commits' = Commit(prior.head, prior.state, "$deploy") /\ ref' = [prior EXCEPT !.head = Newest]
      BY <1>6, <2>2 DEF Keep
    <3>2. prior.held /\ prior.state \in States /\ "$deploy" \in Kinds
      BY <1>2, <1>3, <1>6 DEF Refs, Kinds
    <3>3. ref' = [prior EXCEPT !.state = prior.state, !.head = Newest]
      BY <3>1, <1>2 DEF Refs
    <3>4. prior.schema = deploy.package.chain
      BY <1>3, <1>6
    <3> HIDE DEF prior
    <3> QED BY <3>1, <3>2, <3>3, <3>4, <1>2, OverChains
  <2> QED BY <2>1, <2>2
<1>7. CASE deploy.action = "migrate" /\ Migrate
  BY <1>1, <1>7, MigrateChains
<1>8. CASE deploy.action = "reset" /\ Root("$reset")
  BY <1>1, <1>8, RootChains
<1>9. CASE deploy.action = "unassign" /\ ref' = NoRef /\ UNCHANGED commits
  BY <1>2, <1>4, <1>9
<1>10. CASE deploy.action = "unassigned" /\ UNCHANGED <<ref, commits>>
  <2>1. ref' = NoRef
    BY <1>2, <1>3, <1>10, UnversionedType
  <2> QED BY <2>1, <1>2, <1>4, <1>10
<1> QED BY <1>5, <1>6, <1>7, <1>8, <1>9, <1>10 DEF DeployCommit

LEMMA DeployChains ==
  ASSUME IInv, ChainInv,
         \/ DeployPlan \/ DeployFail \/ DeployWipe \/ DeployRefs \/ DeployCommit \/ DeployIndexes \/ DeployEnd
  PROVE  ChainInv'
<1>1. /\ TypeOK /\ commits \in Seq(Commits) /\ ref \in Refs
      /\ Climbing(commits) /\ Stepping(commits) /\ AtHead(commits, Standing) /\ Slots(commits, Standing) /\ SchemaInStep
  BY Types DEF IInv, ChainInv
<1>2. InFlight' = {}
  <2>1. UNCHANGED call
    BY DEF DeployPlan, DeployFail, DeployWipe, DeployRefs, DeployCommit, DeployIndexes, DeployEnd
  <2>2. InFlight = {}
    BY Alone DEF DeployPlan, DeployFail, DeployWipe, DeployRefs, DeployCommit, DeployIndexes, DeployEnd, DeployStep
  <2> QED BY <2>1, <2>2 DEF InFlight
<1>3. CASE DeployPlan
  <2>1. PICK p \in Packages, reset \in BOOLEAN :
          deploy' = [at |-> "planned", package |-> p, action |-> Plan(p, reset), prior |-> ref]
    BY <1>3 DEF DeployPlan
  <2>2. deploy.at = "none" /\ UNCHANGED <<ref, commits, package>> /\ Standing' = Standing
    BY <1>3, <2>1 DEF DeployPlan, Standing
  <2>3. Plan(p, reset) = "keep" => ref.schema = p.chain
    BY DEF Plan
  <2> QED BY <2>1, <2>2, <2>3, <1>1, <1>2 DEF ChainInv, SchemaInStep
<1>4. CASE DeployFail
  <2>1. deploy.at = "planned" /\ deploy'.at = "none" /\ UNCHANGED <<ref, commits, package>> /\ Standing' = Standing
    BY <1>4 DEF DeployFail, NoDeploy, Standing
  <2> QED BY <2>1, <1>1, <1>2 DEF ChainInv, SchemaInStep
<1>5. CASE DeployWipe
  <2>1. /\ deploy.at = "planned" /\ deploy'.at = "wiped" /\ deploy'.package = deploy.package
        /\ deploy'.action = deploy.action /\ deploy'.prior = deploy.prior
    BY <1>5, StepType DEF DeployWipe
  <2>2. UNCHANGED <<commits, package>> /\ ref' = NoRef /\ ~NoRef.held /\ Standing' = Standing
    BY <1>5, <2>1 DEF DeployWipe, NoRef, Standing, IInv, DeployInStep
  <2> QED BY <2>1, <2>2, <1>1, <1>2 DEF ChainInv, SchemaInStep
<1>6. CASE DeployRefs
  <2>1. /\ deploy.at = "wiped" /\ deploy'.at = "written" /\ deploy'.package = deploy.package
        /\ deploy'.action = deploy.action /\ deploy'.prior = deploy.prior
    BY <1>6, StepType DEF DeployRefs
  <2>2. UNCHANGED <<commits, package>> /\ Standing' = Standing
    BY <1>6, <2>1 DEF DeployRefs, Standing
  <2> QED BY <2>1, <2>2, <1>1, <1>2 DEF ChainInv, SchemaInStep
<1>7. CASE DeployCommit
  <2>1. deploy'.at = "committed" /\ deploy'.package = deploy.package
    BY <1>7, StepType DEF DeployCommit
  <2>2. Standing' = ref'
    BY <2>1 DEF Standing
  <2> QED BY <2>1, <2>2, <1>2, <1>7, CommitChains DEF ChainInv, SchemaInStep
<1>8. CASE DeployIndexes
  <2>1. deploy.at = "committed" /\ deploy'.at = "indexed" /\ deploy'.package = deploy.package /\ deploy.package \in Packages
    BY <1>8, StepType, Alone DEF DeployIndexes
  <2>2. Standing = ref /\ Standing' = ref'
    BY <2>1 DEF Standing
  <2> DEFINE index == deploy.package.index
             state == Indexed(ref.state, index)
  <2>3. CASE ref.held /\ ref.state.index # index
    <3>1. commits' = Commit(ref.head, state, "$reindex") /\ ref' = [ref EXCEPT !.state = state, !.head = Newest]
      BY <1>8, <2>3 DEF DeployIndexes
    <3>2. state \in States /\ state.steps = ref.state.steps /\ "$reindex" \in Kinds
      BY <2>1, <1>1, PackageType DEF Refs, Indexed, States, Kinds
    <3> HIDE DEF state
    <3>3. /\ Climbing(commits') /\ Stepping(commits') /\ AtHead(commits', ref') /\ Slots(commits', ref')
          /\ ref'.schema = ref.schema
      BY <3>1, <3>2, <2>2, <2>3, <1>1, OverChains
    <3> QED BY <3>3, <2>1, <2>2, <2>3, <1>1, <1>2 DEF ChainInv, SchemaInStep
  <2>4. CASE ~(ref.held /\ ref.state.index # index)
    <3>1. UNCHANGED <<ref, commits>>
      BY <1>8, <2>4 DEF DeployIndexes
    <3> QED BY <3>1, <2>1, <2>2, <1>1, <1>2 DEF ChainInv, SchemaInStep
  <2> QED BY <2>3, <2>4
<1>9. CASE DeployEnd
  <2>1. /\ deploy.at = "indexed" /\ deploy'.at = "none" /\ package' = deploy.package
        /\ UNCHANGED <<ref, commits>> /\ Standing' = Standing
    BY <1>9 DEF DeployEnd, NoDeploy, Standing
  <2> QED BY <2>1, <1>1, <1>2 DEF ChainInv, SchemaInStep
<1> QED BY <1>3, <1>4, <1>5, <1>6, <1>7, <1>8, <1>9

LEMMA ChainNext == IInv /\ ChainInv /\ [Next]_vars => ChainInv'
<1> SUFFICES ASSUME IInv, ChainInv, [Next]_vars PROVE ChainInv'
  OBVIOUS
<1>1. CASE UNCHANGED vars
  BY <1>1 DEF vars, ChainInv, SchemaInStep, InFlight, AskFits, Target, Standing
<1> QED BY <1>1, ReadChains, CallChains, DeployChains DEF Next

LEMMA ChainInvariant == Spec => []ChainInv
BY ChainInit, ChainNext, RecordsInvariant, PTL DEF Spec

-----------------------------------------------------------------------------
(* What the record keeps                                                   *)

\* Every commit the ref names, its key's and its migrations', is in the chain
\* of its head, whatever was compacted, rolled back, migrated or raced
\* (recordCompact, recordMutate, commitDeployRecords).
THEOREM RecordsSlotsInChain == Spec => []SlotsInChain
<1>1. ChainInv => SlotsInChain
  BY ChainIs DEF ChainInv, Slots, SlotsInChain
<1> QED BY <1>1, ChainInvariant, PTL

\* The state has had the migrations its ref says, and between deploys those are
\* the deployed package's: nothing an operator commits crosses one
\* (recordSystemCommit, planDeployRecords).
THEOREM RecordsAtItsSchema == Spec => []AtItsSchema
<1>1. IInv /\ ChainInv => AtItsSchema
  <2> SUFFICES ASSUME IInv, ChainInv PROVE AtItsSchema
    OBVIOUS
  <2>1. CASE deploy.at \in {"wiped", "written"}
    <3>1. NoRef.head = 0 /\ Unversioned(deploy.package).head = 0
      BY DEF NoRef, Unversioned
    <3>2. ref \in {NoRef, Unversioned(deploy.package)}
      BY <2>1 DEF IInv, DeployInStep, ChainInv, SchemaInStep
    <3> QED BY <3>1, <3>2, <2>1 DEF AtItsSchema
  <2>2. CASE deploy.at \notin {"wiped", "written"}
    <3>1. AtHead(commits, ref) /\ (~ref.held => ref = NoRef)
      BY <2>2 DEF ChainInv, Standing, IInv, Vectors, Vector
    <3>2. NoRef.head = 0
      BY DEF NoRef
    <3> QED BY <3>1, <3>2 DEF AtHead, AtItsSchema, ChainInv, SchemaInStep
  <2> QED BY <2>1, <2>2
<1> QED BY <1>1, ChainInvariant, RecordsInvariant, PTL
=============================================================================
