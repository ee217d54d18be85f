-------------------------------- MODULE Records --------------------------------
(***************************************************************************)
(* A record of a workspace (e3-core): mutations, reindexes, compactions    *)
(* and an operator's commits, each a loop of read, compute and conditional *)
(* write over one ref, and the deploys that keep, migrate or reset it.     *)
(*                                                                         *)
(* A commit is named by its place in commits, since a commit's time makes  *)
(* its hash its own. A commit whose conditional write lost is named by     *)
(* nothing and left out. A state is the calls whose writes it holds, how   *)
(* many migrations it has had, and its index. A client that hears nothing   *)
(* and retries is another call with the same key, which may begin before,  *)
(* while or after the first one runs.                                      *)
(***************************************************************************)
EXTENDS Naturals, Sequences

CONSTANTS
  Calls,          \* the calls of mutations,
  Keepers,        \* those that reindex or compact the record,
  Operators,      \* and those that roll back, restore or begin it
  KeyOf, NoKey,   \* each mutation's idempotency key
  Packages,       \* what may be deployed: [chain, index, initial]
  TypeAt,         \* the record's type after so many of its migrations
  NoPackage,
  NoIndex,        \* a package that declares no index, a state that holds none
  MaxDeploys      \* bound on the deploys begun

ASSUME RecordsAssumption ==
  /\ Calls \intersect (Keepers \union Operators) = {} /\ Keepers \intersect Operators = {}
  /\ DOMAIN KeyOf = Calls
  /\ NoPackage \notin Packages
  /\ \A p \in Packages : p.chain \in Nat /\ 0..p.chain \subseteq DOMAIN TypeAt /\ p.initial \in BOOLEAN
  /\ MaxDeploys \in Nat

VARIABLES
  ref,      \* the record's ref: its state and its version vector
  revision, \* the token each write of the ref mints
  commits,  \* the commit objects
  call,     \* where each call is, and what it read
  answer,   \* the commit a mutation was told it committed, or 0
  applied,  \* the mutations committed since the last reset, in order
  package,  \* the package the workspace says is deployed
  deploy,   \* the deploy that holds the workspace
  deploys   \* how many have begun

vars == <<ref, revision, commits, call, answer, applied, package, deploy, deploys>>

Callers == Calls \union Keepers \union Operators
Keys == {KeyOf[c] : c \in Calls} \union {NoKey}
Indexes == {p.index : p \in Packages} \union {NoIndex}
States == [rows: SUBSET Calls, steps: Nat, index: Indexes, indexed: SUBSET Calls]
Kinds == {"mutation", "$reindex", "$compact", "$rollback", "$restore", "$init", "$deploy", "$migrate", "$reset"}
Commits == [parent: Nat, state: States, kind: Kinds]

\* The version vector: the head, $idem, $idem.commit, how many migrations
\* $schema names, and the commits $migrations names.
Refs == [held: BOOLEAN, state: States, head: Nat, idem: Keys, idemCommit: Nat,
         schema: Nat, migrated: SUBSET Nat]

Ops == {"mutate", "reindex", "compact", "rollback", "restore", "init"}
Asks == [op: Ops, target: Nat, expected: Nat]

\* A state that has no index yet.
Fresh(rows, steps) == [rows |-> rows, steps |-> steps, index |-> NoIndex, indexed |-> {}]
NoRef == [held |-> FALSE, state |-> Fresh({}, 0), head |-> 0, idem |-> NoKey, idemCommit |-> 0,
          schema |-> 0, migrated |-> {}]
NoAsk == [op |-> "mutate", target |-> 0, expected |-> 0]
Idle == [at |-> "idle", seen |-> NoRef, revision |-> 0, ask |-> NoAsk]
Done == [Idle EXCEPT !.at = "done"]
NoDeploy == [at |-> "none", package |-> NoPackage, action |-> "none", prior |-> NoRef]

TypeOK ==
  /\ ref \in Refs
  /\ revision \in Nat
  /\ commits \in Seq(Commits)
  /\ call \in [Callers -> [at: {"idle", "running", "retry", "done"}, seen: Refs, revision: Nat, ask: Asks]]
  /\ answer \in [Calls -> Nat]
  /\ applied \in Seq(Calls)
  /\ package \in Packages \union {NoPackage}
  /\ deploy \in [at: {"none", "planned", "wiped", "written", "committed", "indexed"},
                 package: Packages \union {NoPackage},
                 action: {"none", "mint", "unassigned", "keep", "migrate", "reset", "unassign"}, prior: Refs]
  /\ deploys \in 0..MaxDeploys
  /\ ref.idem = NoKey <=> ref.idemCommit = 0

Init ==
  /\ ref = NoRef /\ revision = 0 /\ commits = <<>>
  /\ call = [c \in Callers |-> Idle]
  /\ answer = [c \in Calls |-> 0]
  /\ applied = <<>>
  /\ package = NoPackage /\ deploy = NoDeploy /\ deploys = 0

-----------------------------------------------------------------------------
(* The commit chain *)

Newest == Len(commits) + 1

\* The commits a head reaches by its parents.
Chain(head) ==
  LET up[h \in 0..Len(commits)] == IF h = 0 THEN {} ELSE {h} \union up[commits[h].parent]
  IN up[head]

\* Mutant of RollsTo: a rollback goes as far as the chain does.
RollsAnywhere(head) == Chain(head)

\* Those a rollback may go back to: none past a migration or a reset.
RollsTo(head) ==
  LET up[h \in 0..Len(commits)] ==
        IF h = 0 THEN {}
        ELSE {h} \union IF commits[h].kind \in {"$migrate", "$reset"} THEN {} ELSE up[commits[h].parent]
  IN up[head]

Commit(parent, state, kind) == Append(commits, [parent |-> parent, state |-> state, kind |-> kind])

\* Mutant of Indexed: an index of the name is kept whatever it was built by.
IndexedByName(state, index) ==
  IF state.index # NoIndex THEN state
  ELSE [state EXCEPT !.index = index, !.indexed = IF index = NoIndex THEN {} ELSE state.rows]

\* The state with the index the package declares, built where it does not hold it.
Indexed(state, index) ==
  IF state.index = index THEN state
  ELSE [state EXCEPT !.index = index, !.indexed = IF index = NoIndex THEN {} ELSE state.rows]

-----------------------------------------------------------------------------
(* A call: under the workspace's shared lock, read, compute, write if the  *)
(* revision still stands, and read again when it does not.                 *)

InFlight == {c \in Callers : call[c].at \in {"running", "retry"}}

\* A call begins when no deploy holds the workspace, and holds it until it ends.
MayRead(c) ==
  \/ call[c].at = "idle" /\ deploy.at = "none" /\ package # NoPackage
  \/ call[c].at = "retry"

\* A retry asks for what the call asked for; a call that begins asks for anything.
AskedFor(c, ask) == call[c].at = "retry" => ask = call[c].ask

Saw(c, ask) ==
  /\ call' = [call EXCEPT ![c] = [at |-> "running", seen |-> ref, revision |-> revision, ask |-> ask]]
  /\ UNCHANGED <<ref, revision, commits, answer, applied, package, deploy, deploys>>

Repeats(c) == KeyOf[c] # NoKey /\ ref.idem = KeyOf[c] /\ ref.idemCommit # 0

MutateRead(c) ==
  /\ c \in Calls /\ MayRead(c) /\ ref.held /\ ~Repeats(c)
  /\ Saw(c, NoAsk)

\* The record's last mutation committed under this key: answer with its commit.
MutateRepeat(c) ==
  /\ c \in Calls /\ MayRead(c) /\ ref.held /\ Repeats(c)
  /\ call' = [call EXCEPT ![c] = Done]
  /\ answer' = [answer EXCEPT ![c] = ref.idemCommit]
  /\ UNCHANGED <<ref, revision, commits, applied, package, deploy, deploys>>

\* What an operator's commit points the record at: a state it has had, or one
\* from elsewhere, which holds none of these calls' writes.
Target(ask) == IF ask.target = 0 THEN Fresh({}, package.chain) ELSE commits[ask.target].state

\* Mutant of SystemTarget: the head expected is checked only where it was read.
SystemTargetUnchecked(ask) ==
  /\ \/ ask.op = "rollback" /\ ref.held /\ ask.target \in RollsTo(ref.head)
     \/ ask.op = "restore" /\ ref.held /\ Target(ask).steps = ref.schema
     \/ ask.op = "init" /\ ~ref.held /\ Target(ask).steps = package.chain
  /\ TypeAt[Target(ask).steps] = TypeAt[package.chain]

\* A rollback stays in the chain and crosses no migration; a restore, or a
\* first state, has had the migrations the record has, or will count as had.
\* A migration may keep the type, so the type says nothing of them.
SystemTarget(ask) ==
  /\ ask.expected \in {0, ref.head}
  /\ \/ ask.op = "rollback" /\ ref.held /\ ask.target \in RollsTo(ref.head)
     \/ ask.op = "restore" /\ ref.held /\ Target(ask).steps = ref.schema
     \/ ask.op = "init" /\ ~ref.held /\ Target(ask).steps = package.chain
  /\ TypeAt[Target(ask).steps] = TypeAt[package.chain]

KeepRead(c) ==
  /\ c \in Keepers /\ MayRead(c) /\ ref.held
  /\ \E op \in {"reindex", "compact"} :
       LET ask == [op |-> op, target |-> 0, expected |-> 0]
       IN AskedFor(c, ask) /\ Saw(c, ask)

\* A call that begins may expect the head as it stands.
SystemAsks ==
  [op: {"rollback", "restore", "init"}, target: 0..Len(commits), expected: {0, ref.head}]

SystemRead(c) ==
  /\ c \in Operators /\ MayRead(c)
  /\ \E ask \in IF call[c].at = "retry" THEN {call[c].ask} ELSE SystemAsks :
       SystemTarget(ask) /\ Saw(c, ask)

\* What ends a call and leaves the record alone: a refusal, a failed program,
\* a delta that disagrees, the retries spent, or its process's death.
Stop(c) ==
  /\ call[c].at \in {"running", "retry"}
  /\ call' = [call EXCEPT ![c] = Done]
  /\ UNCHANGED <<ref, revision, commits, answer, applied, package, deploy, deploys>>

Running(c, op) == call[c].at = "running" /\ call[c].ask.op = op

\* Mutant of Unmoved: the write is unconditional.
UnmovedOrNot(c) == TRUE

\* The conditional write: the ref has the revision that was read.
Unmoved(c) == call[c].revision = revision

Conflict(c) ==
  /\ call[c].at = "running" /\ ~Unmoved(c)
  /\ call' = [call EXCEPT ![c].at = "retry"]
  /\ UNCHANGED <<ref, revision, commits, answer, applied, package, deploy, deploys>>

\* The commit is stored and the ref names it, and then the caller is told.
Write(c, parent, state, kind, next) ==
  /\ Unmoved(c)
  /\ commits' = Commit(parent, state, kind)
  /\ ref' = [next EXCEPT !.held = TRUE, !.state = state, !.head = Newest]
  /\ revision' = revision + 1
  /\ call' = [call EXCEPT ![c] = Done]
  /\ answer' = IF c \in Calls THEN [answer EXCEPT ![c] = Newest] ELSE answer
  /\ UNCHANGED <<package, deploy, deploys>>

\* The delta rewrites the primary and every index the state holds. A mutation
\* owns the idempotency slots, and drops them when it has no key.
MutateWrite(c) ==
  LET seen == call[c].seen
      keyed == KeyOf[c] # NoKey
      rows == seen.state.rows \union {c}
      state == [seen.state EXCEPT !.rows = rows,
                  !.indexed = IF seen.state.index = NoIndex THEN {} ELSE seen.state.indexed \union {c}]
  IN /\ Running(c, "mutate") /\ TypeAt[seen.state.steps] = TypeAt[package.chain]
     /\ Write(c, seen.head, state, "mutation",
          [seen EXCEPT !.idem = KeyOf[c], !.idemCommit = IF keyed THEN Newest ELSE 0])
     /\ applied' = Append(applied, c)

\* Mutant of ReindexWrite: its version vector is built without the key's slots.
ReindexForgets(c) ==
  LET seen == call[c].seen
  IN /\ Running(c, "reindex")
     /\ Write(c, seen.head, Indexed(seen.state, package.index), "$reindex",
          [seen EXCEPT !.idem = NoKey, !.idemCommit = 0])
     /\ UNCHANGED applied

ReindexWrite(c) ==
  LET seen == call[c].seen
      state == [seen.state EXCEPT !.index = package.index,
                  !.indexed = IF package.index = NoIndex THEN {} ELSE seen.state.rows]
  IN /\ Running(c, "reindex")
     /\ Write(c, seen.head, state, "$reindex", seen)
     /\ UNCHANGED applied

\* Mutant of CompactWrite: the key is still answered by the commit cut away.
CompactCarries(c) ==
  LET seen == call[c].seen
  IN /\ Running(c, "compact")
     /\ Write(c, 0, seen.state, "$compact", [seen EXCEPT !.migrated = {}])
     /\ UNCHANGED applied

\* The new root answers the key the chain it cuts held, and $migrations names
\* no commit of that chain.
CompactWrite(c) ==
  LET seen == call[c].seen
  IN /\ Running(c, "compact")
     /\ Write(c, 0, seen.state, "$compact",
          [seen EXCEPT !.idemCommit = IF seen.idem # NoKey THEN Newest ELSE 0, !.migrated = {}])
     /\ UNCHANGED applied

\* An operator's commit over the head, its index the package's, every slot carried.
SystemWrite(c) ==
  LET ask == call[c].ask
      seen == call[c].seen
  IN /\ Running(c, "rollback") \/ Running(c, "restore")
     /\ Write(c, seen.head, Indexed(Target(ask), package.index),
          IF ask.op = "rollback" THEN "$rollback" ELSE "$restore", seen)
     /\ UNCHANGED applied

\* The first state of a record that holds none.
InitWrite(c) ==
  /\ Running(c, "init")
  /\ Write(c, 0, Indexed(Target(call[c].ask), package.index), "$init",
       [NoRef EXCEPT !.schema = package.chain, !.migrated = IF package.chain = 0 THEN {} ELSE {Newest}])
  /\ UNCHANGED applied

-----------------------------------------------------------------------------
(* A deploy: alone in the workspace, it plans, wipes the workspace's refs,  *)
(* writes the package's, commits the record's and its index's, and says at  *)
(* last which package is deployed.                                          *)

\* The type the workspace says the record has is its deployed package's.
Plan(p, reset) ==
  LET refused == IF ~reset THEN "refused" ELSE IF p.initial THEN "reset" ELSE "unassign"
  IN IF package = NoPackage \/ ~ref.held THEN IF p.initial THEN "mint" ELSE "unassigned"
     ELSE IF ref.schema > p.chain THEN refused
     ELSE IF ref.schema = p.chain THEN IF TypeAt[package.chain] = TypeAt[p.chain] THEN "keep" ELSE refused
     ELSE IF TypeAt[package.chain] = TypeAt[ref.schema] THEN "migrate" ELSE refused

DeployPlan ==
  /\ deploy.at = "none" /\ InFlight = {} /\ deploys < MaxDeploys
  /\ \E p \in Packages, reset \in BOOLEAN :
       /\ Plan(p, reset) # "refused"
       /\ deploy' = [at |-> "planned", package |-> p, action |-> Plan(p, reset), prior |-> ref]
  /\ deploys' = deploys + 1
  /\ UNCHANGED <<ref, revision, commits, call, answer, applied, package>>

\* A migration or an index's build failed, or the deploy died, before the wipe.
DeployFail ==
  /\ deploy.at = "planned"
  /\ deploy' = NoDeploy
  /\ UNCHANGED <<ref, revision, commits, call, answer, applied, package, deploys>>

DeployStep(from, to) == deploy.at = from /\ deploy' = [deploy EXCEPT !.at = to]

DeployWipe ==
  /\ DeployStep("planned", "wiped")
  /\ ref' = NoRef /\ revision' = revision + 1
  /\ UNCHANGED <<commits, call, answer, applied, package, deploys>>

Unversioned(p) == [NoRef EXCEPT !.held = p.initial, !.state = Fresh({}, IF p.initial THEN p.chain ELSE 0)]

DeployRefs ==
  /\ DeployStep("wiped", "written")
  /\ ref' = Unversioned(deploy.package) /\ revision' = revision + 1
  /\ UNCHANGED <<commits, call, answer, applied, package, deploys>>

\* A root commit at the package's type: a mint, or a reset that drops the key.
Root(kind) ==
  LET p == deploy.package
  IN /\ commits' = Commit(0, Fresh({}, p.chain), kind)
     /\ ref' = [NoRef EXCEPT !.held = TRUE, !.state = Fresh({}, p.chain), !.head = Newest,
                  !.schema = p.chain, !.migrated = IF p.chain = 0 THEN {} ELSE {Newest}]

\* Kept as the workspace held it, its history saying so when the package changed.
Keep ==
  IF deploy.package = package
  THEN ref' = deploy.prior /\ UNCHANGED commits
  ELSE /\ commits' = Commit(deploy.prior.head, deploy.prior.state, "$deploy")
       /\ ref' = [deploy.prior EXCEPT !.head = Newest]

\* A commit a step over the state it left, the last answering the key.
Migrate ==
  LET prior == deploy.prior
      steps == deploy.package.chain - prior.schema
      last == Len(commits) + steps
      step(i) == [parent |-> IF i = 1 THEN prior.head ELSE Len(commits) + i - 1,
                  state |-> Fresh(prior.state.rows, prior.schema + i), kind |-> "$migrate"]
  IN /\ commits' = commits \o [i \in 1..steps |-> step(i)]
     /\ ref' = [prior EXCEPT !.state = Fresh(prior.state.rows, deploy.package.chain), !.head = last,
                  !.schema = deploy.package.chain, !.migrated = @ \union Newest..last,
                  !.idemCommit = IF prior.idem # NoKey THEN last ELSE @]

DeployCommit ==
  LET action == deploy.action
  IN /\ DeployStep("written", "committed")
     /\ \/ action = "mint" /\ Root("$init")
        \/ action = "keep" /\ Keep
        \/ action = "migrate" /\ Migrate
        \/ action = "reset" /\ Root("$reset")
        \/ action = "unassign" /\ ref' = NoRef /\ UNCHANGED commits
        \/ action = "unassigned" /\ UNCHANGED <<ref, commits>>
     /\ applied' = IF action \in {"reset", "unassign"} THEN <<>> ELSE applied
     /\ revision' = revision + 1
     /\ UNCHANGED <<call, answer, package, deploys>>

\* The index is committed when the state's is not the package's.
DeployIndexes ==
  LET index == deploy.package.index
  IN /\ DeployStep("committed", "indexed")
     /\ IF ref.held /\ ref.state.index # index
        THEN /\ commits' = Commit(ref.head, Indexed(ref.state, index), "$reindex")
             /\ ref' = [ref EXCEPT !.state = Indexed(ref.state, index), !.head = Newest]
             /\ revision' = revision + 1
        ELSE UNCHANGED <<ref, revision, commits>>
     /\ UNCHANGED <<call, answer, applied, package, deploys>>

DeployEnd ==
  /\ deploy.at = "indexed"
  /\ package' = deploy.package /\ deploy' = NoDeploy
  /\ UNCHANGED <<ref, revision, commits, call, answer, applied, deploys>>

Next ==
  \/ \E c \in Callers :
       \/ MutateRead(c) \/ MutateRepeat(c) \/ KeepRead(c) \/ SystemRead(c)
       \/ MutateWrite(c) \/ ReindexWrite(c) \/ CompactWrite(c) \/ SystemWrite(c) \/ InitWrite(c)
       \/ Conflict(c) \/ Stop(c)
  \/ DeployPlan \/ DeployFail \/ DeployWipe \/ DeployRefs \/ DeployCommit \/ DeployIndexes \/ DeployEnd

Spec == Init /\ [][Next]_vars

-----------------------------------------------------------------------------
(* Properties *)

\* The ref as the deploy that wiped it will take it up.
Standing == IF deploy.at \in {"wiped", "written"} THEN deploy.prior ELSE ref

\* A mutation that is sent again under its key is applied again only when
\* another mutation has been committed between: not by a retry that races the
\* call it repeats, and not because a reindex, a compaction, a rollback, a
\* restore, a migration or a kept deploy came between (records.ts).
AppliedOnce ==
  \A i, j \in DOMAIN applied :
    i < j /\ KeyOf[applied[i]] = KeyOf[applied[j]] /\ KeyOf[applied[i]] # NoKey =>
      \E n \in i..j : KeyOf[applied[n]] # KeyOf[applied[i]]

\* Every commit the ref names, the one that answers its key and those that
\* applied its migrations, is in the chain of its head, which is what keeps
\* it from being collected (recordMutate, recordCompact, commitDeployRecords).
SlotsInChain ==
  LET named == Standing.migrated \union IF Standing.idem = NoKey THEN {} ELSE {Standing.idemCommit}
  IN named \subseteq Chain(Standing.head)

\* The head's index is over the head's own rows whatever was racing: a
\* reindex, a rollback or a deploy never commits one built over other rows,
\* and between deploys it is the one the deployed package declares.
IndexAgrees ==
  /\ ref.held /\ ref.state.index # NoIndex => ref.state.indexed = ref.state.rows
  /\ ref.held /\ deploy.at \in {"none", "planned"} => ref.state.index = package.index

\* The state has had the migrations its ref says were applied, and between
\* deploys those are the deployed package's: no rollback or restore crosses one,
\* though the type may be the same on both sides of it.
AtItsSchema ==
  /\ ref.head # 0 => ref.state.steps = ref.schema
  /\ ref.held /\ deploy.at \in {"none", "planned"} => ref.schema = package.chain

\* An operator's commit that expects a head is made over that head alone, even
\* when its first write lost the race and it read again (recordSystemCommit).
NotOverUnseen ==
  [][\A c \in Operators : commits' # commits /\ call'[c] # call[c] /\ call[c].ask.expected # 0 =>
       commits'[Newest].parent = call[c].ask.expected]_vars

\* A record is an atomic value to its clients: no update is lost, and no call is
\* told it committed when it did not.
Rows == Standing.state.rows
Last == Standing.idem
Past == {commits[h].state.rows : h \in DOMAIN commits}
Told == {c \in Calls : answer[c] # 0}
Atomic == INSTANCE AtomicRecord WITH rows <- Rows, last <- Last, past <- Past, told <- Told
ActsAtomically == Atomic!Spec
=============================================================================
