---------------------------- MODULE CollectorProofs ----------------------------
(***************************************************************************)
(* Proofs, for any objects, writers, runs and bounds, that a collection    *)
(* beside running work keeps its types, what writers have found, and what  *)
(* the refs reach.                                                         *)
(***************************************************************************)
EXTENDS Collector, TLAPS

USE DEF apart

-----------------------------------------------------------------------------
(* Types                                                                   *)

LEMMA Numbers ==
  /\ Window \in Nat /\ Window > 0 /\ MinAge \in Nat
  /\ WriteTime \in Nat /\ RunTime \in Nat /\ MaxDeaths \in Nat
  /\ NoObject \notin Objects /\ Names \in [Objects -> SUBSET Objects]
BY CollectorAssumption DEF CollectorAssumption

LEMMA ReachTyped == \A roots, readable : Reach(roots, readable) \subseteq Objects
BY DEF Reach

LEMMA OlderAges ==
  ASSUME NEW age \in Ages \union {Unnoted}
  PROVE  /\ Older(age) \in Ages \union {Unnoted}
         /\ Older(age) <= age + 1
         /\ age = Unnoted <=> Older(age) = Unnoted
         /\ age = Window => Older(age) = Window
         /\ age \in Ages => Older(age) \in Ages
BY Numbers DEF Older, Ages, Unnoted

LEMMA InitTyped == Init => TypeOK
<1> SUFFICES ASSUME Init PROVE TypeOK
  OBVIOUS
<1>1. Idle \in Writes
  BY Numbers DEF Idle, Writes
<1>2. Resting \in Runs
  BY Numbers DEF Resting, Runs, Stages, Ages
<1> QED BY <1>1, <1>2, Numbers DEF Init, TypeOK, Ages, Unnoted

LEMMA NewerTyped ==
  ASSUME NEW q \in Runs, NEW o \in Objects
  PROVE  [q EXCEPT !.newer = @ \union {o}] \in Runs /\ [q EXCEPT !.newer = @ \ {o}] \in Runs
BY DEF Runs

LEMMA AgedTyped ==
  ASSUME NEW q \in Runs
  PROVE  Aged(q) \in Runs
BY DEF Aged, Runs

LEMMA StageTyped ==
  ASSUME NEW q \in Runs, NEW o \in Objects, NEW stage \in Stages, NEW since \in Ages
  PROVE  /\ [q EXCEPT !.stage[o] = stage] \in Runs
         /\ [q EXCEPT !.stage[o] = stage, !.since[o] = since] \in Runs
BY DEF Runs

\* The writers' records keep their types.
LEMMA WriteTyped ==
  ASSUME TypeOK, NEW w \in Writers, Write(w)
  PROVE  TypeOK'
<1> USE Numbers
<1>1. writer \in [Writers -> Writes] /\ writer[w] \in Writes /\ Idle \in Writes
  BY DEF TypeOK, Idle, Writes
<1>2. \A o \in Objects : Names[o] \subseteq Objects
  OBVIOUS
<1>3. CASE \E op \in {"touch", "write"}, o \in Objects : Begin(w, op, o)
  <2>1. PICK op \in {"touch", "write"}, o \in Objects : Begin(w, op, o)
    BY <1>3
  <2>2. [Idle EXCEPT !.op = op, !.target = o,
           !.todo = IF op = "write" THEN Reach({o}, Objects) ELSE {o}] \in Writes
    BY <1>1, ReachTyped DEF Writes, Idle
  <2> QED BY <1>1, <2>1, <2>2 DEF Begin, TypeOK
<1>4. CASE \E o \in Objects : ClearNote(w, o)
  <2>1. PICK o \in Objects : ClearNote(w, o)
    BY <1>4
  <2>2. writer' \in [Writers -> Writes]
    BY <1>1, <2>1 DEF ClearNote, Writes
  <2> QED BY <2>1, <2>2 DEF ClearNote, TypeOK
<1>5. CASE \E o \in Objects : Read(w, o)
  <2>1. PICK o \in Objects : Read(w, o)
    BY <1>5
  <2>2. writer' \in [Writers -> Writes]
    <3> DEFINE new == [writer[w] EXCEPT !.unread = @ \ {o}, !.todo = @ \union (Names[o] \ writer[w].found)]
    <3>1. new \in Writes
      BY <1>1, <1>2 DEF Writes
    <3>2. writer' = [writer EXCEPT ![w] = new]
      BY <2>1 DEF Read
    <3> HIDE DEF new
    <3> QED BY <1>1, <3>1, <3>2
  <2> QED BY <2>1, <2>2 DEF Read, TypeOK
<1>6. ASSUME NEW o \in Objects, Found(w, o)
      PROVE  writer' \in [Writers -> Writes]
  <2> DEFINE new == [writer[w] EXCEPT !.todo = @ \ {o}, !.found = @ \union {o},
                       !.looking = NoObject, !.absent = FALSE,
                       !.unread = IF writer[w].op = "touch" /\ Names[o] # {} THEN @ \union {o} ELSE @]
  <2>1. new \in Writes
    BY <1>1 DEF Writes
  <2>2. writer' = [writer EXCEPT ![w] = new]
    BY <1>1, <1>6 DEF Found, Writes
  <2> QED BY <1>1, <2>1, <2>2
<1>7. CASE Look(w)
  <2>1. writer[w].looking \in Objects
    BY <1>1, <1>7 DEF Look, Writes
  <2>2. \A new \in Writes : [writer EXCEPT ![w] = new] \in [Writers -> Writes]
    BY <1>1
  <2>3. [writer[w] EXCEPT !.absent = TRUE] \in Writes
    BY <1>1 DEF Writes
  <2>4. [writer EXCEPT ![w].absent = TRUE] = [writer EXCEPT ![w] = [writer[w] EXCEPT !.absent = TRUE]]
    BY <1>1
  <2>5. writer' \in [Writers -> Writes]
    BY <1>1, <1>6, <1>7, <2>1, <2>2, <2>3, <2>4 DEF Look
  <2> QED BY <1>7, <2>5 DEF Look, TypeOK
<1>8. CASE Place(w)
  <2> DEFINE o == writer[w].looking
  <2>1. o \in Objects
    BY <1>1, <1>8 DEF Place, Writes
  <2>2. writer' \in [Writers -> Writes]
    BY <1>6, <1>8, <2>1 DEF Place
  <2>3. \A g \in Collectors : run[g] \in Runs /\ [run[g] EXCEPT !.newer = @ \union {o}] \in Runs
    BY <2>1, NewerTyped DEF TypeOK
  <2>4. run' \in [Collectors -> Runs]
    BY <1>8, <2>3 DEF Place, TypeOK
  <2> QED BY <1>8, <2>1, <2>2, <2>4 DEF Place, TypeOK
<1>9. CASE GiveUp(w)
  BY <1>1, <1>9 DEF GiveUp, TypeOK
<1>10. CASE \E r \in Refs : Root(w, r)
  BY <1>1, <1>10 DEF Root, TypeOK, Writes
<1> QED BY <1>3, <1>4, <1>5, <1>7, <1>8, <1>9, <1>10 DEF Write

\* A run changed keeps the types.
LEMMA RunTyped ==
  ASSUME TypeOK, NEW g \in Collectors, NEW q \in Runs, run' = [run EXCEPT ![g] = q]
  PROVE  run' \in [Collectors -> Runs]
BY DEF TypeOK

LEMMA SweepTyped ==
  ASSUME TypeOK, NEW g \in Collectors, NEW o \in Objects, Sweep(g, o)
  PROVE  TypeOK'
<1> USE Numbers
<1>1. /\ run[g] \in Runs /\ run[g].since[o] \in Ages /\ run[g].age \in 0..RunTime /\ 0 \in Ages
      /\ note[o] \in Ages \union {Unnoted} /\ stored \union {o} \subseteq Objects
  BY DEF TypeOK, Runs, Ages
<1>2. CASE \E taken \in Ages : Scan(g, o, taken)
  <2>1. PICK taken \in Ages : Scan(g, o, taken)
    BY <1>2
  <2>2. Decision(g, o) \in Stages
    BY DEF Decision, Stages
  <2>3. Decision(g, o) = "delete" => note[o] \in Ages
    BY <1>1 DEF Decision, Unnoted, Ages
  <2> DEFINE since == CASE Decision(g, o) = "note" -> taken
                        [] Decision(g, o) = "delete" -> note[o]
                        [] OTHER -> 0
  <2>4. since \in Ages
    BY <1>1, <2>1, <2>3
  <2>5. run' = [run EXCEPT ![g] = [run[g] EXCEPT !.stage[o] = Decision(g, o), !.since[o] = since]]
    BY <2>1 DEF Scan
  <2> HIDE DEF since
  <2>6. run' \in [Collectors -> Runs]
    <3>1. [run[g] EXCEPT !.stage[o] = Decision(g, o), !.since[o] = since] \in Runs
      BY <1>1, <2>2, <2>4, StageTyped
    <3> QED BY <2>5, <3>1, RunTyped
  <2> QED BY <2>1, <2>6 DEF Scan, TypeOK
<1>3. CASE Clear(g, o)
  <2>1. run' = [run EXCEPT ![g] = [run[g] EXCEPT !.stage[o] = "done", !.since[o] = 0]]
    BY <1>3 DEF Clear
  <2>2. run' \in [Collectors -> Runs]
    BY <1>1, <2>1, StageTyped, RunTyped DEF Stages
  <2> QED BY <1>3, <2>2 DEF Clear, TypeOK
<1>4. CASE Note(g, o)
  <2> DEFINE stands == IF note[o] = Unnoted THEN run[g].since[o] ELSE note[o]
  <2> DEFINE stage == IF stands >= Window THEN "delete" ELSE "done"
  <2> DEFINE since == IF stands >= Window THEN stands ELSE 0
  <2>1. stands \in Ages /\ note' \in [Objects -> Ages \union {Unnoted}]
    BY <1>1, <1>4 DEF Note, TypeOK
  <2>2. stage \in Stages /\ since \in Ages
    BY <1>1, <2>1 DEF Stages
  <2>3. run' = [run EXCEPT ![g] = [run[g] EXCEPT !.stage[o] = stage, !.since[o] = since]]
    BY <1>4 DEF Note
  <2>4. run' \in [Collectors -> Runs]
    BY <1>1, <2>2, <2>3, StageTyped, RunTyped
  <2> QED BY <1>4, <2>1, <2>4 DEF Note, TypeOK
<1>5. CASE Check(g, o)
  <2> DEFINE stage == IF Standing(g, o) THEN "checked" ELSE "done"
  <2> DEFINE since == IF Standing(g, o) THEN run[g].since[o] ELSE 0
  <2>1. stage \in Stages /\ since \in Ages
    BY <1>1 DEF Stages
  <2>2. run' = [run EXCEPT ![g] = [run[g] EXCEPT !.stage[o] = stage, !.since[o] = since]]
    BY <1>5 DEF Check
  <2>3. run' \in [Collectors -> Runs]
    BY <1>1, <2>1, <2>2, StageTyped, RunTyped
  <2> QED BY <1>5, <2>3 DEF Check, TypeOK
<1>6. CASE MoveAside(g, o)
  <2> DEFINE stage == IF o \in stored THEN "aside" ELSE "clear"
  <2>1. stage \in Stages
    BY DEF Stages
  <2>2. run' = [run EXCEPT ![g] = [run[g] EXCEPT !.stage[o] = stage]]
    BY <1>6 DEF MoveAside
  <2>3. run' \in [Collectors -> Runs]
    BY <1>1, <2>1, <2>2, StageTyped, RunTyped
  <2> QED BY <1>6, <2>3 DEF MoveAside, TypeOK
<1>7. CASE CheckAgain(g, o)
  <2>1. CASE Standing(g, o)
    <3>1. run' = [run EXCEPT ![g] = [run[g] EXCEPT !.stage[o] = "doomed"]]
      BY <1>7, <2>1 DEF CheckAgain
    <3>2. run' \in [Collectors -> Runs]
      BY <1>1, <3>1, StageTyped, RunTyped DEF Stages
    <3> QED BY <1>7, <2>1, <3>2 DEF CheckAgain, TypeOK
  <2>2. CASE ~Standing(g, o)
    <3>1. [run[g] EXCEPT !.stage[o] = "done", !.since[o] = 0] \in Runs
      BY <1>1, StageTyped DEF Stages
    <3>2. [run[g] EXCEPT !.stage[o] = "done", !.since[o] = 0, !.newer = @ \ {o}]
            = [[run[g] EXCEPT !.stage[o] = "done", !.since[o] = 0] EXCEPT !.newer = @ \ {o}]
      OBVIOUS
    <3>3. [run[g] EXCEPT !.stage[o] = "done", !.since[o] = 0, !.newer = @ \ {o}] \in Runs
      BY <3>1, <3>2, NewerTyped
    <3>4. \A h \in Collectors : [run[h] EXCEPT !.newer = @ \ {o}] \in Runs
      BY NewerTyped DEF TypeOK
    <3>5. run' \in [Collectors -> Runs]
      BY <1>7, <2>2, <3>3, <3>4 DEF CheckAgain
    <3> QED BY <1>1, <1>7, <2>2, <3>5 DEF CheckAgain, TypeOK
  <2> QED BY <2>1, <2>2
<1>8. CASE Unlink(g, o)
  <2>1. run' = [run EXCEPT ![g] = [run[g] EXCEPT !.stage[o] = "clear"]]
    BY <1>8 DEF Unlink
  <2>2. run' \in [Collectors -> Runs]
    BY <1>1, <2>1, StageTyped, RunTyped DEF Stages
  <2> QED BY <1>8, <2>2 DEF Unlink, TypeOK
<1> QED BY <1>2, <1>3, <1>4, <1>5, <1>6, <1>7, <1>8 DEF Sweep

LEMMA CollectTyped ==
  ASSUME TypeOK, NEW g \in Collectors, Collect(g)
  PROVE  TypeOK'
<1> USE Numbers
<1>1. run[g] \in Runs /\ Resting \in Runs
  BY DEF TypeOK, Resting, Runs, Stages, Ages
<1>2. CASE Start(g)
  <2>1. [Resting EXCEPT !.at = "roots", !.refs = Refs, !.stage = [o \in Objects |-> "todo"]] \in Runs
    BY <1>1 DEF Runs, Stages
  <2>2. run' \in [Collectors -> Runs]
    BY <1>2, <2>1, RunTyped DEF Start
  <2> QED BY <1>2, <2>2 DEF Start, TypeOK
<1>3. CASE Marked(g)
  <2>1. [run[g] EXCEPT !.at = "sweep"] \in Runs
    BY <1>1 DEF Runs
  <2>2. run' \in [Collectors -> Runs]
    BY <1>3, <2>1, RunTyped DEF Marked
  <2> QED BY <1>3, <2>2 DEF Marked, TypeOK
<1>4. CASE Finish(g)
  <2>1. run' \in [Collectors -> Runs]
    BY <1>1, <1>4, AgedTyped DEF Finish, TypeOK
  <2>2. left' \subseteq Objects /\ stored' \subseteq Objects /\ moved' \in [Objects -> 0..MinAge]
    BY <1>4 DEF Finish, PutBack, Due, TypeOK
  <2> QED BY <1>4, <2>1, <2>2 DEF Finish, TypeOK
<1>5. CASE Die(g)
  <2>1. run' \in [Collectors -> Runs]
    BY <1>1, <1>5, RunTyped DEF Die
  <2>2. left' \subseteq Objects /\ torn' \subseteq Objects /\ moved' \in [Objects -> 0..MinAge]
    BY <1>5 DEF Die, Aside, TypeOK
  <2>3. deaths' \in 0..MaxDeaths
    BY <1>5 DEF Die, TypeOK
  <2> QED BY <1>5, <2>1, <2>2, <2>3 DEF Die, TypeOK
<1>6. CASE \E r \in Refs : ScanRoot(g, r)
  <2>1. PICK r \in Refs : ScanRoot(g, r)
    BY <1>6
  <2>2. ref[r] \in Objects \union {NoObject}
    BY DEF TypeOK
  <2> DEFINE q == [run[g] EXCEPT !.refs = @ \ {r}, !.frontier = @ \union ({ref[r]} \ {NoObject}),
                     !.at = IF run[g].refs = {r} THEN "mark" ELSE @]
  <2>4. q \in Runs
    BY <1>1, <2>2 DEF Runs
  <2>5. run' = [run EXCEPT ![g] = q]
    BY <2>1 DEF ScanRoot
  <2>3. run' \in [Collectors -> Runs]
    BY <2>4, <2>5, RunTyped
  <2> QED BY <2>1, <2>3 DEF ScanRoot, TypeOK
<1>7. CASE \E o \in Objects : Mark(g, o) \/ Sweep(g, o)
  <2>1. PICK o \in Objects : Mark(g, o) \/ Sweep(g, o)
    BY <1>7
  <2>2. CASE Mark(g, o)
    <3>1. Names[o] \subseteq Objects
      OBVIOUS
    <3>2. run' \in [Collectors -> Runs]
      <4> DEFINE reached == run[g].reached \union {o}
                 frontier == (run[g].frontier \union IF o \in stored THEN Names[o] ELSE {}) \ reached
                 q == [run[g] EXCEPT !.reached = reached, !.frontier = frontier]
      <4>1. q \in Runs
        BY <1>1, <3>1 DEF Runs
      <4>2. run' = [run EXCEPT ![g] = q]
        BY <1>1, <2>2 DEF Mark, Runs, TypeOK
      <4> HIDE DEF q
      <4> QED BY <4>1, <4>2, RunTyped
    <3> QED BY <2>2, <3>2 DEF Mark, TypeOK
  <2> QED BY <2>1, <2>2, SweepTyped
<1> QED BY <1>2, <1>3, <1>4, <1>5, <1>6, <1>7 DEF Collect

LEMMA TickTyped == TypeOK /\ Tick => TypeOK'
<1> SUFFICES ASSUME TypeOK, Tick PROVE TypeOK'
  OBVIOUS
<1> USE Numbers
<1>1. note' \in [Objects -> Ages \union {Unnoted}]
  BY OlderAges DEF Tick, TypeOK
<1>2. writer' \in [Writers -> Writes]
  <2>1. ASSUME NEW w \in Writers, Busy(w)
        PROVE  [writer[w] EXCEPT !.age = @ + 1] \in Writes
    <3>1. writer[w] \in Writes /\ writer[w].age < WriteTime
      BY <2>1 DEF Tick, TypeOK
    <3>2. writer[w].age + 1 \in 0..WriteTime
      BY <3>1 DEF Writes
    <3> QED BY <3>1, <3>2 DEF Writes
  <2> QED BY <2>1 DEF Tick, TypeOK
<1>3. ASSUME NEW g \in Collectors, run[g].at # "idle"
      PROVE  [run[g] EXCEPT !.age = @ + 1,
               !.since = [o \in Objects |-> IF run[g].stage[o] \in {"todo", "clear", "done"}
                                             THEN run[g].since[o] ELSE Older(run[g].since[o])]] \in Runs
  <2>0. run[g] \in Runs /\ run[g].age < RunTime
    BY <1>3 DEF Tick, TypeOK
  <2>1. run[g].age + 1 \in 0..RunTime
    BY <2>0 DEF Runs
  <2>2. \A o \in Objects : run[g].since[o] \in Ages /\ Older(run[g].since[o]) \in Ages
    BY <2>0, OlderAges DEF Runs
  <2> QED BY <2>0, <2>1, <2>2 DEF Runs
<1>4. run' \in [Collectors -> Runs]
  BY <1>3 DEF Tick, TypeOK
<1>5. moved' \in [Objects -> 0..MinAge]
  <2>1. moved' = [o \in Objects |-> IF o \in left /\ moved[o] < MinAge THEN moved[o] + 1 ELSE moved[o]]
    BY DEF Tick
  <2>2. \A o \in Objects : moved[o] \in 0..MinAge
    BY DEF TypeOK
  <2> QED BY <2>1, <2>2
<1> QED BY <1>1, <1>2, <1>4, <1>5 DEF Tick, TypeOK

LEMMA NextTyped == TypeOK /\ [Next]_vars => TypeOK'
<1> SUFFICES ASSUME TypeOK, [Next]_vars PROVE TypeOK'
  OBVIOUS
<1>1. CASE \E r \in Refs : Drop(r)
  BY <1>1 DEF Drop, TypeOK
<1>2. CASE Hold
  <2>1. run' \in [Collectors -> Runs]
    BY <1>2, AgedTyped DEF Hold, TypeOK
  <2>2. /\ left' \subseteq Objects /\ stored' \subseteq Objects /\ torn' \subseteq Objects
        /\ moved' \in [Objects -> 0..MinAge] /\ note' \in [Objects -> Ages \union {Unnoted}]
    BY <1>2, Numbers DEF Hold, PutBack, Due, RacedNow, TypeOK
  <2> QED BY <1>2, <2>1, <2>2 DEF Hold, TypeOK
<1>3. CASE UNCHANGED vars
  BY <1>3 DEF vars, TypeOK
<1> QED BY <1>1, <1>2, <1>3, WriteTyped, CollectTyped, TickTyped DEF Next

\* Every variable keeps its type, whatever is written, collected or lost.
THEOREM CollectorTypeCorrect == Spec => []TypeOK
BY InitTyped, NextTyped, PTL DEF Spec

-----------------------------------------------------------------------------
(* What holds of the notes a run acts on, and of what writers have found   *)

Deleting == {"delete", "checked", "aside", "doomed"}

\* The window is longer than a write and a run: a note that stands on what a
\* writer has touched is of a run under way then, at the earliest.
Outlasts == Window > WriteTime + RunTime

\* A run notes at a time of its own, and deletes at a note past the window.
Pending ==
  \A g \in Collectors, o \in Objects :
    /\ run[g].stage[o] \notin {"todo", "done"} => run[g].at = "sweep"
    /\ run[g].stage[o] = "note" => run[g].since[o] <= run[g].age
    /\ run[g].stage[o] \in Deleting => run[g].since[o] = Window

\* A note on what a writer has cleared is of this write, or of a run under way
\* as it began.
Young ==
  \A w \in Writers, o \in Objects :
    Busy(w) /\ (o \in writer[w].found \/ o = writer[w].looking) =>
      note[o] <= writer[w].age + RunTime

\* An object is there, or aside at a delete in flight; one left aside names
\* nothing, or was torn.
Placed(o) ==
  \/ o \in stored
  \/ \E g \in Collectors : run[g].stage[o] = "aside"
  \/ o \in left /\ (Names[o] = {} \/ o \in torn)

Held == \A w \in Writers : Busy(w) => \A o \in writer[w].found : Placed(o)

LEMMA RunFacts ==
  ASSUME TypeOK, NEW g \in Collectors, NEW o \in Objects
  PROVE  /\ run[g] \in Runs /\ run[g].stage[o] \in Stages /\ run[g].since[o] \in Ages
         /\ run[g].age \in 0..RunTime /\ note[o] \in Ages \union {Unnoted}
BY DEF TypeOK, Runs

LEMMA WriterFacts ==
  ASSUME TypeOK, NEW w \in Writers
  PROVE  writer[w] \in Writes /\ writer[w].age \in 0..WriteTime /\ writer[w].found \subseteq Objects
BY DEF TypeOK, Writes

\* What a step of a sweep does to its object's stage.
LEMMA SweepSteps ==
  ASSUME Outlasts, TypeOK, Pending, NEW g \in Collectors, NEW o \in Objects, Sweep(g, o)
  PROVE  /\ run[g].at = "sweep"
         /\ \A h \in Collectors :
              /\ run'[h].at = run[h].at /\ run'[h].age = run[h].age /\ run'[h].refs = run[h].refs
              /\ run'[h].frontier = run[h].frontier /\ run'[h].reached = run[h].reached
              /\ \A p \in Objects : h # g \/ p # o =>
                   run'[h].stage[p] = run[h].stage[p] /\ run'[h].since[p] = run[h].since[p]
         /\ run'[g].stage[o] = "note" => run'[g].since[o] <= run[g].age /\ o \notin run[g].reached
         /\ run'[g].stage[o] \in Deleting => run'[g].since[o] = Window
         /\ run'[g].stage[o] \in Deleting /\ run[g].stage[o] \notin Deleting =>
              note[o] = Window /\ (run[g].stage[o] = "note" \/ o \notin run[g].reached)
<1> USE Numbers
<1>1. /\ run \in [Collectors -> Runs] /\ run[g].stage \in [Objects -> Stages]
      /\ run[g].since \in [Objects -> Ages] /\ note[o] \in Ages \union {Unnoted}
      /\ run[g].stage[o] = "note" => run[g].since[o] <= run[g].age
      /\ run[g].stage[o] \in Deleting => run[g].since[o] = Window
  BY DEF TypeOK, Runs, Pending
<1>2. CASE \E taken \in Ages : Scan(g, o, taken)
  <2>1. PICK taken \in Ages : Scan(g, o, taken)
    BY <1>2
  <2>2. Decision(g, o) \in {"done", "clear", "note", "delete"}
    BY DEF Decision
  <2>3. Decision(g, o) = "delete" => note[o] = Window /\ o \notin run[g].reached
    BY <1>1 DEF Decision, Ages, Unnoted
  <2>4. Decision(g, o) = "note" => o \notin run[g].reached
    BY DEF Decision
  <2>5. /\ run'[g].stage[o] = Decision(g, o)
        /\ Decision(g, o) = "note" => run'[g].since[o] = taken
        /\ Decision(g, o) = "delete" => run'[g].since[o] = note[o]
    BY <1>1, <2>1 DEF Scan, Runs
  <2>6. Decision(g, o) = "note" => taken <= run[g].age
    BY <2>1 DEF Scan
  <2> QED BY <1>1, <2>1, <2>2, <2>3, <2>4, <2>5, <2>6 DEF Scan, Runs, Staged, Deleting
<1>3. CASE Clear(g, o)
  BY <1>1, <1>3 DEF Clear, Staged, Runs, Deleting
<1>4. CASE Note(g, o)
  <2>1. run[g].stage[o] = "note" /\ run[g].at = "sweep" /\ run[g].since[o] <= run[g].age
    BY <1>1, <1>4 DEF Note, Staged
  <2>2. run[g].age \in 0..RunTime /\ run[g].since[o] \in 0..Window
    BY RunFacts DEF Ages
  <2>3. run[g].since[o] < Window
    BY <2>1, <2>2 DEF Outlasts
  <2> DEFINE stands == IF note[o] = Unnoted THEN run[g].since[o] ELSE note[o]
  <2>4. stands \in 0..Window
    BY <1>1, <2>2 DEF Ages
  <2>5. stands >= Window => stands = Window /\ note[o] = Window
    BY <2>3, <2>4
  <2>6. run' = [run EXCEPT ![g] = [run[g] EXCEPT
                 !.stage[o] = IF stands >= Window THEN "delete" ELSE "done",
                 !.since[o] = IF stands >= Window THEN stands ELSE 0]]
    BY <1>4 DEF Note
  <2> HIDE DEF stands
  <2>7. run'[g].stage[o] = (IF stands >= Window THEN "delete" ELSE "done")
        /\ run'[g].since[o] = IF stands >= Window THEN stands ELSE 0
    BY <1>1, <2>6 DEF Runs
  <2>8. \A h \in Collectors :
          /\ run'[h].at = run[h].at /\ run'[h].age = run[h].age /\ run'[h].refs = run[h].refs
          /\ run'[h].frontier = run[h].frontier /\ run'[h].reached = run[h].reached
          /\ \A p \in Objects : h # g \/ p # o =>
               run'[h].stage[p] = run[h].stage[p] /\ run'[h].since[p] = run[h].since[p]
    BY <1>1, <2>6 DEF Runs
  <2> QED BY <2>1, <2>5, <2>7, <2>8 DEF Deleting
<1>5. CASE Check(g, o)
  BY <1>1, <1>5 DEF Check, Staged, Runs, Deleting
<1>6. CASE MoveAside(g, o)
  BY <1>1, <1>6 DEF MoveAside, Staged, Runs, Deleting
<1>7. CASE CheckAgain(g, o)
  <2>1. run[g].at = "sweep" /\ run[g].stage[o] = "aside"
    BY <1>7 DEF CheckAgain, Staged
  <2>2. CASE Standing(g, o)
    BY <1>1, <1>7, <2>1, <2>2 DEF CheckAgain, Runs, Deleting
  <2>3. CASE ~Standing(g, o)
    <3>1. run' = [h \in Collectors |->
             IF h = g THEN [run[g] EXCEPT !.stage[o] = "done", !.since[o] = 0, !.newer = @ \ {o}]
             ELSE [run[h] EXCEPT !.newer = @ \ {o}]]
      BY <1>7, <2>3 DEF CheckAgain
    <3>2. run'[g] = [run[g] EXCEPT !.stage[o] = "done", !.since[o] = 0, !.newer = @ \ {o}]
      BY <3>1
    <3>3. \A h \in Collectors : h # g => run'[h] = [run[h] EXCEPT !.newer = @ \ {o}]
      BY <3>1
    <3>4. run'[g].stage[o] = "done"
      BY <1>1, <3>2 DEF Runs
    <3>5. /\ run'[g].at = run[g].at /\ run'[g].age = run[g].age /\ run'[g].refs = run[g].refs
          /\ run'[g].frontier = run[g].frontier /\ run'[g].reached = run[g].reached
          /\ \A p \in Objects : p # o =>
               run'[g].stage[p] = run[g].stage[p] /\ run'[g].since[p] = run[g].since[p]
      BY <1>1, <3>2 DEF Runs
    <3>6. ASSUME NEW h \in Collectors, h # g
          PROVE
          /\ run'[h].at = run[h].at /\ run'[h].age = run[h].age /\ run'[h].refs = run[h].refs
          /\ run'[h].frontier = run[h].frontier /\ run'[h].reached = run[h].reached
          /\ run'[h].stage = run[h].stage /\ run'[h].since = run[h].since
      <4>1. run[h] \in Runs /\ run'[h] = [run[h] EXCEPT !.newer = @ \ {o}]
        BY <1>1, <3>3, <3>6
      <4> QED BY <4>1 DEF Runs
    <3>7. \A h \in Collectors :
            /\ run'[h].at = run[h].at /\ run'[h].age = run[h].age /\ run'[h].refs = run[h].refs
            /\ run'[h].frontier = run[h].frontier /\ run'[h].reached = run[h].reached
            /\ \A p \in Objects : h # g \/ p # o =>
                 run'[h].stage[p] = run[h].stage[p] /\ run'[h].since[p] = run[h].since[p]
      BY <3>5, <3>6
    <3>8. run'[g].stage[o] \notin Deleting /\ run'[g].stage[o] # "note"
      BY <3>4 DEF Deleting
    <3> QED BY <2>1, <3>7, <3>8
  <2> QED BY <2>2, <2>3
<1>8. CASE Unlink(g, o)
  BY <1>1, <1>8 DEF Unlink, Staged, Runs, Deleting
<1> QED BY <1>2, <1>3, <1>4, <1>5, <1>6, <1>7, <1>8 DEF Sweep

SameRun(h) ==
  /\ run'[h].at = run[h].at /\ run'[h].age = run[h].age /\ run'[h].refs = run[h].refs
  /\ run'[h].frontier = run[h].frontier /\ run'[h].reached = run[h].reached
  /\ run'[h].stage = run[h].stage /\ run'[h].since = run[h].since

LEMMA AgedSame ==
  ASSUME TypeOK, NEW h \in Collectors, run'[h] = Aged(run[h])
  PROVE  SameRun(h)
<1>1. run[h] \in Runs
  BY DEF TypeOK
<1> QED BY <1>1 DEF Aged, Runs, SameRun

\* A writer changes no run, but for what was written since it began.
LEMMA WriteSteps ==
  ASSUME TypeOK, NEW w \in Writers, Write(w)
  PROVE  /\ \A h \in Collectors : SameRun(h)
         /\ \A v \in Writers : v # w => writer'[v] = writer[v]
         /\ \A o \in Objects : note'[o] = note[o] \/ note'[o] = Unnoted
         /\ stored \subseteq stored'
<1>0. writer \in [Writers -> Writes]
  BY DEF TypeOK
<1>1. CASE Place(w)
  <2> DEFINE o == writer[w].looking
  <2>1. ASSUME NEW h \in Collectors PROVE SameRun(h)
    <3>1. run[h] \in Runs
      BY DEF TypeOK
    <3>2. run'[h] = run[h] \/ run'[h] = [run[h] EXCEPT !.newer = @ \union {o}]
      BY <1>1 DEF Place
    <3> QED BY <3>1, <3>2 DEF Runs, SameRun
  <2> QED BY <1>0, <1>1, <2>1 DEF Place, Found
<1>2. CASE Look(w)
  BY <1>0, <1>2 DEF Look, Found, SameRun
<1>3. CASE \E op \in {"touch", "write"}, o \in Objects : Begin(w, op, o)
  BY <1>3 DEF Begin, SameRun
<1>4. CASE \E o \in Objects : ClearNote(w, o) \/ Read(w, o)
  BY <1>4 DEF ClearNote, Read, SameRun, TypeOK
<1>5. CASE GiveUp(w) \/ \E r \in Refs : Root(w, r)
  BY <1>0, <1>5 DEF GiveUp, Root, SameRun
<1> QED BY <1>1, <1>2, <1>3, <1>4, <1>5 DEF Write

LEMMA TickSteps ==
  ASSUME TypeOK, Tick, NEW h \in Collectors
  PROVE  /\ run'[h].at = run[h].at /\ run'[h].refs = run[h].refs
         /\ run'[h].frontier = run[h].frontier /\ run'[h].reached = run[h].reached
         /\ run'[h].stage = run[h].stage
         /\ run[h].at = "idle" => run'[h] = run[h]
         /\ run[h].at # "idle" =>
              /\ run'[h].age = run[h].age + 1
              /\ \A o \in Objects : run'[h].since[o] =
                   IF run[h].stage[o] \in {"todo", "clear", "done"} THEN run[h].since[o]
                   ELSE Older(run[h].since[o])
<1>1. run[h] \in Runs
  BY DEF TypeOK
<1>2. CASE run[h].at = "idle"
  BY <1>2 DEF Tick
<1>3. CASE run[h].at # "idle"
  <2>1. run'[h] = [run[h] EXCEPT !.age = @ + 1,
          !.since = [o \in Objects |-> IF run[h].stage[o] \in {"todo", "clear", "done"}
                                        THEN run[h].since[o] ELSE Older(run[h].since[o])]]
    BY <1>3 DEF Tick
  <2> QED BY <1>1, <1>3, <2>1 DEF Runs
<1> QED BY <1>2, <1>3

LEMMA PendingStep ==
  ASSUME Outlasts, TypeOK, Pending, [Next]_vars
  PROVE  Pending'
<1> USE Numbers
<1>1. ASSUME NEW g \in Collectors, NEW o \in Objects, SameRun(g)
      PROVE  /\ run'[g].stage[o] \notin {"todo", "done"} => run'[g].at = "sweep"
             /\ run'[g].stage[o] = "note" => run'[g].since[o] <= run'[g].age
             /\ run'[g].stage[o] \in Deleting => run'[g].since[o] = Window
  BY <1>1 DEF Pending, SameRun
<1>2. ASSUME NEW g \in Collectors, Collect(g)
      PROVE  Pending'
  <2>1. run[g] \in Runs /\ run \in [Collectors -> Runs]
    BY DEF TypeOK
  <2>2. CASE \E o \in Objects : Sweep(g, o)
    <3>1. PICK o \in Objects : Sweep(g, o)
      BY <2>2
    <3> QED BY <3>1, SweepSteps DEF Pending
  <2>3. CASE Start(g)
    <3>1. \A h \in Collectors : h # g => run'[h] = run[h]
      BY <2>1, <2>3 DEF Start
    <3>2. \A o \in Objects : run'[g].stage[o] = "todo"
      BY <2>1, <2>3 DEF Start
    <3> QED BY <3>1, <3>2 DEF Pending, Deleting
  <2>4. CASE Finish(g) \/ Die(g)
    <3>1. \A h \in Collectors : h # g => run'[h] = run[h] \/ run'[h] = Aged(run[h])
      BY <2>1, <2>4 DEF Finish, Die
    <3>2. run'[g] = Resting
      BY <2>1, <2>4 DEF Finish, Die
    <3>3. \A o \in Objects : run'[g].stage[o] = "done"
      BY <3>2 DEF Resting
    <3>4. \A h \in Collectors : h # g => SameRun(h)
      BY <3>1, AgedSame DEF SameRun
    <3> QED BY <1>1, <3>3, <3>4 DEF Pending, Deleting
  <2>5. CASE Marked(g) \/ (\E r \in Refs : ScanRoot(g, r)) \/ \E o \in Objects : Mark(g, o)
    <3>1. \A h \in Collectors : h # g => run'[h] = run[h]
      BY <2>1, <2>5 DEF Marked, ScanRoot, Mark
    <3>2. run'[g].stage = run[g].stage /\ run'[g].since = run[g].since /\ run'[g].age = run[g].age
      <4>1. CASE Marked(g)
        BY <2>1, <4>1 DEF Marked, Runs
      <4>2. CASE \E r \in Refs : ScanRoot(g, r)
        BY <2>1, <4>2 DEF ScanRoot, Runs
      <4>3. CASE \E o \in Objects : Mark(g, o)
        BY <2>1, <4>3 DEF Mark, Runs
      <4> QED BY <2>5, <4>1, <4>2, <4>3
    <3>3. run[g].at # "sweep"
      BY <2>5 DEF Marked, ScanRoot, Mark
    <3>4. \A o \in Objects : run[g].stage[o] \in {"todo", "done"}
      BY <3>3 DEF Pending
    <3> QED BY <3>1, <3>2, <3>4 DEF Pending, Deleting
  <2> QED BY <1>2, <2>2, <2>3, <2>4, <2>5 DEF Collect
<1>3. CASE Tick
  <2>1. ASSUME NEW g \in Collectors, NEW o \in Objects, run[g].at # "idle"
        PROVE  /\ run'[g].stage[o] \notin {"todo", "done"} => run'[g].at = "sweep"
               /\ run'[g].stage[o] = "note" => run'[g].since[o] <= run'[g].age
               /\ run'[g].stage[o] \in Deleting => run'[g].since[o] = Window
    <3>1. /\ run'[g].stage = run[g].stage /\ run'[g].at = run[g].at /\ run'[g].age = run[g].age + 1
          /\ run'[g].since[o] = IF run[g].stage[o] \in {"todo", "clear", "done"} THEN run[g].since[o]
                                ELSE Older(run[g].since[o])
      BY <1>3, <2>1, TickSteps
    <3>2. /\ run[g].since[o] \in Ages /\ run[g].age \in 0..RunTime
          /\ Older(run[g].since[o]) <= run[g].since[o] + 1 /\ Older(run[g].since[o]) \in Ages
          /\ run[g].since[o] = Window => Older(run[g].since[o]) = Window
      BY RunFacts, OlderAges
    <3> QED BY <3>1, <3>2 DEF Pending, Deleting, Ages
  <2>2. ASSUME NEW g \in Collectors, NEW o \in Objects, run[g].at = "idle"
        PROVE  run'[g] = run[g]
    BY <1>3, <2>2, TickSteps
  <2> QED BY <2>1, <2>2 DEF Pending
<1>4. CASE (\E r \in Refs : Drop(r)) \/ UNCHANGED vars
  BY <1>4 DEF Drop, vars, Pending
<1>6. CASE Hold
  <2>1. \A h \in Collectors : SameRun(h)
    BY <1>6, AgedSame DEF Hold
  <2> QED BY <1>1, <2>1 DEF Pending
<1>5. CASE \E w \in Writers : Write(w)
  BY <1>1, <1>5, WriteSteps DEF Pending
<1> QED BY <1>2, <1>3, <1>4, <1>5, <1>6 DEF Next

\* What a writer comes to hold it has just cleared or found.
LEMMA WriterSteps ==
  ASSUME TypeOK, NEW w \in Writers, Write(w), Busy(w)'
  PROVE  \/ writer'[w].found = {} /\ writer'[w].looking = NoObject
         \/ /\ Busy(w) /\ writer'[w].age = writer[w].age
            /\ \A o \in Objects :
                 /\ o \in writer'[w].found => o \in writer[w].found \/ (o \in stored' /\ o = writer[w].looking)
                 /\ o = writer'[w].looking => o = writer[w].looking \/ note'[o] = Unnoted
<1> USE Numbers
<1>1. writer \in [Writers -> Writes] /\ writer[w] \in Writes /\ note \in [Objects -> Ages \union {Unnoted}]
  BY DEF TypeOK
<1>2. ASSUME NEW o, Found(w, o)
      PROVE  /\ writer'[w].op = writer[w].op /\ writer'[w].age = writer[w].age
             /\ writer'[w].found = writer[w].found \union {o} /\ writer'[w].looking = NoObject
  <2> DEFINE new == [writer[w] EXCEPT !.todo = @ \ {o}, !.found = @ \union {o},
                       !.looking = NoObject, !.absent = FALSE,
                       !.unread = IF writer[w].op = "touch" /\ Names[o] # {} THEN @ \union {o} ELSE @]
  <2>1. writer' = [writer EXCEPT ![w] = new]
    BY <1>1, <1>2 DEF Found, Writes
  <2>2. writer'[w] = new
    BY <1>1, <2>1
  <2> QED BY <1>1, <2>2 DEF Writes
<1>3. CASE \E op \in {"touch", "write"}, o \in Objects : Begin(w, op, o)
  BY <1>1, <1>3 DEF Begin, Idle
<1>4. CASE \E o \in Objects : ClearNote(w, o)
  <2>1. PICK o \in Objects : ClearNote(w, o)
    BY <1>4
  <2>2. writer'[w] = [writer[w] EXCEPT !.looking = o] /\ note'[o] = Unnoted /\ Busy(w)
    BY <1>1, <2>1 DEF ClearNote
  <2> QED BY <1>1, <2>2 DEF Writes
<1>5. CASE \E o \in Objects : Read(w, o)
  <2>1. PICK o \in Objects : Read(w, o)
    BY <1>5
  <2>2. /\ writer'[w].found = writer[w].found /\ writer'[w].looking = writer[w].looking
        /\ writer'[w].age = writer[w].age /\ Busy(w)
    BY <1>1, <2>1 DEF Read, Writes
  <2> QED BY <2>2
<1>6. CASE Look(w)
  <2>1. CASE writer[w].looking \in stored /\ Found(w, writer[w].looking)
    BY <1>2, <1>6, <2>1 DEF Look
  <2>2. CASE writer' = [writer EXCEPT ![w] = Idle]
    BY <1>1, <2>2 DEF Busy, Idle
  <2>3. CASE writer' = [writer EXCEPT ![w].absent = TRUE]
    BY <1>1, <1>6, <2>3 DEF Look, Writes
  <2> QED BY <1>6, <2>1, <2>2, <2>3 DEF Look
<1>7. CASE Place(w)
  <2>1. /\ Busy(w) /\ Found(w, writer[w].looking) /\ writer[w].looking \in stored'
    BY <1>7 DEF Place
  <2> QED BY <1>2, <2>1
<1>8. CASE GiveUp(w) \/ \E r \in Refs : Root(w, r)
  BY <1>1, <1>8 DEF GiveUp, Root, Busy, Idle
<1> QED BY <1>3, <1>4, <1>5, <1>6, <1>7, <1>8 DEF Write

\* A note is not made older but by the passing of time, and a note made is of
\* a run under way.
LEMMA NoteSteps ==
  ASSUME TypeOK, Pending, [Next]_vars, NEW o \in Objects
  PROVE  \/ Tick /\ note'[o] <= note[o] + 1
         \/ note'[o] <= note[o]
         \/ note'[o] <= RunTime
<1> USE Numbers
<1>1. note \in [Objects -> Ages \union {Unnoted}] /\ note[o] \in Ages \union {Unnoted}
  BY DEF TypeOK
<1>2. note[o] \in Int /\ Unnoted <= RunTime
  BY <1>1 DEF Ages, Unnoted
<1>3. CASE Tick
  BY <1>1, <1>3, OlderAges DEF Tick
<1>4. CASE note' = note
  BY <1>2, <1>4
<1>5. ASSUME NEW g \in Collectors, NEW p \in Objects, Sweep(g, p)
      PROVE  note'[o] <= note[o] \/ note'[o] <= RunTime
  <2>1. CASE Clear(g, p)
    BY <1>1, <1>2, <2>1 DEF Clear
  <2>2. CASE Note(g, p)
    <3>1. run[g].since[p] <= run[g].age /\ run[g].age \in 0..RunTime /\ run[g].since[p] \in Ages
      BY <2>2, RunFacts DEF Note, Staged, Pending
    <3>2. run[g].since[p] <= RunTime
      BY <3>1 DEF Ages
    <3>3. note'[o] = note[o] \/ note'[o] = run[g].since[p]
      BY <1>1, <2>2 DEF Note
    <3>4. run[g].since[p] \in Int
      BY <3>1 DEF Ages
    <3> QED BY <1>2, <3>2, <3>3, <3>4
  <2>3. CASE note' = note
    BY <1>2, <2>3
  <2> QED BY <1>5, <2>1, <2>2, <2>3 DEF Sweep, Scan, Check, MoveAside, CheckAgain, Unlink
<1>6. ASSUME NEW g \in Collectors, Collect(g)
      PROVE  note'[o] <= note[o] \/ note'[o] <= RunTime
  <2>1. CASE \E p \in Objects : Sweep(g, p)
    BY <1>5, <2>1
  <2>2. CASE Start(g) \/ Marked(g) \/ Finish(g) \/ Die(g)
    BY <1>2, <2>2 DEF Start, Marked, Finish, Die
  <2>3. CASE (\E r \in Refs : ScanRoot(g, r)) \/ \E p \in Objects : Mark(g, p)
    <3>1. note' = note
      BY <2>3 DEF ScanRoot, Mark
    <3> QED BY <1>2, <3>1
  <2> QED BY <1>6, <2>1, <2>2, <2>3 DEF Collect
<1>7. ASSUME NEW w \in Writers, Write(w)
      PROVE  note'[o] <= note[o] \/ note'[o] <= RunTime
  BY <1>2, <1>7, WriteSteps
<1>8. CASE Hold
  BY <1>1, <1>2, <1>8 DEF Hold
<1>9. CASE (\E r \in Refs : Drop(r)) \/ UNCHANGED vars
  BY <1>4, <1>9 DEF Drop, vars
<1> QED BY <1>3, <1>6, <1>7, <1>8, <1>9 DEF Next

LEMMA YoungStep ==
  ASSUME TypeOK, TypeOK', Pending, Young, [Next]_vars
  PROVE  Young'
<1> USE Numbers
<1> SUFFICES ASSUME NEW w \in Writers, NEW o \in Objects, Busy(w)',
                    o \in writer'[w].found \/ o = writer'[w].looking
             PROVE  note'[o] <= writer'[w].age + RunTime
  BY DEF Young
<1>1. /\ note[o] \in Int /\ note'[o] \in Int /\ writer[w].age \in Nat /\ writer'[w].age \in Nat
  <2>1. note[o] \in Ages \union {Unnoted} /\ note'[o] \in Ages \union {Unnoted}
    BY DEF TypeOK
  <2>2. writer[w].age \in 0..WriteTime /\ writer'[w].age \in 0..WriteTime
    BY DEF TypeOK, Writes
  <2> QED BY <2>1, <2>2 DEF Ages, Unnoted
<1>2. CASE note'[o] = Unnoted
  BY <1>1, <1>2 DEF Unnoted
<1>3. CASE Tick
  <2>1. Busy(w) /\ writer'[w] = [writer[w] EXCEPT !.age = @ + 1]
    BY <1>3, TickTyped DEF Tick, Busy, TypeOK
  <2>2. /\ writer'[w].age = writer[w].age + 1 /\ writer'[w].found = writer[w].found
        /\ writer'[w].looking = writer[w].looking
    BY <2>1 DEF TypeOK, Writes
  <2>3. note[o] <= writer[w].age + RunTime
    BY <2>1, <2>2 DEF Young
  <2>4. note'[o] <= note[o] + 1 \/ note'[o] <= RunTime
    BY <1>1, NoteSteps
  <2> QED BY <1>1, <2>2, <2>3, <2>4
<1>4. ASSUME writer'[w].age = writer[w].age, Busy(w), o \in writer[w].found \/ o = writer[w].looking, ~Tick
      PROVE  note'[o] <= writer'[w].age + RunTime
  <2>1. note[o] <= writer[w].age + RunTime
    BY <1>4 DEF Young
  <2>2. note'[o] <= note[o] \/ note'[o] <= RunTime
    BY <1>4, NoteSteps
  <2> QED BY <1>1, <1>4, <2>1, <2>2
<1>5. CASE ~Tick /\ writer' = writer
  BY <1>4, <1>5 DEF Busy
<1>6. ASSUME NEW v \in Writers, Write(v), ~Tick
      PROVE  note'[o] <= writer'[w].age + RunTime
  <2>1. CASE v = w
    <3>1. CASE writer'[w].found = {} /\ writer'[w].looking = NoObject
      BY <3>1
    <3>2. CASE ~(writer'[w].found = {} /\ writer'[w].looking = NoObject)
      <4>1. /\ Busy(w) /\ writer'[w].age = writer[w].age
            /\ o \in writer[w].found \/ o = writer[w].looking \/ note'[o] = Unnoted
        BY <1>6, <2>1, <3>2, WriterSteps
      <4> QED BY <1>2, <1>4, <1>6, <4>1
    <3> QED BY <3>1, <3>2
  <2>2. CASE v # w
    <3>1. writer'[w] = writer[w]
      BY <1>6, <2>2, WriteSteps
    <3> QED BY <1>4, <1>6, <3>1 DEF Busy
  <2> QED BY <2>1, <2>2
<1>7. ASSUME NEW g \in Collectors, Collect(g)
      PROVE  writer' = writer
  BY <1>7 DEF Collect, Start, Marked, Finish, Die, ScanRoot, Mark, Sweep, Scan, Clear, Note, Check,
              MoveAside, CheckAgain, Unlink
<1>8. (\E r \in Refs : Drop(r)) \/ Hold \/ UNCHANGED vars => writer' = writer
  BY DEF Drop, Hold, vars
<1> QED BY <1>3, <1>5, <1>6, <1>7, <1>8 DEF Next

\* What is placed stays so, unless a delete aside has its note to stand on, or
\* the gc that holds the repository does not reach it.
LEMMA PlacedSteps ==
  ASSUME Outlasts, TypeOK, Pending, [Next]_vars, NEW o \in Objects, Placed(o),
         \A g \in Collectors : run[g].stage[o] = "aside" => ~Standing(g, o),
         Hold /\ o \in stored => o \in Reach(Rooted, stored)
  PROVE  Placed(o)'
<1>1. ASSUME \A h \in Collectors : run'[h].stage[o] = run[h].stage[o], o \in stored => o \in stored',
             left' = left, torn' = torn
      PROVE  Placed(o)'
  BY <1>1 DEF Placed
<1>2. ASSUME NEW w \in Writers, Write(w)
      PROVE  Placed(o)'
  <2>1. left' = left /\ torn' = torn
    BY <1>2 DEF Write, Begin, ClearNote, Read, Look, Place, GiveUp, Root
  <2> QED BY <1>1, <1>2, <2>1, WriteSteps DEF SameRun
<1>3. CASE Hold
  <2>1. \A h \in Collectors : run'[h].stage[o] = run[h].stage[o]
    BY <1>3, AgedSame DEF Hold, SameRun
  <2>2. o \in stored => o \in stored'
    BY <1>3 DEF Hold
  <2>3. o \in left => o \in left' \/ o \in stored'
    BY <1>3 DEF Hold, PutBack
  <2>4. torn \subseteq torn'
    BY <1>3 DEF Hold
  <2> QED BY <2>1, <2>2, <2>3, <2>4 DEF Placed
<1>4. CASE Tick
  <2>1. stored' = stored /\ left' = left /\ torn' = torn
    BY <1>4 DEF Tick
  <2> QED BY <1>1, <1>4, <2>1, TickSteps
<1>5. CASE (\E r \in Refs : Drop(r)) \/ UNCHANGED vars
  BY <1>1, <1>5 DEF Drop, vars
<1>6. ASSUME NEW g \in Collectors, Collect(g)
      PROVE  Placed(o)'
  <2>1. run[g] \in Runs /\ run \in [Collectors -> Runs]
    BY DEF TypeOK
  <2>2. ASSUME \A h \in Collectors : h # g => run'[h].stage[o] = run[h].stage[o], o \in stored => o \in stored',
               run[g].stage[o] # "aside", left' = left, torn' = torn
        PROVE  Placed(o)'
    BY <2>2 DEF Placed
  <2>3. ASSUME NEW p \in Objects, Sweep(g, p), p # o
        PROVE  Placed(o)'
    <3>1. \A h \in Collectors : run'[h].stage[o] = run[h].stage[o]
      BY <2>3, SweepSteps
    <3>2. (o \in stored => o \in stored') /\ left' = left /\ torn' = torn
      BY <2>3 DEF Sweep, Scan, Clear, Note, Check, MoveAside, CheckAgain, Unlink
    <3> QED BY <1>1, <3>1, <3>2
  <2>4. CASE Sweep(g, o)
    <3>1. \A h \in Collectors : h # g => run'[h].stage[o] = run[h].stage[o]
      BY <2>4, SweepSteps
    <3>2. CASE MoveAside(g, o)
      <4>1. /\ run[g].stage[o] = "checked" /\ (o \in stored => run'[g].stage[o] = "aside")
            /\ left' = left /\ torn' = torn
        BY <2>1, <3>2 DEF MoveAside, Staged, Runs
      <4> QED BY <3>1, <4>1 DEF Placed
    <3>3. CASE CheckAgain(g, o)
      <4>1. o \in stored'
        BY <3>3 DEF CheckAgain, Staged
      <4> QED BY <4>1 DEF Placed
    <3>4. CASE stored' = stored /\ run[g].stage[o] # "aside" /\ left' = left /\ torn' = torn
      BY <2>2, <3>1, <3>4
    <3> QED BY <2>4, <3>2, <3>3, <3>4 DEF Sweep, Scan, Clear, Note, Check, Unlink, Staged
  <2>5. CASE Start(g)
    <3>1. run[g].stage[o] # "aside"
      BY <2>5 DEF Start, Pending
    <3>2. \A h \in Collectors : h # g => run'[h].stage[o] = run[h].stage[o]
      BY <2>1, <2>5 DEF Start
    <3> QED BY <2>2, <2>5, <3>1, <3>2 DEF Start
  <2>6. CASE Finish(g)
    <3>1. run[g].stage[o] # "aside" /\ stored \subseteq stored' /\ torn' = torn
      BY <2>6 DEF Finish
    <3>2. \A h \in Collectors : h # g => run'[h].stage[o] = run[h].stage[o]
      BY <2>1, <2>6, AgedSame DEF Finish, SameRun
    <3>3. o \in left => o \in left' \/ o \in stored'
      BY <2>6 DEF Finish, PutBack
    <3> QED BY <3>1, <3>2, <3>3 DEF Placed
  <2>8. CASE Die(g)
    <3>1. stored' = stored /\ left \subseteq left' /\ torn \subseteq torn'
      BY <2>8 DEF Die
    <3>2. \A h \in Collectors : h # g => run'[h].stage[o] = run[h].stage[o]
      BY <2>1, <2>8 DEF Die
    <3>3. run[g].stage[o] = "aside" => o \in left' /\ (Names[o] = {} \/ o \in torn')
      <4> HAVE run[g].stage[o] = "aside"
      <4>1. Raced(g, o)
        BY DEF Raced, Staged, Pending
      <4> QED BY <2>8, <4>1 DEF Die, Aside
    <3> QED BY <3>1, <3>2, <3>3 DEF Placed
  <2>7. CASE Marked(g) \/ (\E r \in Refs : ScanRoot(g, r)) \/ \E p \in Objects : Mark(g, p)
    <3>1. \A h \in Collectors : run'[h].stage[o] = run[h].stage[o]
      <4>1. CASE Marked(g)
        BY <2>1, <4>1 DEF Marked, Runs
      <4>2. CASE \E r \in Refs : ScanRoot(g, r)
        BY <2>1, <4>2 DEF ScanRoot, Runs
      <4>3. CASE \E p \in Objects : Mark(g, p)
        BY <2>1, <4>3 DEF Mark, Runs
      <4> QED BY <2>7, <4>1, <4>2, <4>3
    <3>2. stored' = stored /\ left' = left /\ torn' = torn
      BY <2>7 DEF Marked, ScanRoot, Mark
    <3> QED BY <1>1, <3>1, <3>2
  <2> QED BY <1>6, <2>3, <2>4, <2>5, <2>6, <2>7, <2>8 DEF Collect
<1> QED BY <1>2, <1>3, <1>4, <1>5, <1>6 DEF Next

\* A delete that has what a writer found aside was raced by it.
LEMMA FoundRaced ==
  ASSUME Outlasts, TypeOK, Pending, Young, NEW w \in Writers, Busy(w), NEW o \in writer[w].found,
         NEW g \in Collectors, run[g].stage[o] = "aside"
  PROVE  Raced(g, o)
<1> USE Numbers
<1>1. o \in Objects /\ writer[w].age \in 0..WriteTime
  BY WriterFacts
<1>2. note[o] <= writer[w].age + RunTime /\ note[o] \in Ages \union {Unnoted}
  BY <1>1 DEF Young, TypeOK
<1>3. run[g].since[o] = Window /\ run[g].at = "sweep"
  BY <1>1 DEF Pending, Deleting
<1>4. note[o] < Window
  BY <1>1, <1>2 DEF Outlasts, Ages, Unnoted
<1> QED BY <1>3, <1>4 DEF Raced, Staged, Standing

LEMMA HeldStep ==
  ASSUME Outlasts, TypeOK, TypeOK', Pending, Young, Held, [Next]_vars
  PROVE  Held'
<1> SUFFICES ASSUME NEW w \in Writers, Busy(w)', NEW o \in writer'[w].found
             PROVE  Placed(o)'
  BY DEF Held
<1>0. o \in Objects
  BY DEF TypeOK, Writes
<1>1. ASSUME Busy(w), o \in writer[w].found
      PROVE  Placed(o)'
  <2>1. Placed(o)
    BY <1>1 DEF Held
  <2>2. \A g \in Collectors : run[g].stage[o] = "aside" => ~Standing(g, o)
    BY <1>1, FoundRaced DEF Raced
  <2>3. ~Hold
    BY <1>1 DEF Hold
  <2> QED BY <1>0, <2>1, <2>2, <2>3, PlacedSteps
<1>2. CASE writer' = writer
  BY <1>1, <1>2 DEF Busy
<1>3. CASE Tick
  <2>1. Busy(w) /\ writer'[w] = [writer[w] EXCEPT !.age = @ + 1]
    BY <1>3 DEF Tick, Busy, TypeOK
  <2> QED BY <1>1, <2>1 DEF TypeOK, Writes
<1>4. ASSUME NEW v \in Writers, Write(v)
      PROVE  Placed(o)'
  <2>1. CASE v = w
    <3>1. (Busy(w) /\ o \in writer[w].found) \/ o \in stored'
      BY <1>0, <1>4, <2>1, WriterSteps
    <3> QED BY <1>1, <3>1 DEF Placed
  <2>2. CASE v # w
    BY <1>1, <1>4, <2>2, WriteSteps DEF Busy
  <2> QED BY <2>1, <2>2
<1>7. ASSUME NEW g \in Collectors, Collect(g)
      PROVE  writer' = writer
  BY <1>7 DEF Collect, Start, Marked, Finish, Die, ScanRoot, Mark, Sweep, Scan, Clear, Note, Check,
              MoveAside, CheckAgain, Unlink
<1>8. (\E r \in Refs : Drop(r)) \/ Hold \/ UNCHANGED vars => writer' = writer
  BY DEF Drop, Hold, vars
<1> QED BY <1>2, <1>3, <1>4, <1>7, <1>8 DEF Next

NotesInv == TypeOK /\ Pending /\ Young /\ Held

LEMMA NotesInit == Init => NotesInv
<1> SUFFICES ASSUME Init PROVE NotesInv
  OBVIOUS
<1>1. \A w \in Writers : ~Busy(w)
  BY DEF Init, Busy, Idle
<1>2. \A g \in Collectors, o \in Objects : run[g].stage[o] = "done"
  BY DEF Init, Resting
<1> QED BY <1>1, <1>2, InitTyped DEF NotesInv, Pending, Young, Held, Deleting

LEMMA NotesStep == Outlasts /\ NotesInv /\ [Next]_vars => NotesInv'
BY NextTyped, PendingStep, YoungStep, HeldStep DEF NotesInv

\* What a writer has found or stored is kept until it roots it, whichever runs
\* saw it unreachable and wherever they died, if the window is longer than a
\* write and a run (gcDeleteUnreachable and the put-back of gcSweepBackend).
THEOREM CollectorKeepsFound ==
  ASSUME Outlasts
  PROVE  Spec => []FoundKept
<1>1. NotesInv => FoundKept
  <2> SUFFICES ASSUME NotesInv, NEW w \in Writers, Busy(w), NEW o \in writer[w].found PROVE Kept(o)
    BY DEF FoundKept
  <2>1. Placed(o) /\ o \in Objects
    BY WriterFacts DEF NotesInv, Held
  <2>2. \A g \in Collectors : run[g].stage[o] = "aside" => Raced(g, o)
    BY FoundRaced DEF NotesInv
  <2> QED BY <2>1, <2>2 DEF Placed, Kept, RacedNow
<1>2. NotesInv /\ [Next]_vars => NotesInv'
  BY NotesStep
<1> QED BY <1>1, <1>2, NotesInit, PTL DEF Spec

-----------------------------------------------------------------------------
(* What is reached                                                         *)

LEMMA ReachHolds ==
  ASSUME NEW roots \in SUBSET Objects, NEW readable
  PROVE  /\ roots \subseteq Reach(roots, readable)
         /\ \A p \in Reach(roots, readable) \intersect readable : Names[p] \subseteq Reach(roots, readable)
<1>1. \A p \in Objects : Names[p] \subseteq Objects
  BY Numbers
<1> QED BY <1>1 DEF Reach

LEMMA ReachLeast ==
  ASSUME NEW roots, NEW readable, NEW S \in SUBSET Objects, roots \subseteq S,
         \A p \in S \intersect readable : Names[p] \subseteq S
  PROVE  Reach(roots, readable) \subseteq S
BY DEF Reach

\* What a ref reaches, but for what is named by an object that was torn.
Under(r) == Reach({ref[r]} \ {NoObject}, Objects \ torn)

LEMMA UnderHolds ==
  ASSUME TypeOK, NEW r \in Refs
  PROVE  /\ Under(r) \subseteq Objects
         /\ ref[r] # NoObject => ref[r] \in Under(r)
         /\ ref[r] = NoObject => Under(r) = {}
         /\ \A p \in Under(r) \ torn : Names[p] \subseteq Under(r)
<1>1. {ref[r]} \ {NoObject} \in SUBSET Objects
  BY DEF TypeOK
<1>2. Under(r) \subseteq Objects
  BY ReachTyped DEF Under
<1>3. \A p \in Under(r) \ torn : Names[p] \subseteq Under(r)
  BY <1>1, <1>2, ReachHolds DEF Under
<1>4. ref[r] # NoObject => ref[r] \in Under(r)
  BY <1>1, ReachHolds DEF Under
<1>5. ASSUME ref[r] = NoObject PROVE Under(r) = {}
  <2>1. Reach({}, Objects \ torn) \subseteq {}
    BY ReachLeast
  <2> QED BY <1>5, <2>1 DEF Under
<1> QED BY <1>2, <1>3, <1>4, <1>5

LEMMA RootedUnder ==
  ASSUME TypeOK
  PROVE  \A o \in Reached : \E r \in Refs : o \in Under(r)
<1> DEFINE S == {o \in Objects : \E r \in Refs : o \in Under(r)}
<1>1. Rooted \subseteq S
  BY UnderHolds DEF Rooted, TypeOK
<1>2. \A p \in S \intersect (Objects \ torn) : Names[p] \subseteq S
  <2> SUFFICES ASSUME NEW p \in S, p \notin torn PROVE Names[p] \subseteq S
    OBVIOUS
  <2>1. PICK r \in Refs : p \in Under(r)
    OBVIOUS
  <2>2. Names[p] \subseteq Under(r) /\ Under(r) \subseteq Objects
    BY <2>1, UnderHolds
  <2> QED BY <2>2
<1>3. Reached \subseteq S
  BY <1>1, <1>2, ReachLeast DEF Reached
<1> QED BY <1>3

\* What is torn stays so, and its ref then reaches no more than it did.
LEMMA TornGrows ==
  ASSUME [Next]_vars
  PROVE  torn \subseteq torn'
<1>1. ASSUME NEW g \in Collectors, Collect(g)
      PROVE  torn \subseteq torn'
  BY <1>1 DEF Collect, Start, Marked, Finish, Die, ScanRoot, Mark, Sweep, Scan, Clear, Note, Check,
              MoveAside, CheckAgain, Unlink
<1>2. ASSUME NEW w \in Writers, Write(w)
      PROVE  torn \subseteq torn'
  BY <1>2 DEF Write, Begin, ClearNote, Read, Look, Place, GiveUp, Root
<1>3. (\E r \in Refs : Drop(r)) \/ Hold \/ Tick \/ UNCHANGED vars => torn \subseteq torn'
  BY DEF Drop, Hold, Tick, vars
<1> QED BY <1>1, <1>2, <1>3 DEF Next

LEMMA UnderShrinks ==
  ASSUME TypeOK, [Next]_vars, NEW r \in Refs, ref'[r] = ref[r]
  PROVE  Under(r)' \subseteq Under(r)
<1>1. {ref[r]} \ {NoObject} \subseteq Under(r) /\ Under(r) \in SUBSET Objects
  BY UnderHolds
<1>2. \A p \in Under(r) \intersect (Objects \ torn') : Names[p] \subseteq Under(r)
  BY UnderHolds, TornGrows
<1>3. Reach({ref[r]} \ {NoObject}, Objects \ torn') \subseteq Under(r)
  BY <1>1, <1>2, ReachLeast
<1> QED BY <1>3 DEF Under

\* The gc that holds the repository reaches what a ref does, if what was left
\* aside of that names nothing, and what deletes in flight have aside is torn.
LEMMA UnderStored ==
  ASSUME TypeOK, Hold, NEW r \in Refs,
         \A p \in Under(r) : Placed(p) /\ \A g \in Collectors : run[g].stage[p] = "aside" => Raced(g, p)
  PROVE  Under(r)' \subseteq Reach(Rooted, stored)
<1> DEFINE S == Under(r) \intersect Reach(Rooted, stored)
<1>1. Rooted \in SUBSET Objects
  BY DEF Rooted, TypeOK
<1>2. {ref[r]} \ {NoObject} \subseteq S
  BY <1>1, UnderHolds, ReachHolds DEF Rooted
<1>3. ASSUME NEW p \in S, p \notin torn'
      PROVE  Names[p] \subseteq S
  <2>1. p \notin torn /\ p \in Objects /\ (p \in RacedNow => Names[p] = {})
    BY <1>3, UnderHolds DEF Hold
  <2>2. Names[p] \subseteq Under(r)
    BY <1>3, <2>1, UnderHolds
  <2>3. CASE p \in stored
    BY <1>1, <2>2, <2>3, ReachHolds
  <2>4. CASE p \notin stored
    BY <2>1, <2>4 DEF Placed, RacedNow
  <2> QED BY <2>3, <2>4
<1>4. S \in SUBSET Objects
  BY ReachTyped DEF Under
<1>5. ref' = ref
  BY DEF Hold
<1> HIDE DEF S
<1>6. Reach({ref[r]} \ {NoObject}, Objects \ torn') \subseteq S
  BY <1>2, <1>3, <1>4, ReachLeast
<1> QED BY <1>5, <1>6 DEF S, Under

\* A writer goes through all that its target names before it roots it.
Walked ==
  \A w \in Writers : Busy(w) =>
    /\ writer[w].target \in Objects /\ writer[w].target \in writer[w].todo \union writer[w].found
    /\ writer[w].looking # NoObject =>
         /\ writer[w].looking \in writer[w].todo
         /\ writer[w].op = "write" => Names[writer[w].looking] \subseteq writer[w].found
    /\ \A p \in writer[w].found : p \in writer[w].unread \/ Names[p] \subseteq writer[w].todo \union writer[w].found

\* What Found makes of a writer's record.
LEMMA FoundSteps ==
  ASSUME TypeOK, NEW w \in Writers, NEW o, Found(w, o)
  PROVE  /\ writer'[w].op = writer[w].op /\ writer'[w].target = writer[w].target
         /\ writer'[w].todo = writer[w].todo \ {o} /\ writer'[w].found = writer[w].found \union {o}
         /\ writer'[w].looking = NoObject
         /\ writer[w].unread \subseteq writer'[w].unread
         /\ writer[w].op = "touch" /\ Names[o] # {} => o \in writer'[w].unread
<1> DEFINE new == [writer[w] EXCEPT !.todo = @ \ {o}, !.found = @ \union {o},
                     !.looking = NoObject, !.absent = FALSE,
                     !.unread = IF writer[w].op = "touch" /\ Names[o] # {} THEN @ \union {o} ELSE @]
<1>1. writer \in [Writers -> Writes] /\ writer[w] \in Writes
  BY DEF TypeOK
<1>2. writer' = [writer EXCEPT ![w] = new]
  BY <1>1 DEF Found, Writes
<1>3. writer'[w] = new
  BY <1>1, <1>2
<1> QED BY <1>1, <1>3 DEF Writes

LEMMA WalkedStep ==
  ASSUME TypeOK, Walked, [Next]_vars
  PROVE  Walked'
<1> USE Numbers
<1>1. writer \in [Writers -> Writes]
  BY DEF TypeOK
<1> SUFFICES ASSUME NEW w \in Writers, Busy(w)'
             PROVE  /\ writer'[w].target \in Objects
                    /\ writer'[w].target \in writer'[w].todo \union writer'[w].found
                    /\ writer'[w].looking # NoObject =>
                         /\ writer'[w].looking \in writer'[w].todo
                         /\ writer'[w].op = "write" => Names[writer'[w].looking] \subseteq writer'[w].found
                    /\ \A p \in writer'[w].found :
                         p \in writer'[w].unread \/ Names[p] \subseteq writer'[w].todo \union writer'[w].found
  BY DEF Walked
<1>2. CASE writer'[w] = writer[w]
  BY <1>2 DEF Walked, Busy
<1>3. CASE Tick
  <2>1. Busy(w) /\ writer'[w] = [writer[w] EXCEPT !.age = @ + 1]
    BY <1>1, <1>3 DEF Tick, Busy
  <2> QED BY <1>1, <2>1 DEF Walked, Writes
<1>4. ASSUME Found(w, writer[w].looking), Busy(w), writer[w].looking # NoObject
      PROVE  /\ writer'[w].target \in Objects
             /\ writer'[w].target \in writer'[w].todo \union writer'[w].found
             /\ writer'[w].looking = NoObject
             /\ \A p \in writer'[w].found :
                  p \in writer'[w].unread \/ Names[p] \subseteq writer'[w].todo \union writer'[w].found
  <2> DEFINE o == writer[w].looking
  <2>1. /\ writer'[w].op = writer[w].op /\ writer'[w].target = writer[w].target
        /\ writer'[w].todo = writer[w].todo \ {o} /\ writer'[w].found = writer[w].found \union {o}
        /\ writer'[w].looking = NoObject /\ writer[w].unread \subseteq writer'[w].unread
        /\ writer[w].op = "touch" /\ Names[o] # {} => o \in writer'[w].unread
    BY <1>4, FoundSteps
  <2>2. writer[w].op \in {"touch", "write"} /\ o \in writer[w].todo
    BY <1>1, <1>4 DEF Busy, Writes, Walked
  <2>3. o \in writer'[w].unread \/ Names[o] \subseteq writer'[w].found
    BY <1>4, <2>1, <2>2 DEF Walked
  <2> QED BY <1>4, <2>1, <2>2, <2>3 DEF Walked
<1>5. ASSUME NEW v \in Writers, Write(v), v = w
      PROVE  /\ writer'[w].target \in Objects
             /\ writer'[w].target \in writer'[w].todo \union writer'[w].found
             /\ writer'[w].looking # NoObject =>
                  /\ writer'[w].looking \in writer'[w].todo
                  /\ writer'[w].op = "write" => Names[writer'[w].looking] \subseteq writer'[w].found
             /\ \A p \in writer'[w].found :
                  p \in writer'[w].unread \/ Names[p] \subseteq writer'[w].todo \union writer'[w].found
  <2>1. CASE \E op \in {"touch", "write"}, o \in Objects : Begin(w, op, o)
    <3>1. PICK op \in {"touch", "write"}, o \in Objects : Begin(w, op, o)
      BY <2>1
    <3>2. writer'[w] = [Idle EXCEPT !.op = op, !.target = o,
                         !.todo = IF op = "write" THEN Reach({o}, Objects) ELSE {o}]
      BY <1>1, <3>1 DEF Begin
    <3>3. o \in Reach({o}, Objects)
      BY ReachHolds
    <3> QED BY <3>2, <3>3 DEF Idle
  <2>2. CASE \E o \in Objects : ClearNote(w, o)
    <3>1. PICK o \in Objects : ClearNote(w, o)
      BY <2>2
    <3>2. writer'[w] = [writer[w] EXCEPT !.looking = o] /\ Busy(w)
      BY <1>1, <3>1 DEF ClearNote
    <3>3. o \in writer[w].todo /\ (writer[w].op = "write" => Names[o] \subseteq writer[w].found)
      BY <3>1 DEF ClearNote
    <3> QED BY <1>1, <3>2, <3>3 DEF Walked, Writes
  <2>3. CASE \E o \in Objects : Read(w, o)
    <3>1. PICK o \in Objects : Read(w, o)
      BY <2>3
    <3>2. /\ writer'[w].unread = writer[w].unread \ {o} /\ writer'[w].found = writer[w].found
          /\ writer'[w].todo = writer[w].todo \union (Names[o] \ writer[w].found)
          /\ writer'[w].looking = NoObject /\ writer'[w].target = writer[w].target /\ Busy(w)
      BY <1>1, <3>1 DEF Read, Writes
    <3> QED BY <3>2 DEF Walked
  <2>4. CASE Look(w)
    <3>1. CASE Found(w, writer[w].looking)
      BY <1>4, <2>4, <3>1 DEF Look
    <3>2. CASE writer' = [writer EXCEPT ![w] = Idle]
      BY <1>1, <3>2 DEF Busy, Idle
    <3>3. CASE writer' = [writer EXCEPT ![w].absent = TRUE]
      <4>1. writer'[w] = [writer[w] EXCEPT !.absent = TRUE] /\ Busy(w)
        BY <1>1, <2>4, <3>3 DEF Look
      <4> QED BY <1>1, <4>1 DEF Walked, Writes
    <3> QED BY <2>4, <3>1, <3>2, <3>3 DEF Look
  <2>5. CASE Place(w)
    BY <1>4, <2>5 DEF Place
  <2>6. CASE GiveUp(w) \/ \E r \in Refs : Root(w, r)
    BY <1>1, <2>6 DEF GiveUp, Root, Busy, Idle
  <2> QED BY <1>5, <2>1, <2>2, <2>3, <2>4, <2>5, <2>6 DEF Write
<1>6. ASSUME NEW v \in Writers, Write(v), v # w
      PROVE  writer'[w] = writer[w]
  BY <1>6, WriteSteps
<1>7. ASSUME NEW g \in Collectors, Collect(g)
      PROVE  writer' = writer
  BY <1>7 DEF Collect, Start, Marked, Finish, Die, ScanRoot, Mark, Sweep, Scan, Clear, Note, Check,
              MoveAside, CheckAgain, Unlink
<1>8. (\E r \in Refs : Drop(r)) \/ Hold \/ UNCHANGED vars => writer' = writer
  BY DEF Drop, Hold, vars
<1> QED BY <1>2, <1>3, <1>5, <1>6, <1>7, <1>8 DEF Next

-----------------------------------------------------------------------------
(* What runs make of what the refs reach                                   *)

\* The window is longer than a write and the three runs that may follow: one
\* under way as an object was touched, one that puts it back, one that marks
\* meanwhile.
Roomy == Window > WriteTime + 3 * RunTime

Calm(r, bound) == \A o \in Under(r) : note[o] <= bound

\* A mark has met what a ref names, and goes on to all that it names, but for
\* what was torn.
Traced(g, r) ==
  /\ ref[r] \in run[g].reached \union run[g].frontier
  /\ \A q \in (Under(r) \intersect run[g].reached) \ torn :
       Names[q] \subseteq run[g].reached \union run[g].frontier

Marks ==
  \A g \in Collectors :
    /\ run[g].at = "roots" => run[g].reached = {}
    /\ run[g].at \in {"mark", "sweep"} => run[g].refs = {}
    /\ run[g].at = "sweep" => run[g].frontier = {}
    /\ \A o \in Objects : run[g].stage[o] = "note" => o \notin run[g].reached

Recent(g) == WriteTime + RunTime + run[g].age

\* What a run misses was rooted since it began, or named by an object that was
\* aside: it was touched of late.
Seen ==
  \A g \in Collectors, r \in Refs :
    \/ run[g].at = "idle"
    \/ r \in run[g].refs
    \/ Calm(r, Recent(g) + RunTime)
    \/ Traced(g, r)

\* What a run deletes was rooted since its sweep met it, if it is rooted.
Rerooted ==
  \A g \in Collectors, r \in Refs :
    (\E o \in Under(r) : run[g].stage[o] \in Deleting) => Calm(r, Recent(g))

Safe == \A r \in Refs : \A o \in Under(r) : Placed(o)

RootsInv == NotesInv /\ Walked /\ Marks /\ Seen /\ Rerooted /\ Safe

LEMMA RoomyOutlasts == Roomy => Outlasts
BY Numbers DEF Roomy, Outlasts

LEMMA RootedRaced ==
  ASSUME Roomy, TypeOK, Pending, Rerooted, NEW g \in Collectors, NEW r \in Refs, NEW o \in Under(r),
         run[g].stage[o] = "aside"
  PROVE  Raced(g, o)
<1> USE Numbers
<1>1. o \in Objects
  BY UnderHolds
<1>2. note[o] <= Recent(g)
  BY <1>1 DEF Rerooted, Calm, Deleting
<1>3. note[o] \in Ages \union {Unnoted} /\ run[g].age \in 0..RunTime
  BY <1>1, RunFacts
<1>4. note[o] < Window
  BY <1>2, <1>3 DEF Roomy, Recent, Ages, Unnoted
<1>5. run[g].since[o] = Window /\ run[g].at = "sweep"
  BY <1>1 DEF Pending, Deleting
<1> QED BY <1>4, <1>5 DEF Raced, Staged, Standing

\* A mark that is done has reached what it traced.
LEMMA TracedReached ==
  ASSUME TypeOK, NEW g \in Collectors, NEW r \in Refs, Traced(g, r), run[g].frontier = {}
  PROVE  Under(r) \subseteq run[g].reached
<1> DEFINE S == Under(r) \intersect run[g].reached
<1>1. {ref[r]} \ {NoObject} \subseteq S
  BY UnderHolds DEF Traced
<1>2. \A p \in S \intersect (Objects \ torn) : Names[p] \subseteq S
  BY UnderHolds DEF Traced
<1>3. S \in SUBSET Objects
  BY UnderHolds
<1> HIDE DEF S
<1>4. Under(r) \subseteq S
  BY <1>1, <1>2, <1>3, ReachLeast DEF Under
<1> QED BY <1>4 DEF S

\* What a sweep takes as unreachable for the window no ref reaches.
LEMMA NotUnder ==
  ASSUME Roomy, TypeOK, Marks, Seen, NEW g \in Collectors, run[g].at = "sweep",
         NEW o \in Objects, note[o] = Window, o \notin run[g].reached, NEW r \in Refs
  PROVE  o \notin Under(r)
<1> USE Numbers
<1>1. run[g].refs = {} /\ run[g].frontier = {} /\ run[g].age \in 0..RunTime
  BY RunFacts DEF Marks
<1>2. CASE Traced(g, r)
  BY <1>1, <1>2, TracedReached
<1>3. CASE Calm(r, Recent(g) + RunTime)
  <2>1. ~(Window <= Recent(g) + RunTime)
    BY <1>1 DEF Roomy, Recent
  <2> QED BY <1>3, <2>1 DEF Calm
<1> QED BY <1>1, <1>2, <1>3 DEF Seen

\* What changes a ref, and what it then reaches.
LEMMA RefSteps ==
  ASSUME TypeOK, Pending, Young, Walked, [Next]_vars, NEW r \in Refs
  PROVE  \/ Under(r)' \subseteq Under(r) /\ ref'[r] = ref[r]
         \/ /\ note' = note /\ run' = run /\ stored' = stored /\ left' = left /\ torn' = torn
            /\ \/ Under(r)' = {}
               \/ \E w \in Writers : Busy(w) /\ Under(r)' \subseteq writer[w].found
<1> USE Numbers
<1>0. ref \in [Refs -> Objects \union {NoObject}]
  BY DEF TypeOK
<1>1. CASE ref'[r] = ref[r]
  BY <1>1, UnderShrinks
<1>2. CASE \E s \in Refs : Drop(s)
  <2>1. ref'[r] # ref[r] => ref'[r] = NoObject
    BY <1>0, <1>2 DEF Drop
  <2>2. Reach({}, Objects \ torn') \subseteq {}
    BY ReachLeast
  <2>3. ref'[r] = NoObject => Under(r)' = {}
    BY <2>2 DEF Under
  <2> QED BY <1>1, <1>2, <2>1, <2>3 DEF Drop
<1>3. ASSUME NEW w \in Writers, NEW s \in Refs, Root(w, s), ref'[r] # ref[r]
      PROVE  /\ note' = note /\ run' = run /\ stored' = stored /\ left' = left /\ torn' = torn
             /\ Busy(w) /\ Under(r)' \subseteq writer[w].found
  <2>1. ref'[r] = writer[w].target /\ Busy(w)
    BY <1>0, <1>3 DEF Root
  <2>2. writer[w].target \in writer[w].found /\ \A p \in writer[w].found : Names[p] \subseteq writer[w].found
    BY <1>3, <2>1 DEF Root, Walked
  <2>3. writer[w].found \in SUBSET Objects
    BY WriterFacts
  <2>4. Reach({writer[w].target} \ {NoObject}, Objects \ torn') \subseteq writer[w].found
    BY <2>2, <2>3, ReachLeast
  <2> QED BY <1>3, <2>1, <2>4 DEF Root, Under
<1>4. (\E w \in Writers : Write(w)) => ref' = ref \/ \E w \in Writers, s \in Refs : Root(w, s)
  BY DEF Write, Begin, ClearNote, Read, Look, Place, GiveUp
<1>5. ASSUME NEW g \in Collectors, Collect(g)
      PROVE  ref' = ref
  BY <1>5 DEF Collect, Start, Marked, Finish, Die, ScanRoot, Mark, Sweep, Scan, Clear, Note, Check,
              MoveAside, CheckAgain, Unlink
<1>6. Hold \/ Tick \/ UNCHANGED vars => ref' = ref
  BY DEF Hold, Tick, vars
<1> QED BY <1>1, <1>2, <1>3, <1>4, <1>5, <1>6 DEF Next

\* What a writer found is young, as it roots it.
LEMMA FoundCalm ==
  ASSUME TypeOK, Young, NEW w \in Writers, Busy(w), NEW o \in writer[w].found
  PROVE  note[o] <= WriteTime + RunTime /\ o \in Objects
<1> USE Numbers
<1>1. writer[w].age \in 0..WriteTime /\ o \in Objects
  BY WriterFacts
<1>2. note[o] \in Ages \union {Unnoted} /\ note[o] <= writer[w].age + RunTime
  BY <1>1 DEF TypeOK, Young
<1> QED BY <1>1, <1>2 DEF Ages, Unnoted

LEMMA SafeStep ==
  ASSUME Roomy, TypeOK, Pending, Young, Held, Walked, Rerooted, Safe, [Next]_vars
  PROVE  Safe'
<1> SUFFICES ASSUME NEW r \in Refs, NEW o \in Under(r)' PROVE Placed(o)'
  BY DEF Safe
<1>1. CASE Under(r)' \subseteq Under(r)
  <2>1. \A p \in Under(r) : Placed(p) /\ \A g \in Collectors : run[g].stage[p] = "aside" => Raced(g, p)
    BY RootedRaced DEF Safe
  <2>2. Hold => o \in Reach(Rooted, stored)
    BY <2>1, UnderStored
  <2>3. o \in Objects /\ Placed(o) /\ \A g \in Collectors : run[g].stage[o] = "aside" => ~Standing(g, o)
    BY <1>1, <2>1, UnderHolds DEF Raced
  <2> QED BY <2>2, <2>3, PlacedSteps, RoomyOutlasts
<1>2. CASE /\ run' = run /\ stored' = stored /\ left' = left /\ torn' = torn
           /\ \E w \in Writers : Busy(w) /\ Under(r)' \subseteq writer[w].found
  <2>1. Placed(o)
    BY <1>2 DEF Held
  <2> QED BY <1>2, <2>1 DEF Placed
<1> QED BY <1>1, <1>2, RefSteps

LEMMA CalmStep ==
  ASSUME TypeOK, TypeOK', Pending, [Next]_vars, NEW r \in Refs, Under(r)' \subseteq Under(r),
         NEW bound \in Nat, bound >= RunTime, Calm(r, bound)
  PROVE  \A o \in Under(r)' : (~Tick => note'[o] <= bound) /\ note'[o] <= bound + 1
<1> USE Numbers
<1> SUFFICES ASSUME NEW o \in Under(r)
             PROVE  (~Tick => note'[o] <= bound) /\ note'[o] <= bound + 1
  OBVIOUS
<1>1. o \in Objects
  BY UnderHolds
<1>2. note[o] \in Int /\ note'[o] \in Int /\ note[o] <= bound
  BY <1>1 DEF TypeOK, Calm, Ages, Unnoted
<1> QED BY <1>1, <1>2, NoteSteps

\* What a step other than a sweep's makes of a run.
LEMMA CollectSteps ==
  ASSUME TypeOK, NEW g \in Collectors, Collect(g)
  PROVE  /\ note' = note \/ \E o \in Objects : Sweep(g, o)
         /\ \/ \E o \in Objects : Sweep(g, o)
            \/ /\ \A h \in Collectors : h # g => SameRun(h)
               /\ \/ run'[g].at = "idle" /\ \A o \in Objects : run'[g].stage[o] = "done"
                  \/ /\ run'[g].refs = Refs /\ run'[g].at = "roots" /\ run'[g].reached = {}
                     /\ \A o \in Objects : run'[g].stage[o] = "todo"
                  \/ /\ run'[g].stage = run[g].stage /\ run'[g].age = run[g].age
                     /\ Marked(g) \/ (\E r \in Refs : ScanRoot(g, r)) \/ \E o \in Objects : Mark(g, o)
<1>1. run \in [Collectors -> Runs] /\ run[g] \in Runs
  BY DEF TypeOK
<1>2. CASE Start(g)
  BY <1>1, <1>2 DEF Start, Resting, SameRun
<1>3. CASE Finish(g) \/ Die(g)
  <2>1. run'[g] = Resting /\ note' = note
    BY <1>1, <1>3 DEF Finish, Die
  <2>2. \A h \in Collectors : h # g => run'[h] = run[h] \/ run'[h] = Aged(run[h])
    BY <1>1, <1>3 DEF Finish, Die
  <2>3. \A h \in Collectors : h # g => SameRun(h)
    BY <2>2, AgedSame DEF SameRun
  <2> QED BY <2>1, <2>3 DEF Resting
<1>4. CASE Marked(g)
  BY <1>1, <1>4 DEF Marked, Runs, SameRun
<1>5. CASE \E r \in Refs : ScanRoot(g, r)
  <2>1. /\ run'[g].stage = run[g].stage /\ run'[g].age = run[g].age /\ note' = note
        /\ \A h \in Collectors : h # g => run'[h] = run[h]
    BY <1>1, <1>5 DEF ScanRoot, Runs
  <2> QED BY <1>5, <2>1 DEF SameRun
<1>6. CASE \E o \in Objects : Mark(g, o)
  <2>1. /\ run'[g].stage = run[g].stage /\ run'[g].age = run[g].age /\ note' = note
        /\ \A h \in Collectors : h # g => run'[h] = run[h]
    BY <1>1, <1>6 DEF Mark, Runs
  <2> QED BY <1>6, <2>1 DEF SameRun
<1> QED BY <1>2, <1>3, <1>4, <1>5, <1>6 DEF Collect

\* A run another actor steps beside is the same, but for its age.
LEMMA OtherRuns ==
  ASSUME Outlasts, TypeOK, Pending, [Next]_vars, NEW g \in Collectors
  PROVE  \/ /\ run'[g].at = run[g].at /\ run'[g].refs = run[g].refs
            /\ run'[g].frontier = run[g].frontier /\ run'[g].reached = run[g].reached
            /\ \/ run'[g].age = run[g].age /\ ~Tick
               \/ run'[g].age = run[g].age + 1
               \/ run[g].at = "idle"
            /\ \/ run'[g].stage = run[g].stage
               \/ \E o \in Objects : Sweep(g, o)
         \/ run'[g].at = "idle" /\ \A o \in Objects : run'[g].stage[o] = "done"
         \/ /\ run'[g].refs = Refs /\ run'[g].at = "roots" /\ run'[g].reached = {}
            /\ \A o \in Objects : run'[g].stage[o] = "todo"
         \/ /\ run'[g].stage = run[g].stage /\ run'[g].age = run[g].age /\ ~Tick
            /\ Marked(g) \/ (\E r \in Refs : ScanRoot(g, r)) \/ \E o \in Objects : Mark(g, o)
<1>1. CASE Tick
  BY <1>1, TickSteps
<1>2. ASSUME ~Tick, SameRun(g) \/ run'[g] = run[g]
      PROVE  /\ run'[g].at = run[g].at /\ run'[g].refs = run[g].refs
             /\ run'[g].frontier = run[g].frontier /\ run'[g].reached = run[g].reached
             /\ run'[g].age = run[g].age /\ run'[g].stage = run[g].stage
  BY <1>2 DEF SameRun
<1>3. CASE \E w \in Writers : Write(w)
  BY <1>1, <1>2, <1>3, WriteSteps
<1>4. CASE (\E r \in Refs : Drop(r)) \/ Hold \/ UNCHANGED vars
  BY <1>1, <1>2, <1>4, AgedSame DEF Drop, Hold, vars
<1>5. CASE Collect(g) /\ ~Tick
  <2>1. CASE \E o \in Objects : Sweep(g, o)
    BY <1>5, <2>1, SweepSteps
  <2>2. CASE ~\E o \in Objects : Sweep(g, o)
    BY <1>5, <2>2, CollectSteps
  <2> QED BY <2>1, <2>2
<1>6. ASSUME NEW h \in Collectors, Collect(h), h # g, ~Tick
      PROVE  /\ run'[g].at = run[g].at /\ run'[g].refs = run[g].refs
             /\ run'[g].frontier = run[g].frontier /\ run'[g].reached = run[g].reached
             /\ run'[g].age = run[g].age /\ run'[g].stage = run[g].stage
  <2>1. CASE \E o \in Objects : Sweep(h, o)
    <3>1. PICK o \in Objects : Sweep(h, o)
      BY <2>1
    <3>2. \A p \in Objects : run'[g].stage[p] = run[g].stage[p]
      BY <1>6, <3>1, SweepSteps
    <3>3. run' \in [Collectors -> Runs] /\ run \in [Collectors -> Runs]
      BY <3>1, SweepTyped DEF TypeOK
    <3>4. run'[g].stage = run[g].stage
      BY <3>2, <3>3 DEF Runs
    <3> QED BY <1>6, <3>1, <3>4, SweepSteps
  <2>2. CASE ~\E o \in Objects : Sweep(h, o)
    BY <1>6, <2>2, CollectSteps DEF SameRun
  <2> QED BY <2>1, <2>2
<1> QED BY <1>1, <1>3, <1>4, <1>5, <1>6 DEF Next

\* What each step of a run's mark makes of what it has met.
LEMMA MarkSteps ==
  ASSUME TypeOK, Marks, NEW g \in Collectors
  PROVE  /\ Marked(g) =>
              /\ run'[g].at = "sweep" /\ run[g].at = "mark" /\ run'[g].refs = run[g].refs
              /\ run'[g].reached = run[g].reached /\ run'[g].frontier = run[g].frontier /\ run[g].frontier = {}
         /\ \A r \in Refs : ScanRoot(g, r) =>
              /\ run[g].at = "roots" /\ run'[g].at \in {"roots", "mark"}
              /\ run'[g].at = "mark" => run'[g].refs = {}
              /\ run'[g].refs = run[g].refs \ {r} /\ run'[g].reached = {} /\ run[g].reached = {}
              /\ run'[g].frontier = run[g].frontier \union ({ref[r]} \ {NoObject})
         /\ \A o \in Objects : Mark(g, o) =>
              /\ run[g].at = "mark" /\ run'[g].at = "mark" /\ run'[g].refs = run[g].refs
              /\ run'[g].reached = run[g].reached \union {o}
              /\ run[g].reached \union run[g].frontier \subseteq run'[g].reached \union run'[g].frontier
              /\ o \in stored => Names[o] \subseteq run'[g].reached \union run'[g].frontier
<1>1. run \in [Collectors -> Runs] /\ run[g] \in Runs
  BY DEF TypeOK
<1>2. ASSUME Marked(g)
      PROVE  /\ run'[g].at = "sweep" /\ run[g].at = "mark" /\ run'[g].refs = run[g].refs
             /\ run'[g].reached = run[g].reached /\ run'[g].frontier = run[g].frontier /\ run[g].frontier = {}
  BY <1>1, <1>2 DEF Marked, Runs
<1>3. ASSUME NEW r \in Refs, ScanRoot(g, r)
      PROVE  /\ run[g].at = "roots" /\ run'[g].at \in {"roots", "mark"}
             /\ run'[g].at = "mark" => run'[g].refs = {}
             /\ run'[g].refs = run[g].refs \ {r} /\ run'[g].reached = {} /\ run[g].reached = {}
             /\ run'[g].frontier = run[g].frontier \union ({ref[r]} \ {NoObject})
  <2> DEFINE q == [run[g] EXCEPT !.refs = @ \ {r}, !.frontier = @ \union ({ref[r]} \ {NoObject}),
                     !.at = IF run[g].refs = {r} THEN "mark" ELSE @]
  <2>1. run'[g] = q
    BY <1>1, <1>3 DEF ScanRoot
  <2>2. run[g].at = "roots" /\ run[g].reached = {}
    BY <1>3 DEF ScanRoot, Marks
  <2> QED BY <1>1, <2>1, <2>2 DEF Runs
<1>4. ASSUME NEW o \in Objects, Mark(g, o)
      PROVE  /\ run[g].at = "mark" /\ run'[g].at = "mark" /\ run'[g].refs = run[g].refs
             /\ run'[g].reached = run[g].reached \union {o}
             /\ run[g].reached \union run[g].frontier \subseteq run'[g].reached \union run'[g].frontier
             /\ o \in stored => Names[o] \subseteq run'[g].reached \union run'[g].frontier
  <2>1. /\ run'[g].reached = run[g].reached \union {o} /\ run'[g].at = run[g].at
        /\ run'[g].refs = run[g].refs
        /\ run'[g].frontier = (run[g].frontier \union IF o \in stored THEN Names[o] ELSE {})
                               \ (run[g].reached \union {o})
    BY <1>1, <1>4 DEF Mark, Runs
  <2> QED BY <1>4, <2>1 DEF Mark
<1> QED BY <1>2, <1>3, <1>4

LEMMA MarksStep ==
  ASSUME Outlasts, TypeOK, Pending, Marks, [Next]_vars
  PROVE  Marks'
<1> SUFFICES ASSUME NEW g \in Collectors
             PROVE  /\ run'[g].at = "roots" => run'[g].reached = {}
                    /\ run'[g].at \in {"mark", "sweep"} => run'[g].refs = {}
                    /\ run'[g].at = "sweep" => run'[g].frontier = {}
                    /\ \A o \in Objects : run'[g].stage[o] = "note" => o \notin run'[g].reached
  BY DEF Marks
<1>1. CASE /\ run'[g].at = run[g].at /\ run'[g].refs = run[g].refs
           /\ run'[g].frontier = run[g].frontier /\ run'[g].reached = run[g].reached
  <2>1. CASE run'[g].stage = run[g].stage
    BY <1>1, <2>1 DEF Marks
  <2>2. CASE \E p \in Objects : Sweep(g, p)
    <3>1. PICK p \in Objects : Sweep(g, p)
      BY <2>2
    <3>2. /\ run'[g].stage[p] = "note" => p \notin run[g].reached
          /\ \A o \in Objects : o # p => run'[g].stage[o] = run[g].stage[o]
      BY <3>1, SweepSteps
    <3> QED BY <1>1, <3>2 DEF Marks
  <2>3. CASE ~(run'[g].stage = run[g].stage \/ \E p \in Objects : Sweep(g, p))
    BY <1>1, <2>3, OtherRuns DEF Marks
  <2> QED BY <2>1, <2>2, <2>3
<1>2. CASE run'[g].at = "idle" /\ \A o \in Objects : run'[g].stage[o] = "done"
  BY <1>2
<1>3. CASE /\ run'[g].at = "roots" /\ run'[g].reached = {}
           /\ \A o \in Objects : run'[g].stage[o] = "todo"
  BY <1>3
<1>4. CASE /\ run'[g].stage = run[g].stage
           /\ Marked(g) \/ (\E r \in Refs : ScanRoot(g, r)) \/ \E o \in Objects : Mark(g, o)
  <2>1. \A o \in Objects : run'[g].stage[o] # "note"
    <3>1. run[g].at # "sweep"
      BY <1>4, MarkSteps
    <3> QED BY <1>4, <3>1 DEF Pending
  <2>2. CASE Marked(g)
    BY <2>1, <2>2, MarkSteps DEF Marks
  <2>3. CASE \E r \in Refs : ScanRoot(g, r)
    BY <2>1, <2>3, MarkSteps
  <2>4. CASE \E o \in Objects : Mark(g, o)
    BY <2>1, <2>4, MarkSteps DEF Marks
  <2> QED BY <1>4, <2>2, <2>3, <2>4
<1> QED BY <1>1, <1>2, <1>3, <1>4, OtherRuns

LEMMA SeenStep ==
  ASSUME Roomy, TypeOK, TypeOK', Pending, Young, Walked, Marks, Seen, Rerooted, Safe, [Next]_vars
  PROVE  Seen'
<1> USE Numbers
<1> SUFFICES ASSUME NEW g \in Collectors, NEW r \in Refs
             PROVE  \/ run'[g].at = "idle" \/ r \in run'[g].refs
                    \/ Calm(r, Recent(g) + RunTime)' \/ Traced(g, r)'
  BY DEF Seen
<1>1. run[g].age \in Nat /\ run'[g].age \in Nat
  BY DEF TypeOK, Runs
<1>2. CASE note' = note /\ run' = run /\ (Under(r)' = {} \/ \E w \in Writers : Busy(w) /\ Under(r)' \subseteq writer[w].found)
  <2>1. \A o \in Under(r)' : note[o] <= WriteTime + RunTime /\ note[o] \in Int
    BY <1>2, FoundCalm DEF TypeOK, Ages, Unnoted
  <2>2. Calm(r, Recent(g) + RunTime)'
    BY <1>1, <1>2, <2>1 DEF Calm, Recent
  <2> QED BY <2>2
<1>3. CASE Under(r)' \subseteq Under(r) /\ ref'[r] = ref[r]
  <2> DEFINE bound == Recent(g) + RunTime
  <2>0. bound \in Nat /\ bound >= RunTime
    BY <1>1 DEF Recent
  <2>1. ASSUME Calm(r, bound), run'[g].age = run[g].age, ~Tick
        PROVE  Calm(r, Recent(g) + RunTime)'
    <3>1. \A o \in Under(r)' : note'[o] <= bound
      BY <1>3, <2>0, <2>1, CalmStep
    <3> QED BY <2>1, <3>1 DEF Recent, Calm
  <2>2. ASSUME Calm(r, bound), run'[g].age = run[g].age + 1
        PROVE  Calm(r, Recent(g) + RunTime)'
    <3>1. \A o \in Under(r)' : note'[o] <= bound + 1
      BY <1>3, <2>0, <2>2, CalmStep
    <3>2. bound + 1 = WriteTime + RunTime + run'[g].age + RunTime
      BY <1>1, <2>2 DEF Recent
    <3> QED BY <3>1, <3>2 DEF Recent, Calm
  <2>9. torn \subseteq torn'
    BY TornGrows
  <2>3. CASE /\ run'[g].at = run[g].at /\ run'[g].refs = run[g].refs
             /\ run'[g].frontier = run[g].frontier /\ run'[g].reached = run[g].reached
             /\ \/ run'[g].age = run[g].age /\ ~Tick
                \/ run'[g].age = run[g].age + 1
                \/ run[g].at = "idle"
    <3>1. Traced(g, r) => Traced(g, r)'
      BY <1>3, <2>3, <2>9 DEF Traced
    <3> QED BY <2>1, <2>2, <2>3, <3>1 DEF Seen
  <2>4. CASE run'[g].at = "idle" \/ run'[g].refs = Refs
    BY <2>4
  <2>5. CASE run'[g].age = run[g].age /\ ~Tick /\ Marked(g)
    <3>1. Traced(g, r) => Traced(g, r)'
      BY <1>3, <2>5, <2>9, MarkSteps DEF Traced
    <3> QED BY <2>1, <2>5, <3>1, MarkSteps DEF Seen
  <2>6. CASE run'[g].age = run[g].age /\ ~Tick /\ \E s \in Refs : ScanRoot(g, s)
    <3>1. PICK s \in Refs : ScanRoot(g, s)
      BY <2>6
    <3>2. /\ run[g].at = "roots" /\ run'[g].refs = run[g].refs \ {s} /\ run'[g].reached = {} /\ run[g].reached = {}
          /\ run'[g].frontier = run[g].frontier \union ({ref[s]} \ {NoObject})
      BY <3>1, MarkSteps
    <3>3. Traced(g, r) => Traced(g, r)'
      BY <1>3, <3>2 DEF Traced
    <3>4. CASE s = r /\ ref[r] # NoObject
      BY <1>3, <3>2, <3>4 DEF Traced
    <3>5. CASE s = r /\ ref[r] = NoObject
      <4>1. Calm(r, bound)
        BY <3>5, UnderHolds DEF Calm
      <4> QED BY <2>1, <2>6, <4>1
    <3>6. CASE s # r
      BY <2>1, <2>6, <3>2, <3>3, <3>6 DEF Seen
    <3> QED BY <3>4, <3>5, <3>6
  <2>7. CASE run'[g].age = run[g].age /\ ~Tick /\ \E o \in Objects : Mark(g, o)
    <3>1. PICK o \in Objects : Mark(g, o)
      BY <2>7
    <3>2. /\ run[g].at = "mark" /\ run'[g].refs = run[g].refs
          /\ run'[g].reached = run[g].reached \union {o}
          /\ run[g].reached \union run[g].frontier \subseteq run'[g].reached \union run'[g].frontier
          /\ o \in stored => Names[o] \subseteq run'[g].reached \union run'[g].frontier
      BY <3>1, MarkSteps
    <3>3. CASE Traced(g, r) /\ (o \in stored \/ o \notin Under(r) \/ o \in torn \/ Names[o] = {})
      <4>1. o \notin Under(r)' \/ o \in torn' \/ Names[o] \subseteq run'[g].reached \union run'[g].frontier
        BY <1>3, <2>9, <3>2, <3>3
      <4> QED BY <1>3, <2>9, <3>2, <3>3, <4>1 DEF Traced
    <3>4. CASE o \in Under(r) /\ o \notin stored /\ o \notin torn /\ Names[o] # {}
      \* It is aside at a run that met it before the ref named it.
      <4>1. PICK h \in Collectors : run[h].stage[o] = "aside"
        BY <3>4 DEF Safe, Placed
      <4>2. Calm(r, Recent(h))
        BY <3>4, <4>1 DEF Rerooted, Deleting
      <4>3. run[h].age \in 0..RunTime
        BY <3>1, RunFacts
      <4>4. \A q \in Under(r) : note[q] \in Int
        BY UnderHolds DEF TypeOK, Ages, Unnoted
      <4>5. Calm(r, bound)
        BY <1>1, <4>2, <4>3, <4>4 DEF Calm, Recent
      <4> QED BY <2>1, <2>7, <4>5
    <3>5. CASE ~Traced(g, r)
      BY <2>1, <2>7, <3>2, <3>5 DEF Seen
    <3> QED BY <3>3, <3>4, <3>5
  <2> HIDE DEF bound
  <2> QED BY <2>3, <2>4, <2>5, <2>6, <2>7, OtherRuns, RoomyOutlasts
<1> QED BY <1>2, <1>3, RefSteps

LEMMA RerootedStep ==
  ASSUME Roomy, TypeOK, TypeOK', Pending, Young, Walked, Marks, Seen, Rerooted, [Next]_vars
  PROVE  Rerooted'
<1> USE Numbers
<1> SUFFICES ASSUME NEW g \in Collectors, NEW r \in Refs, NEW o \in Under(r)', run'[g].stage[o] \in Deleting
             PROVE  Calm(r, Recent(g))'
  BY DEF Rerooted
<1>1. run[g].age \in Nat /\ run'[g].age \in Nat
  BY DEF TypeOK, Runs
<1>2. CASE note' = note /\ run' = run /\ (Under(r)' = {} \/ \E w \in Writers : Busy(w) /\ Under(r)' \subseteq writer[w].found)
  <2>1. \A p \in Under(r)' : note[p] <= WriteTime + RunTime /\ note[p] \in Int
    BY <1>2, FoundCalm DEF TypeOK, Ages, Unnoted
  <2> QED BY <1>1, <1>2, <2>1 DEF Calm, Recent
<1>3. CASE Under(r)' \subseteq Under(r) /\ ref'[r] = ref[r]
  <2>1. o \in Objects
    BY <1>3, UnderHolds
  <2> USE RoomyOutlasts
  <2>2. run[g].stage[o] \in Deleting
    <3>1. CASE \E p \in Objects : Sweep(g, p)
      <4>1. PICK p \in Objects : Sweep(g, p)
        BY <3>1
      <4>2. CASE p # o
        BY <2>1, <4>1, <4>2, SweepSteps
      <4>3. CASE p = o
        <5>1. /\ run[g].at = "sweep"
              /\ run[g].stage[o] \notin Deleting =>
                   note[o] = Window /\ (run[g].stage[o] = "note" \/ o \notin run[g].reached)
          BY <2>1, <4>1, <4>3, SweepSteps
        <5>2. run[g].stage[o] = "note" => o \notin run[g].reached
          BY <2>1 DEF Marks
        <5> QED BY <1>3, <2>1, <5>1, <5>2, NotUnder
      <4> QED BY <4>2, <4>3
    <3>2. CASE run'[g].stage = run[g].stage
      BY <3>2
    <3>3. run'[g].stage[o] \notin {"done", "todo"}
      BY DEF Deleting
    <3> QED BY <2>1, <3>1, <3>2, <3>3, OtherRuns
  <2>3. Calm(r, Recent(g))
    BY <1>3, <2>2 DEF Rerooted
  <2>4. run[g].at = "sweep"
    BY <2>1, <2>2 DEF Pending, Deleting
  <2>5. \/ run'[g].age = run[g].age /\ ~Tick
        \/ run'[g].age = run[g].age + 1
    <3>1. run'[g].stage[o] \notin {"done", "todo"}
      BY DEF Deleting
    <3> QED BY <2>1, <2>4, <3>1, OtherRuns
  <2> DEFINE bound == Recent(g)
  <2>6. bound \in Nat /\ bound >= RunTime /\ Calm(r, bound)
    BY <1>1, <2>3 DEF Recent
  <2>7. \A p \in Under(r)' : (~Tick => note'[p] <= bound) /\ note'[p] <= bound + 1
    <3> HIDE DEF bound
    <3> QED BY <1>3, <2>6, CalmStep
  <2> QED BY <1>1, <2>5, <2>7 DEF Calm, Recent
<1> QED BY <1>2, <1>3, RefSteps

LEMMA RootsInit == Init => RootsInv
<1> SUFFICES ASSUME Init PROVE RootsInv
  OBVIOUS
<1>1. NotesInv /\ TypeOK
  BY NotesInit, InitTyped
<1>2. \A w \in Writers : ~Busy(w)
  BY DEF Init, Busy, Idle
<1>3. \A g \in Collectors : run[g] = Resting
  BY DEF Init
<1>4. \A g \in Collectors : run[g].at = "idle" /\ \A o \in Objects : run[g].stage[o] = "done"
  BY <1>3 DEF Resting
<1>5. \A r \in Refs : Under(r) = {}
  BY <1>1, UnderHolds DEF Init
<1>6. Walked
  BY <1>2 DEF Walked
<1>7. Marks
  BY <1>4 DEF Marks
<1>8. Seen
  BY <1>4 DEF Seen
<1>9. Rerooted /\ Safe
  BY <1>5 DEF Rerooted, Safe
<1> QED BY <1>1, <1>6, <1>7, <1>8, <1>9 DEF RootsInv

LEMMA RootsStep == Roomy /\ RootsInv /\ [Next]_vars => RootsInv'
<1> SUFFICES ASSUME Roomy, RootsInv, [Next]_vars PROVE RootsInv'
  OBVIOUS
<1>1. NotesInv' /\ TypeOK' /\ TypeOK /\ Pending /\ Young /\ Held
  BY NotesStep, RoomyOutlasts DEF RootsInv, NotesInv
<1>2. Walked' /\ Marks'
  BY <1>1, WalkedStep, MarksStep, RoomyOutlasts DEF RootsInv
<1>3. Seen' /\ Rerooted' /\ Safe'
  BY <1>1, SeenStep, RerootedStep, SafeStep DEF RootsInv
<1> QED BY <1>1, <1>2, <1>3 DEF RootsInv

LEMMA RootsKept == Roomy /\ RootsInv => RootedKept
<1> SUFFICES ASSUME Roomy, RootsInv, NEW o \in Reached PROVE Kept(o)
  BY DEF RootedKept
<1>1. PICK r \in Refs : o \in Under(r)
  BY RootedUnder DEF RootsInv, NotesInv
<1>2. \A g \in Collectors : run[g].stage[o] = "aside" => Raced(g, o)
  BY <1>1, RootedRaced DEF RootsInv, NotesInv
<1>3. Placed(o) /\ o \in Objects
  BY <1>1, UnderHolds DEF RootsInv, NotesInv, Safe
<1> QED BY <1>2, <1>3 DEF Placed, Kept, RacedNow

\* What a ref names, and all that names in turn but for what was torn, is kept,
\* however refs move while runs mark and wherever runs die, if the window is
\* longer than a write and three runs (repoGcStep, gcDeleteUnreachable).
THEOREM CollectorKeepsRooted ==
  ASSUME Roomy
  PROVE  Spec => []RootedKept
<1>1. RootsInv => RootedKept
  BY RootsKept
<1>2. RootsInv /\ [Next]_vars => RootsInv'
  BY RootsStep
<1> QED BY <1>1, <1>2, RootsInit, PTL DEF Spec

\* Of all steps it is the end of a run that takes it from its sweep to idle, if
\* it does not die.
LEMMA RunEnds ==
  ASSUME TypeOK, Outlasts, Pending, [Next]_vars, NEW g \in Collectors,
         run[g].at = "sweep", run'[g].at = "idle", deaths' = deaths
  PROVE  Finish(g)
<1>1. run[g] \in Runs /\ run \in [Collectors -> Runs] /\ deaths \in Nat
  BY Numbers DEF TypeOK
<1>2. ~SameRun(g) /\ run'[g] # run[g]
  BY DEF SameRun
<1>3. ~Tick
  BY TickSteps
<1>4. ~\E w \in Writers : Write(w)
  BY <1>2, WriteSteps
<1>5. ~((\E r \in Refs : Drop(r)) \/ Hold \/ UNCHANGED vars)
  BY <1>2, AgedSame DEF Drop, Hold, vars
<1>6. ASSUME NEW h \in Collectors, Collect(h)
      PROVE  Finish(g)
  <2>1. ~\E o \in Objects : Sweep(h, o)
    BY SweepSteps
  <2>2. h = g
    BY <1>2, <1>6, <2>1, CollectSteps
  <2>3. ~Start(g) /\ ~Marked(g) /\ ~(\E r \in Refs : ScanRoot(g, r)) /\ ~\E o \in Objects : Mark(g, o)
    BY DEF Start, Marked, ScanRoot, Mark
  <2>4. ~Die(g)
    BY <1>1 DEF Die
  <2> QED BY <1>6, <2>1, <2>2, <2>3, <2>4 DEF Collect
<1> QED BY <1>3, <1>4, <1>5, <1>6 DEF Next

\* A run that ends leaves what the refs reach in its place, but for a delete in
\* flight and for what is not yet as long aside as the age gate, however many
\* runs died before it (the put-back of gcSweepBackend).
THEOREM CollectorReturns ==
  ASSUME Roomy
  PROVE  Spec => RootedReturns
<1>1. ASSUME RootsInv, RootedKept', [Next]_vars
      PROVE  [(\E g \in Collectors : run[g].at = "sweep" /\ run'[g].at = "idle" /\ deaths' = deaths)
               => \A o \in Reached' :
                    \/ o \in stored' \union RacedNow'
                    \/ o \in left' /\ moved'[o] < MinAge]_vars
  <2> SUFFICES ASSUME NEW g \in Collectors, run[g].at = "sweep", run'[g].at = "idle", deaths' = deaths,
                      NEW o \in Reached'
               PROVE  o \in stored' \union RacedNow' \/ (o \in left' /\ moved'[o] < MinAge)
    OBVIOUS
  <2>1. TypeOK /\ Pending
    BY <1>1 DEF RootsInv, NotesInv
  <2>2. Finish(g)
    BY <1>1, <2>1, RunEnds, RoomyOutlasts
  <2>3. Kept(o)'
    BY <1>1 DEF RootedKept
  <2>4. CASE o \in left'
    <3>1. o \in left \ Due /\ moved[o] \in 0..MinAge /\ o \in Objects
      BY <2>1, <2>2, <2>4 DEF Finish, PutBack, TypeOK
    <3>2. moved'[o] = moved[o] /\ moved[o] # MinAge
      BY <2>2, <3>1 DEF Finish, PutBack, Due
    <3> QED BY <2>4, <3>1, <3>2, Numbers
  <2> QED BY <2>3, <2>4 DEF Kept
<1>2. RootsInv /\ [Next]_vars => RootsInv'
  BY RootsStep
<1>3. RootsInv => RootedKept
  BY RootsKept
<1> QED BY <1>1, <1>2, <1>3, RootsInit, PTL DEF Spec, RootedReturns

=============================================================================
