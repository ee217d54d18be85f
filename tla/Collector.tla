------------------------------- MODULE Collector -------------------------------
(***************************************************************************)
(* Garbage collection beside running work (e3-core): runs that mark from   *)
(* the refs and sweep in steps, holding nothing, while writers store or    *)
(* re-reference objects and then root them; and the gc that holds the      *)
(* repository still.                                                       *)
(*                                                                         *)
(* Times are ages: how long a note has stood, a run or a write has gone    *)
(* on. Tick lets one unit pass, and what bounds a run and a write is when  *)
(* it may. An object's bytes never differ, so a file is there or not.      *)
(* The age gate (minAge) is left out where it only keeps more: it is how   *)
(* long an object stays aside whose delete died, and a delete in flight is *)
(* younger than it.                                                        *)
(***************************************************************************)
EXTENDS Integers, FiniteSets

CONSTANTS
  Objects, Names,       \* what each object names, a manifest its segments
  Refs, NoObject,       \* what roots an object: a dataset, a package, a record
  Targets,              \* bound: the objects that writers root
  Writers, Collectors,
  Window, MinAge,       \* the retention window, and the age gate
  WriteTime, RunTime,   \* bounds on a write, to its root, and on a run
  MaxDeaths             \* bound on the runs that die

ASSUME CollectorAssumption ==
  /\ NoObject \notin Objects
  /\ Names \in [Objects -> SUBSET Objects] /\ Targets \subseteq Objects
  /\ Window \in Nat \ {0} /\ MinAge \in Nat
  /\ WriteTime \in Nat /\ RunTime \in Nat /\ MaxDeaths \in Nat

VARIABLES
  stored,  \* the objects whose files are in their place
  left,    \* those aside, moved there by a delete that died
  moved,   \* how long ago it moved each
  torn,    \* those that name others and were out of their place, though a touch
           \* had found them, as a run died or the repository was held
  note,    \* how long each object's unreachable note has stood
  ref,     \* the object each ref names
  writer,
  run,     \* each collector's run
  deaths

vars == <<stored, left, moved, torn, note, ref, writer, run, deaths>>
apart == <<left, moved, torn>>

Unnoted == -1
Ages == 0..Window  \* past the window, ages are not told apart

Writes == [op: {"idle", "touch", "write"}, target: Objects \union {NoObject}, age: 0..WriteTime,
           todo: SUBSET Objects, unread: SUBSET Objects, found: SUBSET Objects,
           looking: Objects \union {NoObject}, absent: BOOLEAN]
Stages == {"todo", "clear", "note", "delete", "checked", "aside", "doomed", "done"}
Runs == [at: {"idle", "roots", "mark", "sweep"}, age: 0..RunTime, refs: SUBSET Refs,
         frontier: SUBSET Objects, reached: SUBSET Objects, newer: SUBSET Objects,
         stage: [Objects -> Stages], since: [Objects -> Ages]]

TypeOK ==
  /\ stored \subseteq Objects /\ left \subseteq Objects /\ torn \subseteq Objects
  /\ moved \in [Objects -> 0..MinAge]
  /\ note \in [Objects -> Ages \union {Unnoted}]
  /\ ref \in [Refs -> Objects \union {NoObject}]
  /\ writer \in [Writers -> Writes]
  /\ run \in [Collectors -> Runs]
  /\ deaths \in 0..MaxDeaths

Idle == [op |-> "idle", target |-> NoObject, age |-> 0, todo |-> {}, unread |-> {}, found |-> {},
         looking |-> NoObject, absent |-> FALSE]
Resting == [at |-> "idle", age |-> 0, refs |-> {}, frontier |-> {}, reached |-> {}, newer |-> {},
            stage |-> [o \in Objects |-> "done"], since |-> [o \in Objects |-> 0]]

Init ==
  /\ stored = {} /\ left = {} /\ torn = {}
  /\ moved = [o \in Objects |-> 0]
  /\ note = [o \in Objects |-> Unnoted]
  /\ ref = [r \in Refs |-> NoObject]
  /\ writer = [w \in Writers |-> Idle]
  /\ run = [g \in Collectors |-> Resting]
  /\ deaths = 0

\* What some objects reach by what the readable ones name.
Reach(roots, readable) ==
  {o \in Objects : \A S \in SUBSET Objects :
     roots \subseteq S /\ (\A p \in S \intersect readable : Names[p] \subseteq S) => o \in S}

Rooted == {ref[r] : r \in Refs} \ {NoObject}

-----------------------------------------------------------------------------
(* Writers. A touch clears the note and then looks for the file; a write is *)
(* a touch, and places the file when it is not there.                       *)

Busy(w) == writer[w].op # "idle"

\* What is written is written whole, and what is re-referenced by its hash is
\* touched, read, and what it names touched in turn (touchReachable).
Begin(w, op, target) ==
  /\ ~Busy(w) /\ target \in Targets
  /\ writer' = [writer EXCEPT ![w] = [Idle EXCEPT !.op = op, !.target = target,
       !.todo = IF op = "write" THEN Reach({target}, Objects) ELSE {target}]]
  /\ UNCHANGED <<stored, apart, note, ref, run, deaths>>

\* A write stores what an object names before the object.
ClearNote(w, o) ==
  /\ Busy(w) /\ writer[w].looking = NoObject /\ o \in writer[w].todo
  /\ writer[w].op = "write" => Names[o] \subseteq writer[w].found
  /\ note' = [note EXCEPT ![o] = Unnoted]
  /\ writer' = [writer EXCEPT ![w].looking = o]
  /\ UNCHANGED <<stored, apart, ref, run, deaths>>

\* An object found is the writer's to root; one a touch finds that names
\* others is to read.
Found(w, o) ==
  writer' = [writer EXCEPT ![w].todo = @ \ {o}, ![w].found = @ \union {o},
    ![w].looking = NoObject, ![w].absent = FALSE,
    ![w].unread = IF writer[w].op = "touch" /\ Names[o] # {} THEN @ \union {o} ELSE @]

\* A touch that finds nothing ends what it is for.
Look(w) ==
  LET o == writer[w].looking
  IN /\ Busy(w) /\ o # NoObject /\ ~writer[w].absent
     /\ \/ o \in stored /\ Found(w, o)
        \/ o \notin stored /\ writer[w].op = "touch" /\ writer' = [writer EXCEPT ![w] = Idle]
        \/ o \notin stored /\ writer[w].op = "write" /\ writer' = [writer EXCEPT ![w].absent = TRUE]
     /\ UNCHANGED <<stored, apart, note, ref, run, deaths>>

\* The staged file is renamed into its place.
Place(w) ==
  LET o == writer[w].looking
  IN /\ Busy(w) /\ o # NoObject /\ writer[w].absent
     /\ stored' = stored \union {o}
     /\ Found(w, o)
     /\ run' = [g \in Collectors |->
          IF run[g].at = "idle" THEN run[g] ELSE [run[g] EXCEPT !.newer = @ \union {o}]]
     /\ UNCHANGED <<apart, note, ref, deaths>>

\* readTouched: an object aside is read again once it is put back, or is taken
\* for gone (GiveUp).
Read(w, o) ==
  /\ Busy(w) /\ writer[w].looking = NoObject /\ o \in writer[w].unread /\ o \in stored
  /\ writer' = [writer EXCEPT ![w].unread = @ \ {o}, ![w].todo = @ \union (Names[o] \ writer[w].found)]
  /\ UNCHANGED <<stored, apart, note, ref, run, deaths>>

Root(w, r) ==
  /\ Busy(w) /\ writer[w].todo = {} /\ writer[w].unread = {} /\ writer[w].looking = NoObject
  /\ ref' = [ref EXCEPT ![r] = writer[w].target]
  /\ writer' = [writer EXCEPT ![w] = Idle]
  /\ UNCHANGED <<stored, apart, note, run, deaths>>

\* A write fails, is refused, or its process dies: what it stored is garbage.
GiveUp(w) ==
  /\ Busy(w)
  /\ writer' = [writer EXCEPT ![w] = Idle]
  /\ UNCHANGED <<stored, apart, note, ref, run, deaths>>

\* A ref goes, with its workspace, package or execution.
Drop(r) ==
  /\ ref[r] # NoObject
  /\ ref' = [ref EXCEPT ![r] = NoObject]
  /\ UNCHANGED <<stored, apart, note, writer, run, deaths>>

-----------------------------------------------------------------------------
(* A run beside running work: repoGcStep. *)

Start(g) ==
  /\ run[g].at = "idle"
  /\ run' = [run EXCEPT ![g] = [Resting EXCEPT !.at = "roots", !.refs = Refs,
                                  !.stage = [o \in Objects |-> "todo"]]]
  /\ UNCHANGED <<stored, apart, note, ref, writer, deaths>>

\* The refs are read one after another.
ScanRoot(g, r) ==
  /\ run[g].at = "roots" /\ r \in run[g].refs
  /\ run' = [run EXCEPT ![g].refs = @ \ {r}, ![g].frontier = @ \union ({ref[r]} \ {NoObject}),
               ![g].at = IF run[g].refs = {r} THEN "mark" ELSE @]
  /\ UNCHANGED <<stored, apart, note, ref, writer, deaths>>

\* An object that is not in its place reads as one that names nothing.
Mark(g, o) ==
  /\ run[g].at = "mark" /\ o \in run[g].frontier
  /\ LET reached == run[g].reached \union {o}
     IN run' = [run EXCEPT ![g].reached = reached,
          ![g].frontier = (@ \union IF o \in stored THEN Names[o] ELSE {}) \ reached]
  /\ UNCHANGED <<stored, apart, note, ref, writer, deaths>>

Marked(g) ==
  /\ run[g].at = "mark" /\ run[g].frontier = {}
  /\ run' = [run EXCEPT ![g].at = "sweep"]
  /\ UNCHANGED <<stored, apart, note, ref, writer, deaths>>

Staged(g, o, from) == run[g].at = "sweep" /\ run[g].stage[o] = from

\* Mutant of Decision: a note one unit short of the window is taken for its age.
EarlyDecision(g, o) ==
  CASE o \notin stored -> "done"
    [] o \in stored /\ o \in run[g].reached -> IF note[o] = Unnoted THEN "done" ELSE "clear"
    [] o \in stored /\ o \notin run[g].reached /\ note[o] = Unnoted ->
         IF o \in run[g].newer THEN "done" ELSE "note"
    [] OTHER -> IF note[o] >= Window - 1 THEN "delete" ELSE "done"

\* What a sweep makes of an object as its scan finds it. One written after the
\* run began may be rooted by what the mark missed.
Decision(g, o) ==
  CASE o \notin stored -> "done"
    [] o \in stored /\ o \in run[g].reached -> IF note[o] = Unnoted THEN "done" ELSE "clear"
    [] o \in stored /\ o \notin run[g].reached /\ note[o] = Unnoted ->
         IF o \in run[g].newer THEN "done" ELSE "note"
    [] OTHER -> IF note[o] >= Window THEN "delete" ELSE "done"

\* The page's time was taken in this run, before its objects were scanned.
Scan(g, o, taken) ==
  /\ Staged(g, o, "todo") /\ taken <= run[g].age
  /\ run' = [run EXCEPT ![g].stage[o] = Decision(g, o),
               ![g].since[o] = CASE Decision(g, o) = "note" -> taken
                                 [] Decision(g, o) = "delete" -> note[o]
                                 [] OTHER -> 0]
  /\ UNCHANGED <<stored, apart, note, ref, writer, deaths>>

Clear(g, o) ==
  /\ Staged(g, o, "clear")
  /\ note' = [note EXCEPT ![o] = Unnoted]
  /\ run' = [run EXCEPT ![g].stage[o] = "done", ![g].since[o] = 0]
  /\ UNCHANGED <<stored, apart, ref, writer, deaths>>

\* Made at the page's time where none stands. One that stands is kept.
Note(g, o) ==
  LET stands == IF note[o] = Unnoted THEN run[g].since[o] ELSE note[o]
  IN /\ Staged(g, o, "note")
     /\ note' = [note EXCEPT ![o] = stands]
     /\ run' = [run EXCEPT ![g].stage[o] = IF stands >= Window THEN "delete" ELSE "done",
                  ![g].since[o] = IF stands >= Window THEN stands ELSE 0]
     /\ UNCHANGED <<stored, apart, ref, writer, deaths>>

Standing(g, o) == note[o] = run[g].since[o]

Check(g, o) ==
  /\ Staged(g, o, "delete")
  /\ run' = [run EXCEPT ![g].stage[o] = IF Standing(g, o) THEN "checked" ELSE "done",
               ![g].since[o] = IF Standing(g, o) THEN @ ELSE 0]
  /\ UNCHANGED <<stored, apart, note, ref, writer, deaths>>

MoveAside(g, o) ==
  /\ Staged(g, o, "checked")
  /\ stored' = stored \ {o}
  /\ run' = [run EXCEPT ![g].stage[o] = IF o \in stored THEN "aside" ELSE "clear"]
  /\ UNCHANGED <<apart, note, ref, writer, deaths>>

\* Mutant of CheckAgain: the note is not looked at again.
CheckOnce(g, o) ==
  /\ Staged(g, o, "aside")
  /\ run' = [run EXCEPT ![g].stage[o] = "doomed"]
  /\ UNCHANGED <<stored, apart, note, ref, writer, deaths>>

\* The note is looked at again, and the object put back unless it stands: with
\* the time it was written, over a copy written since.
CheckAgain(g, o) ==
  /\ Staged(g, o, "aside")
  /\ IF Standing(g, o)
     THEN /\ run' = [run EXCEPT ![g].stage[o] = "doomed"]
          /\ UNCHANGED stored
     ELSE /\ run' = [h \in Collectors |->
               IF h = g THEN [run[g] EXCEPT !.stage[o] = "done", !.since[o] = 0, !.newer = @ \ {o}]
               ELSE [run[h] EXCEPT !.newer = @ \ {o}]]
          /\ stored' = stored \union {o}
  /\ UNCHANGED <<apart, note, ref, writer, deaths>>

Unlink(g, o) ==
  /\ Staged(g, o, "doomed")
  /\ run' = [run EXCEPT ![g].stage[o] = "clear"]
  /\ UNCHANGED <<stored, apart, note, ref, writer, deaths>>

Aside(g) == {o \in Objects : run[g].stage[o] \in {"aside", "doomed"}}

\* A touch found the object before it went aside: the second look is to put
\* it back.
Raced(g, o) == Staged(g, o, "aside") /\ ~Standing(g, o)
RacedNow == {o \in Objects : \E g \in Collectors : Raced(g, o)}

\* The backend's sweep puts back what a delete that died left aside, once past
\* the age gate: with the time it was written, over a copy written since.
Due == {o \in left : moved[o] = MinAge}
PutBack ==
  /\ left' = left \ Due
  /\ moved' = [o \in Objects |-> IF o \in Due THEN 0 ELSE moved[o]]
Aged(q) == [q EXCEPT !.newer = @ \ Due]

\* Mutant of Finish: what was left aside stays there.
FinishOnly(g) ==
  /\ run[g].at = "sweep" /\ \A o \in Objects : run[g].stage[o] = "done"
  /\ run' = [run EXCEPT ![g] = Resting]
  /\ UNCHANGED <<stored, apart, note, ref, writer, deaths>>

Finish(g) ==
  /\ run[g].at = "sweep" /\ \A o \in Objects : run[g].stage[o] = "done"
  /\ PutBack
  /\ stored' = stored \union Due
  /\ run' = [h \in Collectors |-> IF h = g THEN Resting ELSE Aged(run[h])]
  /\ UNCHANGED <<torn, note, ref, writer, deaths>>

\* A run fails or dies: what it has aside stays there. Of an object left twice,
\* the last copy alone is told.
Die(g) ==
  /\ run[g].at # "idle" /\ deaths < MaxDeaths
  /\ left' = left \union Aside(g)
  /\ torn' = torn \union {o \in Objects : Raced(g, o) /\ Names[o] # {}}
  /\ moved' \in {ages \in [Objects -> 0..MinAge] : \A o \in Objects :
       IF o \in Aside(g) THEN ages[o] <= run[g].age ELSE ages[o] = moved[o]}
  /\ run' = [run EXCEPT ![g] = Resting]
  /\ deaths' = deaths + 1
  /\ UNCHANGED <<stored, note, ref, writer>>

-----------------------------------------------------------------------------
(* The gc that holds the repository still, which no write runs beside. It   *)
(* deletes what it did not reach, and then puts back what was left aside. It *)
(* is one step: what changes beside it is what runs in steps do.            *)

Hold ==
  /\ \A w \in Writers : ~Busy(w)
  /\ LET reached == Reach(Rooted, stored)
     IN /\ stored' = (stored \intersect reached) \union Due
        /\ note' = [o \in Objects |-> IF o \in stored \ reached THEN Unnoted ELSE note[o]]
  /\ PutBack
  /\ torn' = torn \union {o \in RacedNow : Names[o] # {}}
  /\ run' = [g \in Collectors |-> Aged(run[g])]
  /\ UNCHANGED <<ref, writer, deaths>>

-----------------------------------------------------------------------------

Older(age) == IF age \in 0..(Window - 1) THEN age + 1 ELSE age

\* A unit of time, while no write or run is at its bound.
Tick ==
  /\ \A w \in Writers : Busy(w) => writer[w].age < WriteTime
  /\ \A g \in Collectors : run[g].at # "idle" => run[g].age < RunTime
  /\ note' = [o \in Objects |-> Older(note[o])]
  /\ moved' = [o \in Objects |-> IF o \in left /\ moved[o] < MinAge THEN moved[o] + 1 ELSE moved[o]]
  /\ writer' = [w \in Writers |-> IF Busy(w) THEN [writer[w] EXCEPT !.age = @ + 1] ELSE writer[w]]
  /\ run' = [g \in Collectors |-> IF run[g].at = "idle" THEN run[g] ELSE
       [run[g] EXCEPT !.age = @ + 1,
          !.since = [o \in Objects |-> IF run[g].stage[o] \in {"todo", "clear", "done"}
                                        THEN run[g].since[o] ELSE Older(run[g].since[o])]]]
  /\ UNCHANGED <<stored, left, torn, ref, deaths>>

Write(w) ==
  \/ \E op \in {"touch", "write"}, o \in Objects : Begin(w, op, o)
  \/ \E o \in Objects : ClearNote(w, o) \/ Read(w, o)
  \/ Look(w) \/ Place(w) \/ GiveUp(w)
  \/ \E r \in Refs : Root(w, r)

Sweep(g, o) ==
  \/ \E taken \in Ages : Scan(g, o, taken)
  \/ Clear(g, o) \/ Note(g, o)
  \/ Check(g, o) \/ MoveAside(g, o) \/ CheckAgain(g, o) \/ Unlink(g, o)

Collect(g) ==
  \/ Start(g) \/ Marked(g) \/ Finish(g) \/ Die(g)
  \/ \E r \in Refs : ScanRoot(g, r)
  \/ \E o \in Objects : Mark(g, o) \/ Sweep(g, o)

Next ==
  \/ \E w \in Writers : Write(w)
  \/ \E g \in Collectors : Collect(g)
  \/ \E r \in Refs : Drop(r)
  \/ Hold \/ Tick

Spec == Init /\ [][Next]_vars

-----------------------------------------------------------------------------

\* An object is there, or is to be put back: by the delete that has it aside,
\* or by a later run once that delete died.
Kept(o) == o \in stored \/ o \in RacedNow \/ o \in left

\* What a writer has found or stored, and is yet to root, is kept, whichever
\* runs saw it unreachable and wherever they died (the contract of
\* ObjectStore.touch, and the two looks of gcDeleteUnreachable).
FoundKept == \A w \in Writers : Busy(w) => \A o \in writer[w].found : Kept(o)

\* What the refs reach, but for what is named by an object that was torn: a
\* mark that finds such a one aside reads it as naming nothing.
Reached == Reach(Rooted, Objects \ torn)

\* Every object a ref names, and all that those name in turn, is kept, though
\* the refs move while the marks read them (interfaces.ts: an object touched
\* and then rooted within the window is never lost).
RootedKept == \A o \in Reached : Kept(o)

\* A run that ends leaves in their places what the refs reach, and what runs
\* that died left aside of it (sweep.ts: "one a crash left aside is put back,
\* since a touch may have answered for it"), but for a delete in flight and for
\* what has not been aside as long as the age gate.
RootedReturns ==
  [][(\E g \in Collectors : run[g].at = "sweep" /\ run'[g].at = "idle" /\ deaths' = deaths)
       => \A o \in Reached' :
            \/ o \in stored' \union RacedNow'
            \/ o \in left' /\ moved'[o] < MinAge]_vars

=============================================================================
