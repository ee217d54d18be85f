----------------------------- MODULE LockService -----------------------------
(***************************************************************************)
(* The locks of one resource on a local filesystem (e3-core/src/storage/   *)
(* local/LocalLockService.ts): one exclusive file, one shared file of each *)
(* shared holder, and nothing but those files between the processes.       *)
(*                                                                         *)
(* A holder is a process and the one acquire (or status query) it has      *)
(* under way.  Each step is one filesystem call, with what the code then   *)
(* decides from it; a file holds its holder's name, and a process that has *)
(* gone leaves its files behind, to be found stale.                        *)
(***************************************************************************)
EXTENDS Naturals, FiniteSets

CONSTANTS
  Holders,
  NoHolder,
  Modes      \* Modes[h]: what h may ask for: "exclusive", "shared", "query"

ASSUME LockAssumption ==
  /\ NoHolder \notin Holders
  /\ Modes \in [Holders -> SUBSET {"exclusive", "shared", "query"}]

VARIABLES
  excl,    \* whose lock exclusive.beast2 holds, or NoHolder: no such file
  shared,  \* the holders whose shared files exist
  pc,      \* where each holder is in its acquire
  mode,    \* what it asked for
  seen,    \* the exclusive lock it last read
  left,    \* the shared files it listed and has yet to look at
  found    \* whether it found one of them live

vars == <<excl, shared, pc, mode, seen, left, found>>

PC == {"idle", "clean", "judge", "list", "scan", "create", "relist", "rescan",
       "look", "decide", "write", "recheck", "confirm", "backout", "poll", "held",
       "gone"}

TypeOK ==
  /\ excl \in Holders \union {NoHolder}
  /\ shared \subseteq Holders
  /\ pc \in [Holders -> PC]
  /\ mode \in [Holders -> {"exclusive", "shared", "query"}]
  /\ seen \in [Holders -> Holders \union {NoHolder}]
  /\ left \in [Holders -> SUBSET Holders]
  /\ found \in [Holders -> BOOLEAN]

Init ==
  /\ excl = NoHolder /\ shared = {}
  /\ pc = [h \in Holders |-> "idle"]
  /\ mode = [h \in Holders |-> "query"]
  /\ seen = [h \in Holders |-> NoHolder]
  /\ left = [h \in Holders |-> {}]
  /\ found = [h \in Holders |-> FALSE]

Gone(h)  == h \in Holders /\ pc[h] = "gone"
Live(h)  == h \in Holders /\ pc[h] # "gone"
Goto(h, l) == pc' = [pc EXCEPT ![h] = l]
Forget(h)  == seen' = [seen EXCEPT ![h] = NoHolder]

\* An acquire, or a query of the lock's state, begins by cleaning a stale
\* exclusive lock.
Begin(h, m) ==
  /\ pc[h] = "idle" /\ m \in Modes[h]
  /\ mode' = [mode EXCEPT ![h] = m]
  /\ Goto(h, "clean")
  /\ UNCHANGED <<excl, shared, seen, left, found>>

\* readLockState of the exclusive lock; whether its holder lives is asked later.
Read(h, from, to) ==
  /\ pc[h] = from
  /\ seen' = [seen EXCEPT ![h] = excl]
  /\ Goto(h, to)
  /\ UNCHANGED <<excl, shared, mode, left, found>>

ReadExclusive(h) ==
  Read(h, "clean", "judge") \/ Read(h, "look", "decide") \/ Read(h, "recheck", "confirm")

\* cleanIfStale: the file is unlinked by its path, whatever it holds by then.
Cleaned(h) ==
  CASE mode[h] = "exclusive" -> "list"
    [] mode[h] = "shared" -> "look"
    [] mode[h] = "query" -> "idle"

JudgeKeepsStale(h) ==                         \* mutant: no unlink
  /\ pc[h] = "judge"
  /\ Forget(h) /\ Goto(h, Cleaned(h))
  /\ UNCHANGED <<excl, shared, mode, left, found>>
Judge(h) ==
  /\ pc[h] = "judge"
  /\ excl' = IF Gone(seen[h]) THEN NoHolder ELSE excl
  /\ Forget(h) /\ Goto(h, Cleaned(h))
  /\ UNCHANGED <<shared, mode, left, found>>

-----------------------------------------------------------------------------
(* tryExclusiveOnce                                                        *)

\* liveSharedLocks: list the directory, then clean or count each shared file.
ListShared(h) ==
  /\ \/ pc[h] = "list" /\ Goto(h, "scan")
     \/ pc[h] = "relist" /\ Goto(h, "rescan")
  /\ left' = [left EXCEPT ![h] = shared]
  /\ UNCHANGED <<excl, shared, mode, seen, found>>

LookAt(h, f) ==
  /\ pc[h] \in {"scan", "rescan"} /\ f \in left[h]
  /\ left' = [left EXCEPT ![h] = @ \ {f}]
  /\ shared' = IF Gone(f) THEN shared \ {f} ELSE shared
  /\ found' = [found EXCEPT ![h] = @ \/ (f \in shared /\ Live(f))]
  /\ UNCHANGED <<excl, pc, mode, seen>>

\* A live shared lock fails the attempt; found after the lock was created, it
\* makes the attempt back out.
Listed(h) ==
  /\ left[h] = {}
  /\ \/ pc[h] = "scan" /\ Goto(h, IF found[h] THEN "poll" ELSE "create")
     \/ pc[h] = "rescan" /\ Goto(h, IF found[h] THEN "backout" ELSE "held")
  /\ found' = [found EXCEPT ![h] = FALSE]
  /\ UNCHANGED <<excl, shared, mode, seen, left>>

\* The link that fails if the name is taken.
CreateHolds(h) ==                             \* mutant: no second look
  /\ pc[h] = "create"
  /\ excl' = IF excl = NoHolder THEN h ELSE excl
  /\ Goto(h, IF excl = NoHolder THEN "held" ELSE "poll")
  /\ UNCHANGED <<shared, mode, seen, left, found>>
Create(h) ==
  /\ pc[h] = "create"
  /\ excl' = IF excl = NoHolder THEN h ELSE excl
  /\ Goto(h, IF excl = NoHolder THEN "relist" ELSE "poll")
  /\ UNCHANGED <<shared, mode, seen, left, found>>

-----------------------------------------------------------------------------
(* trySharedOnce                                                           *)

\* A live exclusive lock fails the attempt, before the shared file is written
\* and after.
Decide(h) ==
  /\ pc[h] = "decide"
  /\ Forget(h) /\ Goto(h, IF Live(seen[h]) THEN "poll" ELSE "write")
  /\ UNCHANGED <<excl, shared, mode, left, found>>

WriteShared(h) ==
  /\ pc[h] = "write"
  /\ shared' = shared \union {h}
  /\ Goto(h, "recheck")
  /\ UNCHANGED <<excl, mode, seen, left, found>>

Confirm(h) ==
  /\ pc[h] = "confirm"
  /\ Forget(h) /\ Goto(h, IF Live(seen[h]) THEN "backout" ELSE "held")
  /\ UNCHANGED <<excl, shared, mode, left, found>>

-----------------------------------------------------------------------------
\* The holder's own file is unlinked: the exclusive one, again, by its path.
Unlink(h, from, to) ==
  /\ pc[h] = from
  /\ IF mode[h] = "exclusive"
     THEN excl' = NoHolder /\ shared' = shared
     ELSE excl' = excl /\ shared' = shared \ {h}
  /\ Goto(h, to)
  /\ UNCHANGED <<mode, seen, left, found>>

BackOutKeepsFile(h) ==                        \* mutant: fails, its file left
  /\ pc[h] = "backout"
  /\ Goto(h, "poll")
  /\ UNCHANGED <<excl, shared, mode, seen, left, found>>
BackOut(h) == Unlink(h, "backout", "poll")
Release(h) == Unlink(h, "held", "idle")

\* An attempt that failed is made again until its deadline.
Retry(h) ==
  /\ pc[h] = "poll" /\ Goto(h, "clean")
  /\ UNCHANGED <<excl, shared, mode, seen, left, found>>
GiveUp(h) ==
  /\ pc[h] = "poll" /\ Goto(h, "idle")
  /\ UNCHANGED <<excl, shared, mode, seen, left, found>>

\* A process ends, at rest or in the middle of anything.
Exit(h) ==
  /\ pc[h] # "gone" /\ Goto(h, "gone")
  /\ UNCHANGED <<excl, shared, mode, seen, left, found>>

\* What an acquire does of itself.
Step(h) ==
  \/ ReadExclusive(h) \/ Judge(h) \/ ListShared(h) \/ Listed(h) \/ Create(h)
  \/ Decide(h) \/ WriteShared(h) \/ Confirm(h) \/ BackOut(h) \/ Retry(h)
  \/ \E f \in Holders : LookAt(h, f)

Next ==
  \E h \in Holders :
    \/ \E m \in Modes[h] : Begin(h, m)
    \/ Step(h) \/ Release(h) \/ GiveUp(h) \/ Exit(h)

Spec == Init /\ [][Next]_vars

\* An acquire under way goes on; nothing makes one begin, or its holder let go.
FairSpec == Spec /\ \A h \in Holders : WF_vars(Step(h))

-----------------------------------------------------------------------------
Holds(h)          == pc[h] = "held"
HoldsExclusive(h) == Holds(h) /\ mode[h] = "exclusive"
HoldsShared(h)    == Holds(h) /\ mode[h] = "shared"

\* "the same mutual exclusion as O_EXCL" (atomicCreateLockFile): an exclusive
\* holder is alone.
MutualExclusion ==
  \A h, k \in Holders : HoldsExclusive(h) /\ Holds(k) => h = k

\* It is, for as long as no process that takes the lock exclusively has gone:
\* of an exclusive and a shared acquirer that pass one another, "at most one of
\* them finds nothing".
ExclusionWhileAlive ==
  (\A h \in Holders : Gone(h) => "exclusive" \notin Modes[h]) => MutualExclusion

\* A process that lives leaves no file behind: nothing could reclaim it.
NoOrphan ==
  \A h \in Holders : Live(h) =>
    /\ excl = h => mode[h] = "exclusive" /\ pc[h] \in {"relist", "rescan", "backout", "held"}
    /\ h \in shared => mode[h] = "shared" /\ pc[h] \in {"recheck", "confirm", "backout", "held"}

\* An acquirer is not kept waiting by files alone: left alone with what others
\* released, abandoned or died holding, it stops waiting.
AtRest(h)  == pc[h] \in {"idle", "gone"}
Waiting(h) == ~AtRest(h) /\ ~Holds(h)
AloneServed ==
  \A h \in Holders :
    []<>~(Waiting(h) /\ \A k \in Holders \ {h} : AtRest(k))
=============================================================================
