--------------------------------- MODULE Budget ---------------------------------
(***************************************************************************)
(* The budget of cores and memory that an e3 process hands out to the      *)
(* runners it spawns (e3-core, execution/budget.ts), the guard that stops  *)
(* one when they outgrow it, and the executions that hold a grant, are     *)
(* stopped and ask again (LocalTaskRunner.ts).                             *)
(*                                                                         *)
(* An action runs to the next await. A pass of grantNext, which does not   *)
(* wait, is a step a waiter, and nothing else runs until it is over.       *)
(***************************************************************************)
EXTENDS Integers, Sequences, FiniteSets, FiniteSetsExt

CONSTANTS
  Executions,
  Kind,     \* a "unit" of a split task, a "task" run as one, or a detached "call"
  Asks,     \* what each may reserve at first
  Uses,     \* what its runner may be found using
  Cores, Memory,
  Bypass,   \* the time a request that does not fit lets later ones pass
  CapFloor, \* the least a cap is above its reservation
  MaxLows   \* bound on the times the machine is found nearly out of memory

ASSUME BudgetAssumption ==
  /\ IsFiniteSet(Executions)
  /\ Kind \in [Executions -> {"unit", "task", "call"}]
  /\ Asks \in [Executions -> SUBSET Nat]
  /\ Uses \in [Executions -> SUBSET Nat]
  /\ Cores \in Nat \ {0} /\ Memory \in Nat \ {0}
  /\ Bypass \in Nat /\ CapFloor \in Nat \ {0} /\ MaxLows \in Nat

VARIABLES
  queue,    \* the executions that wait, in order
  waited,   \* for how long each has
  holders,  \* those granted
  reserved, \* the bytes they reserve between them
  alone,    \* one of more than the budget runs
  pass,     \* a pass of grantNext: where it is in the queue, 0 when none is on
  watched,  \* the holders with a runner to watch, by when it was
  usage,    \* what each runner was last measured using
  measured, \* and the most it was
  stopped,  \* why the guard stopped it
  peak,     \* and at what
  check,    \* the measurement in progress
  at,       \* where each execution is
  reserves, \* what its attempt reserves
  exit,     \* how its runner ended
  merging,  \* the attempts whose unit ended well, and whose merge is run
  lows      \* the times the machine was found low

queued == <<queue, waited>>
granted == <<holders, reserved, alone>>
watching == <<watched, usage, measured, stopped, peak>>
executing == <<at, reserves, exit, merging>>
vars == <<queued, granted, pass, watching, check, executing, lows>>

Places == {"idle", "waiting", "granted", "running", "exited", "done", "retry", "again"}
Idle == [at |-> "idle", seen |-> {}, live |-> <<>>, gone |-> {}]
Over == [next |-> 0, blocked |-> FALSE]
Begun == [next |-> 1, blocked |-> FALSE]

TypeOK ==
  /\ queue \in Seq(Executions) /\ waited \in [Executions -> 0..Bypass]
  /\ holders \subseteq Executions /\ reserved \in Int /\ alone \in BOOLEAN
  /\ pass \in [next: Nat, blocked: BOOLEAN]
  /\ watched \in Seq(Executions)
  /\ usage \in [Executions -> Nat] /\ measured \in [Executions -> Nat] /\ peak \in [Executions -> Nat]
  /\ stopped \in [Executions -> {"no", "budget", "machine"}]
  /\ check \in [at: {"idle", "sampling", "machine", "closing"}, seen: SUBSET Executions,
                live: Seq(Executions), gone: SUBSET Executions]
  /\ at \in [Executions -> Places]
  /\ reserves \in [Executions -> Nat]
  /\ exit \in [Executions -> {"none", "ok", "bad", "aborted", "cap"}]
  /\ merging \subseteq Executions /\ lows \in 0..MaxLows

Nothing == [c \in Executions |-> 0]

Init ==
  /\ queue = <<>> /\ waited = Nothing
  /\ holders = {} /\ reserved = 0 /\ alone = FALSE
  /\ pass = Over
  /\ watched = <<>> /\ usage = Nothing /\ measured = Nothing /\ peak = Nothing
  /\ stopped = [c \in Executions |-> "no"]
  /\ check = Idle
  /\ at = [c \in Executions |-> "idle"]
  /\ reserves = Nothing
  /\ exit = [c \in Executions |-> "none"]
  /\ merging = {} /\ lows = 0

-----------------------------------------------------------------------------

Larger(a, b) == IF a >= b THEN a ELSE b
Elements(s) == {s[i] : i \in DOMAIN s}
Shut(s, i) == [j \in 1..(Len(s) - 1) |-> IF j < i THEN s[j] ELSE s[j + 1]]
Without(s, c) == IF c \in Elements(s) THEN Shut(s, CHOOSE i \in DOMAIN s : s[i] = c) ELSE s

RunsAlone(c) == reserves[c] > Memory
Size(c) == IF RunsAlone(c) THEN Memory ELSE reserves[c]
Used == MapThenSumSet(LAMBDA c : Larger(Size(c), usage[c]), holders)

Free == pass.next = 0
Full == alone \/ Cardinality(holders) >= Cores

\* Mutant of Fits: a request runs beside one of more than the budget.
FitsBeside(c) ==
  /\ Cardinality(holders) < Cores
  /\ IF RunsAlone(c) THEN holders = {} ELSE Used + reserves[c] <= Memory

Fits(c) ==
  /\ ~Full
  /\ IF RunsAlone(c) THEN holders = {} ELSE Used + reserves[c] <= Memory

-----------------------------------------------------------------------------
(* grantNext. *)

Take ==
  LET c == queue[pass.next]
  IN /\ pass.next \in 1..Len(queue) /\ Fits(c)
     /\ queue' = Shut(queue, pass.next) /\ waited' = [waited EXCEPT ![c] = 0]
     /\ holders' = holders \union {c}
     /\ reserved' = reserved + Size(c)
     /\ alone' = (alone \/ RunsAlone(c))
     /\ at' = [at EXCEPT ![c] = "granted"]
     /\ UNCHANGED <<pass, watching, check, reserves, exit, merging, lows>>

\* Mutant of HoldsLine: a request that does not fit lets all pass.
NeverHoldsLine(c) == FALSE

\* The first that does not fit, once it has waited the time.
HoldsLine(c) == ~pass.blocked /\ waited[c] >= Bypass

PassBy ==
  LET c == queue[pass.next]
  IN /\ pass.next \in 1..Len(queue) /\ ~Fits(c) /\ ~Full /\ ~HoldsLine(c)
     /\ pass' = [next |-> pass.next + 1, blocked |-> TRUE]
     /\ UNCHANGED <<queued, granted, watching, check, executing, lows>>

EndPass ==
  /\ pass.next > 0
  /\ pass.next <= Len(queue) => LET c == queue[pass.next] IN ~Fits(c) /\ (Full \/ HoldsLine(c))
  /\ pass' = Over
  /\ UNCHANGED <<queued, granted, watching, check, executing, lows>>

GrantNext == Take \/ PassBy \/ EndPass

-----------------------------------------------------------------------------
(* An execution and its attempts. *)

Acquire(c, bytes) ==
  /\ queue' = Append(queue, c)
  /\ reserves' = [reserves EXCEPT ![c] = bytes]
  /\ at' = [at EXCEPT ![c] = "waiting"]
  /\ pass' = Begun
  /\ UNCHANGED <<waited, granted, watching, check, exit, merging, lows>>

Ask(c) == Free /\ at[c] = "idle" /\ \E bytes \in Asks[c] : Acquire(c, bytes)

\* Aborted while it waits.
Withdraw(c) ==
  /\ Free /\ at[c] = "waiting"
  /\ \E i \in 1..Len(queue) : queue[i] = c /\ queue' = Shut(queue, i)
  /\ waited' = [waited EXCEPT ![c] = 0]
  /\ at' = [at EXCEPT ![c] = "idle"] /\ reserves' = [reserves EXCEPT ![c] = 0]
  /\ pass' = Begun
  /\ UNCHANGED <<granted, watching, check, exit, merging, lows>>

\* A runner the check has in its list is its grant's latest.
Watch(c) ==
  /\ Free /\ at[c] = "granted"
  /\ at' = [at EXCEPT ![c] = "running"]
  /\ watched' = Append(watched, c) /\ usage' = [usage EXCEPT ![c] = 0]
  /\ check' = IF c \in Elements(check.live) \ check.gone
              THEN [check EXCEPT !.live = Append(Without(@, c), c)] ELSE check
  /\ UNCHANGED <<queued, granted, pass, measured, stopped, peak, reserves, exit, merging, lows>>

\* Aborted before its runner starts, or the runner does not start.
Fail(c) ==
  /\ Free /\ at[c] = "granted"
  /\ at' = [at EXCEPT ![c] = "done"] /\ merging' = merging \ {c}
  /\ UNCHANGED <<queued, granted, pass, watching, check, reserves, exit, lows>>

\* Half as much again.
Cap(bytes) == bytes + Larger((bytes + 1) \div 2, CapFloor)

\* By itself, or stopped by the guard, an abort, or the cap of its cgroup.
Exit(c, how) ==
  /\ Free /\ at[c] = "running"
  /\ how = "cap" => Kind[c] = "unit" /\ reserves[c] > 0
                   /\ \E bytes \in Uses[c] : bytes >= Cap(reserves[c])
  /\ at' = [at EXCEPT ![c] = "exited"]
  /\ exit' = [exit EXCEPT ![c] = how]
  /\ UNCHANGED <<queued, granted, pass, watching, check, reserves, merging, lows>>

RunsAgain(c) ==
  \/ exit[c] \in {"bad", "cap"} /\ stopped[c] # "no" /\ Kind[c] = "unit"
     /\ ~(stopped[c] = "machine" /\ RunsAlone(c))
  \/ exit[c] = "cap" /\ stopped[c] = "no"

\* A unit that ended well may have a merge to run under its grant.
After(c) ==
  IF RunsAgain(c) THEN {"retry"}
  ELSE IF exit[c] = "ok" /\ c \notin merging THEN {"done", "granted"} ELSE {"done"}

Unwatch(c) ==
  /\ Free /\ at[c] = "exited" /\ Kind[c] # "call"
  /\ watched' = Without(watched, c) /\ usage' = [usage EXCEPT ![c] = 0]
  /\ check' = [check EXCEPT !.seen = @ \ {c}]
  /\ \E place \in After(c) :
       /\ at' = [at EXCEPT ![c] = place]
       /\ merging' = IF place = "granted" THEN merging \union {c} ELSE merging \ {c}
  /\ exit' = [exit EXCEPT ![c] = "none"]
  /\ pass' = Begun
  /\ UNCHANGED <<queued, granted, measured, stopped, peak, reserves, lows>>

\* The grant is let go, and its measurements with it.
LetGo(c) ==
  /\ holders' = holders \ {c} /\ reserved' = reserved - Size(c)
  /\ watched' = Without(watched, c)
  /\ usage' = [usage EXCEPT ![c] = 0] /\ measured' = [measured EXCEPT ![c] = 0]
  /\ stopped' = [stopped EXCEPT ![c] = "no"] /\ peak' = [peak EXCEPT ![c] = 0]
  /\ check' = [check EXCEPT !.seen = @ \ {c}, !.gone = @ \union ({c} \intersect Elements(check.live))]
  /\ exit' = [exit EXCEPT ![c] = "none"]
  /\ pass' = Begun

\* Mutant of Reached: it runs again with what it asked for.
ReachedAsAsked(c) == reserves[c]

\* What an attempt stopped runs again with: what it reached, or its cap.
Reached(c) == IF stopped[c] # "no" THEN Larger(reserves[c], peak[c]) ELSE Cap(reserves[c])

\* A detached call does not unwatch its runner.
Ended(c) == at[c] \in {"done", "retry"} \/ (at[c] = "exited" /\ Kind[c] = "call")

Release(c) ==
  /\ Free /\ Ended(c) /\ LetGo(c)
  /\ alone' = (alone /\ ~RunsAlone(c))
  /\ at' = [at EXCEPT ![c] = IF at[c] = "retry" THEN "again" ELSE "idle"]
  /\ reserves' = [reserves EXCEPT ![c] = IF at[c] = "retry" THEN Reached(c) ELSE 0]
  /\ UNCHANGED <<queued, merging, lows>>

Again(c) == Free /\ at[c] = "again" /\ Acquire(c, reserves[c])

-----------------------------------------------------------------------------
(* The guard. *)

CheckStart ==
  /\ Free /\ check.at = "idle" /\ watched # <<>>
  /\ check' = [Idle EXCEPT !.at = "sampling", !.seen = {c \in Elements(watched) : at[c] = "running"}]
  /\ UNCHANGED <<queued, granted, pass, watching, executing, lows>>

CheckFails ==
  /\ Free /\ check.at = "sampling"
  /\ check' = Idle
  /\ UNCHANGED <<queued, granted, pass, watching, executing, lows>>

\* The last of a list that is one of some.
Newest(list, some) ==
  {list[i] : i \in {j \in DOMAIN list : list[j] \in some /\ \A k \in DOMAIN list : k > j => list[k] \notin some}}

Units == {c \in Executions : Kind[c] = "unit"}

Stop(targets, why) ==
  /\ stopped' = [c \in Executions |-> IF c \in targets THEN why ELSE stopped[c]]
  /\ peak' = [c \in Executions |-> IF c \in targets THEN measured'[c] ELSE peak[c]]

\* What each runner was found using, as it may be.
Samples == {sample \in [check.seen -> UNION {Uses[c] : c \in Executions}] : \A c \in check.seen : sample[c] \in Uses[c]}

Measure(sample) ==
  /\ usage' = [c \in Executions |-> IF c \in check.seen THEN sample[c] ELSE usage[c]]
  /\ measured' = [c \in Executions |-> IF c \in check.seen THEN Larger(measured[c], sample[c])
                                        ELSE measured[c]]
  /\ UNCHANGED watched

InUse == MapThenSumSet(LAMBDA c : usage'[c], Elements(watched))
PastBudget ==
  IF InUse > Memory THEN Newest(watched, {c \in Units : ~RunsAlone(c)}) ELSE {}

\* Mutant of StopUnderWay: the guard does not wait for what it stopped.
NoStopUnderWay == FALSE

StopUnderWay == \E c \in holders : stopped[c] # "no"

\* What was measured is applied, and past the budget the newest unit stopped;
\* else the machine is read.
CheckApply ==
  /\ Free /\ check.at = "sampling"
  /\ \E sample \in Samples : Measure(sample)
  /\ \/ /\ StopUnderWay
        /\ check' = Idle /\ pass' = Begun
        /\ UNCHANGED <<stopped, peak>>
     \/ /\ ~StopUnderWay
        /\ Stop(PastBudget, "budget")
        /\ check' = IF PastBudget # {} THEN [Idle EXCEPT !.at = "closing"]
                    ELSE [Idle EXCEPT !.at = "machine", !.live = watched]
        /\ UNCHANGED pass
  /\ UNCHANGED <<queued, granted, executing, lows>>

NearlyOut ==
  IF Newest(check.live, Units) # {} THEN Newest(check.live, Units)
  ELSE Newest(check.live, Executions)

\* The target may have gone while the machine was read: then nothing is stopped.
CheckMachine ==
  /\ Free /\ check.at = "machine"
  /\ UNCHANGED <<queued, granted, pass, watched, usage, measured, executing>>
  /\ \/ /\ UNCHANGED <<stopped, peak, lows>>
     \/ /\ lows < MaxLows /\ lows' = lows + 1
        /\ Stop((NearlyOut \intersect Elements(watched)) \ check.gone, "machine")
  /\ check' = [Idle EXCEPT !.at = "closing"]

CheckClose ==
  /\ Free /\ check.at = "closing"
  /\ check' = Idle /\ pass' = Begun
  /\ UNCHANGED <<queued, granted, watching, executing, lows>>

Check == CheckStart \/ CheckFails \/ CheckApply \/ CheckMachine \/ CheckClose

-----------------------------------------------------------------------------

Longer(time) == IF time < Bypass THEN time + 1 ELSE time

Tick ==
  /\ Free /\ \E c \in Elements(queue) : waited[c] < Bypass
  /\ waited' = [c \in Executions |-> IF c \in Elements(queue) THEN Longer(waited[c]) ELSE waited[c]]
  /\ UNCHANGED <<queue, granted, pass, watching, check, executing, lows>>

Proceed(c) ==
  \/ Watch(c) \/ Fail(c) \/ Unwatch(c) \/ Release(c) \/ Again(c)
  \/ \E how \in {"ok", "bad", "aborted", "cap"} : Exit(c, how)

Next ==
  \/ GrantNext \/ Check \/ Tick
  \/ \E c \in Executions : Ask(c) \/ Withdraw(c) \/ Proceed(c)

\* A pass does not wait, and a runner ends: it is bounded, or its user waits
\* for it. What an execution does is held up by passes only, which are over at
\* once. Nothing makes an execution begin, or the guard measure.
Fairness ==
  /\ WF_vars(GrantNext)
  /\ SF_vars(\E c \in Executions : Proceed(c))

Spec == Init /\ [][Next]_vars
FairSpec == Spec /\ Fairness

-----------------------------------------------------------------------------

\* No more runners than cores, and one of more than the budget has nothing
\* beside it (budget.ts: "it starts once nothing else holds the budget, and
\* nothing starts beside it").
Sole ==
  /\ Cardinality(holders) <= Cores
  /\ alone <=> \E c \in holders : RunsAlone(c)
  /\ alone => Cardinality(holders) = 1

\* What the holders reserve adds up to what the budget counts, and fits it,
\* whatever was granted, stopped, withdrawn and asked again.
Capacity ==
  /\ Sole
  /\ reserved = MapThenSumSet(Size, holders) /\ reserved <= Memory

\* The guard stops one runner at a time: the next only once the stopped one's
\* grant is let go, though it reads the machine in between.
OneAtATime == \A c, d \in holders : stopped[c] # "no" /\ stopped[d] # "no" => c = d

\* A request that has waited the bypass time is passed by none that came after
\* it, whichever of those before it fit, ended or were withdrawn (budget.ts: "so
\* a stream of small units never starves a large one").
NotPassed ==
  [][\A i, j \in 1..Len(queue) :
       i < j /\ queue[j] \in holders' \ holders => waited[queue[i]] < Bypass]_vars

\* Once nothing more is asked for, every execution ends, those the guard
\* stopped and ran again too: the budget drains to nothing.
Drains ==
  <>[][\A c \in Executions : ~(at[c] = "idle" /\ at'[c] # "idle")]_vars
    => <>[](\A c \in Executions : at[c] = "idle")

=============================================================================
