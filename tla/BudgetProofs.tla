------------------------------ MODULE BudgetProofs ------------------------------
(***************************************************************************)
(* Proofs, for any executions, budget and times, that the budget keeps its *)
(* types, that what is granted is what it counts and fits it, that one of  *)
(* more than the budget has nothing beside it, that the guard stops one at *)
(* a time, and that a request is not passed for ever.                      *)
(***************************************************************************)
EXTENDS Budget, Induction, SequenceTheorems, FiniteSetTheorems, TLAPS

-----------------------------------------------------------------------------
(* Sequences                                                               *)

Distinct(s) == \A i, j \in 1..Len(s) : s[i] = s[j] => i = j

LEMMA ElementsOf ==
  ASSUME NEW s \in Seq(Executions)
  PROVE  /\ Elements(s) = {s[i] : i \in 1..Len(s)} /\ DOMAIN s = 1..Len(s)
         /\ Elements(s) \subseteq Executions
         /\ \A i \in 1..Len(s) : s[i] \in Executions
         /\ Len(s) \in Nat
BY DEF Elements

LEMMA Shutting ==
  ASSUME NEW s \in Seq(Executions), NEW i \in 1..Len(s)
  PROVE  /\ Shut(s, i) \in Seq(Executions) /\ Len(Shut(s, i)) = Len(s) - 1
         /\ \A j \in 1..(Len(s) - 1) : Shut(s, i)[j] = IF j < i THEN s[j] ELSE s[j + 1]
<1> DEFINE n == Len(s) - 1
<1>1. n \in Nat
  OBVIOUS
<1>2. Shut(s, i) \in [1..n -> Executions]
  BY <1>1, ElementsOf DEF Shut
<1>3. Shut(s, i) \in Seq(Executions)
  BY <1>1, <1>2, SeqDef
<1>4. Len(Shut(s, i)) = n
  BY <1>1, <1>2, <1>3, LenProperties DEF Shut
<1> QED BY <1>3, <1>4 DEF Shut

LEMMA ShuttingElements ==
  ASSUME NEW s \in Seq(Executions), NEW i \in 1..Len(s), Distinct(s)
  PROVE  Distinct(Shut(s, i)) /\ Elements(Shut(s, i)) = Elements(s) \ {s[i]}
<1> DEFINE t == Shut(s, i)
           From(j) == IF j < i THEN j ELSE j + 1
<1>1. t \in Seq(Executions) /\ Len(t) = Len(s) - 1 /\ Len(s) \in Nat
      /\ \A j \in 1..Len(t) : From(j) \in 1..Len(s) /\ From(j) # i /\ t[j] = s[From(j)]
  <2>1. t \in Seq(Executions) /\ Len(t) = Len(s) - 1 /\ Len(s) \in Nat
        /\ \A j \in 1..(Len(s) - 1) : t[j] = IF j < i THEN s[j] ELSE s[j + 1]
    BY Shutting, ElementsOf
  <2> HIDE DEF t
  <2> QED BY <2>1
<1>2. \A j, k \in 1..Len(t) : From(j) = From(k) => j = k
  BY <1>1
<1>3. Distinct(t)
  BY <1>1, <1>2 DEF Distinct
<1>4. Elements(t) = {t[j] : j \in 1..Len(t)} /\ Elements(s) = {s[j] : j \in 1..Len(s)}
  BY <1>1, ElementsOf
<1>5. ASSUME NEW j \in 1..Len(s), j # i
      PROVE  \E k \in 1..Len(t) : t[k] = s[j]
  <2>1. CASE j < i
    BY <1>1, <2>1
  <2>2. CASE j > i
    BY <1>1, <1>5, <2>2, j - 1 \in 1..Len(t), From(j - 1) = j
  <2> QED BY <1>5, <2>1, <2>2
<1>6. \A j \in 1..Len(t) : t[j] # s[i]
  BY <1>1 DEF Distinct
<1>7. Elements(t) = Elements(s) \ {s[i]}
  <2> HIDE DEF t, From
  <2>1. \A c \in Elements(t) : c \in Elements(s) /\ c # s[i]
    BY <1>1, <1>4, <1>6
  <2>2. \A c \in Elements(s) \ {s[i]} : c \in Elements(t)
    BY <1>4, <1>5
  <2> QED BY <2>1, <2>2
<1> QED BY <1>3, <1>7

LEMMA Leaving ==
  ASSUME NEW s \in Seq(Executions), NEW c
  PROVE  /\ Without(s, c) \in Seq(Executions)
         /\ Distinct(s) => Distinct(Without(s, c)) /\ Elements(Without(s, c)) = Elements(s) \ {c}
<1>1. CASE c \in Elements(s)
  <2> DEFINE i == CHOOSE i \in DOMAIN s : s[i] = c
  <2>1. i \in 1..Len(s) /\ s[i] = c
    BY <1>1, ElementsOf DEF Elements
  <2>2. Without(s, c) = Shut(s, i)
    BY <1>1 DEF Without
  <2> HIDE DEF i
  <2> QED BY <2>1, <2>2, Shutting, ShuttingElements
<1>2. CASE c \notin Elements(s)
  BY <1>2 DEF Without
<1> QED BY <1>1, <1>2

LEMMA Joining ==
  ASSUME NEW s \in Seq(Executions), NEW c \in Executions
  PROVE  /\ Append(s, c) \in Seq(Executions) /\ Len(Append(s, c)) = Len(s) + 1
         /\ \A i \in 1..Len(s) : Append(s, c)[i] = s[i]
         /\ Append(s, c)[Len(s) + 1] = c
         /\ Elements(Append(s, c)) = Elements(s) \union {c}
         /\ Distinct(s) /\ c \notin Elements(s) => Distinct(Append(s, c))
<1> DEFINE t == Append(s, c)
<1>1. t \in Seq(Executions) /\ Len(t) = Len(s) + 1 /\ Len(s) \in Nat
      /\ (\A i \in 1..Len(s) : t[i] = s[i]) /\ t[Len(s) + 1] = c
  BY AppendProperties, ElementsOf
<1>2. Elements(t) = {t[j] : j \in 1..Len(t)} /\ Elements(s) = {s[j] : j \in 1..Len(s)}
  BY <1>1, ElementsOf
<1> HIDE DEF t
<1>3. Elements(t) = Elements(s) \union {c}
  BY <1>1, <1>2
<1>4. Distinct(s) /\ c \notin Elements(s) => Distinct(t)
  BY <1>1, <1>2 DEF Distinct
<1> QED BY <1>1, <1>3, <1>4 DEF t

-----------------------------------------------------------------------------
(* Types                                                                   *)

LEMMA Numbers ==
  /\ IsFiniteSet(Executions)
  /\ Asks \in [Executions -> SUBSET Nat] /\ Uses \in [Executions -> SUBSET Nat]
  /\ Cores \in Nat \ {0} /\ Memory \in Nat \ {0}
  /\ Bypass \in Nat /\ CapFloor \in Nat \ {0} /\ MaxLows \in Nat
BY BudgetAssumption DEF BudgetAssumption

LEMMA LargerNat ==
  ASSUME NEW a \in Nat, NEW b \in Nat
  PROVE  Larger(a, b) \in Nat
BY DEF Larger

LEMMA CapNat ==
  ASSUME NEW a \in Nat
  PROVE  Cap(a) \in Nat
<1>1. (a + 1) \div 2 \in Nat
  OBVIOUS
<1> QED BY <1>1, Numbers, LargerNat DEF Cap

LEMMA SizeNat ==
  ASSUME NEW c \in Executions, reserves \in [Executions -> Nat]
  PROVE  Size(c) \in Nat
BY Numbers DEF Size

LEMMA NewestIn ==
  ASSUME NEW s \in Seq(Executions), NEW some
  PROVE  /\ Newest(s, some) \subseteq Elements(s)
         /\ \A c, d \in Newest(s, some) : c = d
<1>1. DOMAIN s = 1..Len(s) /\ Len(s) \in Nat
  BY ElementsOf
<1>2. Newest(s, some) \subseteq Elements(s)
  BY DEF Newest, Elements
<1>3. ASSUME NEW c \in Newest(s, some), NEW d \in Newest(s, some)
      PROVE  c = d
  <2>1. PICK i \in 1..Len(s) : c = s[i] /\ s[i] \in some /\ \A k \in 1..Len(s) : k > i => s[k] \notin some
    BY <1>1, <1>3 DEF Newest
  <2>2. PICK j \in 1..Len(s) : d = s[j] /\ s[j] \in some /\ \A k \in 1..Len(s) : k > j => s[k] \notin some
    BY <1>1, <1>3 DEF Newest
  <2> QED BY <1>1, <2>1, <2>2
<1> QED BY <1>2, <1>3

LEMMA InitTyped == Init => TypeOK
<1> SUFFICES ASSUME Init PROVE TypeOK
  OBVIOUS
<1>1. <<>> \in Seq(Executions)
  BY EmptySeq
<1>2. Nothing \in [Executions -> Nat] /\ Nothing \in [Executions -> 0..Bypass] /\ 0 \in 0..MaxLows
  BY Numbers DEF Nothing
<1>3. /\ stopped \in [Executions -> {"no", "budget", "machine"}]
      /\ at \in [Executions -> Places] /\ exit \in [Executions -> {"none", "ok", "bad", "aborted", "cap"}]
  BY DEF Init, Places
<1>4. check \in [at: {"idle", "sampling", "machine", "closing"}, seen: SUBSET Executions,
                live: Seq(Executions), gone: SUBSET Executions]
  BY <1>1 DEF Init, Idle
<1>5. pass \in [next: Nat, blocked: BOOLEAN]
  BY DEF Init, Over
<1>6. reserved \in Int /\ alone \in BOOLEAN /\ lows \in 0..MaxLows
  <2>1. alone \in BOOLEAN
    BY DEF Init
  <2>2. reserved = 0 /\ lows = 0
    BY DEF Init
  <2> QED BY <1>2, <2>1, <2>2
<1>7. holders \subseteq Executions /\ merging \subseteq Executions
  BY DEF Init
<1>8. /\ waited \in [Executions -> 0..Bypass] /\ usage \in [Executions -> Nat]
      /\ measured \in [Executions -> Nat] /\ peak \in [Executions -> Nat] /\ reserves \in [Executions -> Nat]
      /\ queue \in Seq(Executions) /\ watched \in Seq(Executions)
  BY <1>1, <1>2 DEF Init
<1> QED BY <1>3, <1>4, <1>5, <1>6, <1>7, <1>8 DEF TypeOK

LEMMA GrantTyped == TypeOK /\ GrantNext => TypeOK'
<1> SUFFICES ASSUME TypeOK, GrantNext PROVE TypeOK'
  OBVIOUS
<1> USE Numbers
<1>1. CASE Take
  <2> DEFINE c == queue[pass.next]
  <2>1. pass.next \in 1..Len(queue) /\ c \in Executions
    BY <1>1, ElementsOf DEF Take, TypeOK
  <2>2. queue' \in Seq(Executions)
    BY <1>1, <2>1, Shutting DEF Take, TypeOK
  <2>3. Size(c) \in Nat
    BY <2>1, SizeNat DEF TypeOK
  <2>7. waited' \in [Executions -> 0..Bypass]
    BY <1>1, <2>1, 0 \in 0..Bypass DEF Take, TypeOK
  <2>8. reserved' = reserved + Size(c) /\ holders' = holders \union {c}
    BY <1>1 DEF Take
  <2>4. reserved' \in Int /\ holders' \subseteq Executions
    <3> HIDE DEF c
    <3>1. reserved \in Int /\ holders \subseteq Executions
      BY DEF TypeOK
    <3> QED BY <2>1, <2>3, <2>8, <3>1
  <2>5. alone' \in BOOLEAN
    BY <1>1 DEF Take
  <2>6. at' \in [Executions -> Places]
    BY <1>1, <2>1 DEF Take, TypeOK, Places
  <2> HIDE DEF c
  <2> QED BY <1>1, <2>2, <2>4, <2>5, <2>6, <2>7 DEF Take, TypeOK, watching
<1>2. CASE PassBy
  <2>1. pass' \in [next : Nat, blocked : BOOLEAN]
    <3>1. pass' = [next |-> pass.next + 1, blocked |-> TRUE]
      BY <1>2 DEF PassBy
    <3> QED BY <3>1 DEF TypeOK
  <2> QED BY <1>2, <2>1 DEF PassBy, TypeOK, queued, granted, watching, executing
<1>3. CASE EndPass
  BY <1>3 DEF EndPass, TypeOK, queued, granted, watching, executing, Over
<1> QED BY <1>1, <1>2, <1>3 DEF GrantNext

LEMMA AcquireTyped ==
  ASSUME TypeOK, NEW c \in Executions, NEW bytes \in Nat, Acquire(c, bytes)
  PROVE  TypeOK'
<1>1. queue' \in Seq(Executions)
  BY Joining DEF Acquire, TypeOK
<1>2. pass' \in [next : Nat, blocked : BOOLEAN]
  BY DEF Acquire, Begun
<1>3. at' \in [Executions -> Places] /\ reserves' \in [Executions -> Nat]
  BY DEF Acquire, TypeOK, Places
<1> QED BY <1>1, <1>2, <1>3 DEF Acquire, TypeOK, granted, watching

\* What a check says of its list may shrink, and its list be put in order.
LEMMA CheckTyped ==
  ASSUME TypeOK, NEW live \in Seq(Executions), NEW seen \in SUBSET Executions,
         NEW gone \in SUBSET Executions
  PROVE  /\ [check EXCEPT !.live = live] \in [at: {"idle", "sampling", "machine", "closing"},
              seen: SUBSET Executions, live: Seq(Executions), gone: SUBSET Executions]
         /\ [check EXCEPT !.seen = seen, !.gone = gone] \in [at: {"idle", "sampling", "machine", "closing"},
              seen: SUBSET Executions, live: Seq(Executions), gone: SUBSET Executions]
         /\ [check EXCEPT !.seen = seen] \in [at: {"idle", "sampling", "machine", "closing"},
              seen: SUBSET Executions, live: Seq(Executions), gone: SUBSET Executions]
BY DEF TypeOK

LEMMA LetGoTyped ==
  ASSUME TypeOK, NEW c \in Executions, LetGo(c)
  PROVE  /\ holders' \subseteq Executions /\ reserved' \in Int
         /\ watched' \in Seq(Executions) /\ usage' \in [Executions -> Nat]
         /\ measured' \in [Executions -> Nat] /\ peak' \in [Executions -> Nat]
         /\ stopped' \in [Executions -> {"no", "budget", "machine"}]
         /\ check' \in [at: {"idle", "sampling", "machine", "closing"}, seen: SUBSET Executions,
                        live: Seq(Executions), gone: SUBSET Executions]
         /\ exit' \in [Executions -> {"none", "ok", "bad", "aborted", "cap"}]
         /\ pass' \in [next: Nat, blocked: BOOLEAN]
<1>1. Size(c) \in Nat
  BY SizeNat DEF TypeOK
<1>2. watched' \in Seq(Executions)
  BY Leaving DEF LetGo, TypeOK
<1>3. check' = [check EXCEPT !.seen = check.seen \ {c},
                  !.gone = check.gone \union ({c} \intersect Elements(check.live))]
  BY DEF LetGo
<1>4. check.seen \ {c} \in SUBSET Executions
      /\ check.gone \union ({c} \intersect Elements(check.live)) \in SUBSET Executions
      /\ check.live \in Seq(Executions)
  BY DEF TypeOK
<1>5. check' \in [at: {"idle", "sampling", "machine", "closing"}, seen: SUBSET Executions,
                  live: Seq(Executions), gone: SUBSET Executions]
  BY <1>3, <1>4, CheckTyped
<1>6. usage' \in [Executions -> Nat] /\ measured' \in [Executions -> Nat] /\ peak' \in [Executions -> Nat]
  BY DEF LetGo, TypeOK
<1>7. /\ stopped' \in [Executions -> {"no", "budget", "machine"}]
      /\ exit' \in [Executions -> {"none", "ok", "bad", "aborted", "cap"}]
  BY DEF LetGo, TypeOK
<1>8. pass' \in [next: Nat, blocked: BOOLEAN]
  BY DEF LetGo, Begun
<1>9. holders' \subseteq Executions /\ reserved' \in Int
  BY <1>1 DEF LetGo, TypeOK
<1> QED BY <1>2, <1>5, <1>6, <1>7, <1>8, <1>9

LEMMA ExecutionTyped ==
  ASSUME TypeOK, NEW c \in Executions, Ask(c) \/ Withdraw(c) \/ Proceed(c)
  PROVE  TypeOK'
<1> USE Numbers
<1>1. CASE Ask(c)
  <2>1. PICK bytes \in Asks[c] : Acquire(c, bytes)
    BY <1>1 DEF Ask
  <2> QED BY <2>1, AcquireTyped
<1>2. CASE Withdraw(c)
  <2>1. queue' \in Seq(Executions)
    BY <1>2, Shutting DEF Withdraw, TypeOK
  <2>2. at' \in [Executions -> Places] /\ waited' \in [Executions -> 0..Bypass] /\ reserves' \in [Executions -> Nat]
    BY <1>2, 0 \in 0..Bypass DEF Withdraw, TypeOK, Places
  <2> QED BY <1>2, <2>1, <2>2 DEF Withdraw, TypeOK, granted, watching, Begun
<1>3. CASE Watch(c)
  <2>1. watched' \in Seq(Executions)
    BY <1>3, Joining DEF Watch, TypeOK
  <2>2. Append(Without(check.live, c), c) \in Seq(Executions)
    BY Joining, Leaving DEF TypeOK
  <2>3. check' \in [at: {"idle", "sampling", "machine", "closing"}, seen: SUBSET Executions,
                    live: Seq(Executions), gone: SUBSET Executions]
    BY <1>3, <2>2, CheckTyped DEF Watch, TypeOK
  <2>4. at' \in [Executions -> Places] /\ usage' \in [Executions -> Nat]
    BY <1>3 DEF Watch, TypeOK, Places
  <2> QED BY <1>3, <2>1, <2>3, <2>4 DEF Watch, TypeOK, queued, granted
<1>4. CASE Fail(c)
  BY <1>4 DEF Fail, TypeOK, Places, queued, granted, watching
<1>5. CASE Unwatch(c)
  <2>1. watched' \in Seq(Executions)
    BY <1>5, Leaving DEF Unwatch, TypeOK
  <2>2. check' \in [at: {"idle", "sampling", "machine", "closing"}, seen: SUBSET Executions,
                    live: Seq(Executions), gone: SUBSET Executions]
    BY <1>5 DEF Unwatch, TypeOK
  <2>3. PICK place \in After(c) :
          /\ at' = [at EXCEPT ![c] = place]
          /\ merging' = IF place = "granted" THEN merging \union {c} ELSE merging \ {c}
    BY <1>5 DEF Unwatch
  <2>4. place \in Places
    BY <2>3 DEF After, Places
  <2>5. at' \in [Executions -> Places] /\ merging' \subseteq Executions
    BY <2>3, <2>4 DEF TypeOK
  <2> QED BY <1>5, <2>1, <2>2, <2>5 DEF Unwatch, TypeOK, queued, granted, Begun
<1>6. CASE Release(c)
  <2>1. LetGo(c)
    BY <1>6 DEF Release
  <2>2. Reached(c) \in Nat
    BY LargerNat, CapNat DEF Reached, TypeOK
  <2>3. at' \in [Executions -> Places] /\ reserves' \in [Executions -> Nat]
    BY <1>6, <2>2 DEF Release, TypeOK, Places
  <2>4. alone' \in BOOLEAN
    BY <1>6 DEF Release
  <2> QED BY <1>6, <2>1, <2>3, <2>4, LetGoTyped DEF Release, TypeOK, queued
<1>7. CASE Again(c)
  BY <1>7, AcquireTyped DEF Again, TypeOK
<1>8. CASE \E how \in {"ok", "bad", "aborted", "cap"} : Exit(c, how)
  <2>1. PICK how \in {"ok", "bad", "aborted", "cap"} : Exit(c, how)
    BY <1>8
  <2>2. at' \in [Executions -> Places] /\ exit' \in [Executions -> {"none", "ok", "bad", "aborted", "cap"}]
    BY <2>1 DEF Exit, TypeOK, Places
  <2> QED BY <2>1, <2>2 DEF Exit, TypeOK, queued, granted, watching
<1> QED BY <1>1, <1>2, <1>3, <1>4, <1>5, <1>6, <1>7, <1>8 DEF Proceed

LEMMA MeasureTyped ==
  ASSUME TypeOK, NEW sample \in Samples, Measure(sample)
  PROVE  usage' \in [Executions -> Nat] /\ measured' \in [Executions -> Nat] /\ watched' = watched
<1>1. \A c \in check.seen : c \in Executions /\ sample[c] \in Nat
  BY Numbers DEF TypeOK, Samples
<1>2. usage' \in [Executions -> Nat]
  BY <1>1 DEF Measure, TypeOK
<1>3. \A c \in check.seen : Larger(measured[c], sample[c]) \in Nat
  BY <1>1, LargerNat DEF TypeOK
<1> QED BY <1>2, <1>3 DEF Measure, TypeOK

LEMMA StopTyped ==
  ASSUME TypeOK, NEW targets, NEW why \in {"budget", "machine"}, Stop(targets, why),
         measured' \in [Executions -> Nat]
  PROVE  /\ stopped' \in [Executions -> {"no", "budget", "machine"}]
         /\ peak' \in [Executions -> Nat]
BY DEF Stop, TypeOK

LEMMA GuardTyped == TypeOK /\ Check => TypeOK'
<1> SUFFICES ASSUME TypeOK, Check PROVE TypeOK'
  OBVIOUS
<1> DEFINE Checks == [at: {"idle", "sampling", "machine", "closing"}, seen: SUBSET Executions,
                      live: Seq(Executions), gone: SUBSET Executions]
<1>1. Idle \in Checks /\ \A place \in {"idle", "sampling", "machine", "closing"} : [Idle EXCEPT !.at = place] \in Checks
  BY EmptySeq DEF Idle
<1>2. CASE CheckStart
  <2>1. Elements(watched) \subseteq Executions
    BY ElementsOf DEF TypeOK
  <2>2. check' \in Checks
    BY <1>1, <1>2, <2>1 DEF CheckStart
  <2> QED BY <1>2, <2>2 DEF CheckStart, TypeOK, queued, granted, watching, executing
<1>3. CASE CheckFails
  BY <1>1, <1>3 DEF CheckFails, TypeOK, queued, granted, watching, executing
<1>4. CASE CheckApply
  <2>1. PICK sample \in Samples : Measure(sample)
    BY <1>4 DEF CheckApply
  <2>2. usage' \in [Executions -> Nat] /\ measured' \in [Executions -> Nat] /\ watched' = watched
    BY <2>1, MeasureTyped
  <2>3. stopped' \in [Executions -> {"no", "budget", "machine"}] /\ peak' \in [Executions -> Nat]
    BY <1>4, <2>2, StopTyped DEF CheckApply, TypeOK
  <2>4. check' \in Checks
    <3>1. \/ check' = Idle
          \/ check' = [Idle EXCEPT !.at = "closing"]
          \/ check' = [Idle EXCEPT !.at = "machine", !.live = watched]
      BY <1>4 DEF CheckApply
    <3>2. [Idle EXCEPT !.at = "machine", !.live = watched] \in Checks
      BY DEF Idle, TypeOK
    <3> QED BY <1>1, <3>1, <3>2
  <2>5. pass' \in [next: Nat, blocked: BOOLEAN]
    <3>1. pass' = pass \/ pass' = Begun
      BY <1>4 DEF CheckApply
    <3>2. pass \in [next: Nat, blocked: BOOLEAN]
      BY DEF TypeOK
    <3>3. Begun \in [next: Nat, blocked: BOOLEAN]
      BY DEF Begun
    <3> QED BY <3>1, <3>2, <3>3
  <2>6. UNCHANGED <<queued, granted, executing, lows>>
    BY <1>4 DEF CheckApply
  <2> QED BY <2>2, <2>3, <2>4, <2>5, <2>6 DEF TypeOK, queued, granted, executing
<1>5. CASE CheckMachine
  <2>1. measured' \in [Executions -> Nat]
    BY <1>5 DEF CheckMachine, TypeOK
  <2>2. /\ stopped' \in [Executions -> {"no", "budget", "machine"}] /\ peak' \in [Executions -> Nat]
        /\ lows' \in 0..MaxLows
    <3>1. CASE UNCHANGED <<stopped, peak, lows>>
      BY <3>1 DEF TypeOK
    <3>2. CASE /\ lows < MaxLows /\ lows' = lows + 1
               /\ Stop((NearlyOut \intersect Elements(watched)) \ check.gone, "machine")
      <4>1. stopped' \in [Executions -> {"no", "budget", "machine"}] /\ peak' \in [Executions -> Nat]
        BY <2>1, <3>2, StopTyped
      <4>2. lows \in 0..MaxLows /\ lows \in Nat /\ MaxLows \in Nat
        BY Numbers DEF TypeOK
      <4> QED BY <3>2, <4>1, <4>2
    <3> QED BY <1>5, <3>1, <3>2 DEF CheckMachine
  <2>3. check' \in Checks
    BY <1>1, <1>5 DEF CheckMachine
  <2> QED BY <1>5, <2>2, <2>3 DEF CheckMachine, TypeOK, queued, granted, executing
<1>6. CASE CheckClose
  BY <1>1, <1>6 DEF CheckClose, TypeOK, queued, granted, watching, executing, Begun
<1> QED BY <1>2, <1>3, <1>4, <1>5, <1>6 DEF Check

LEMMA TickTyped == TypeOK /\ Tick => TypeOK'
<1> SUFFICES ASSUME TypeOK, Tick PROVE TypeOK'
  OBVIOUS
<1>1. waited' \in [Executions -> 0..Bypass]
  <2>1. \A c \in Executions : waited[c] \in 0..Bypass /\ Longer(waited[c]) \in 0..Bypass
    BY Numbers DEF TypeOK, Longer
  <2> QED BY <2>1 DEF Tick
<1> QED BY <1>1 DEF Tick, TypeOK, granted, watching, executing

LEMMA StutterTyped == TypeOK /\ UNCHANGED vars => TypeOK'
BY DEF TypeOK, vars, queued, granted, watching, executing

\* What the budget counts, its queue, the guard's marks and every execution's
\* place keep their types.
THEOREM BudgetTypeCorrect == Spec => []TypeOK
<1>1. TypeOK /\ [Next]_vars => TypeOK'
  BY GrantTyped, GuardTyped, TickTyped, ExecutionTyped, StutterTyped DEF Next
<1> QED BY InitTyped, <1>1, PTL DEF Spec

-----------------------------------------------------------------------------
(* Where an execution is                                                   *)

Held == {"granted", "running", "exited", "done", "retry"}
Run == {"running", "exited"}

GrantsHeld == \A c \in Executions : c \in holders <=> at[c] \in Held
WaitersQueued ==
  Distinct(queue) /\ \A c \in Executions : c \in Elements(queue) <=> at[c] = "waiting"
RunnersWatched ==
  Distinct(watched) /\ \A c \in Executions : c \in Elements(watched) <=> at[c] \in Run

Kept == GrantsHeld /\ WaitersQueued /\ RunnersWatched

LEMMA InitKept == Init => Kept
<1> SUFFICES ASSUME Init PROVE Kept
  OBVIOUS
<1>1. Elements(queue) = {} /\ Elements(watched) = {} /\ Len(queue) = 0 /\ Len(watched) = 0
  BY EmptySeq DEF Init, Elements
<1> QED BY <1>1 DEF Init, Kept, GrantsHeld, WaitersQueued, RunnersWatched, Distinct, Held, Run

\* An execution that moves is put in what its place asks, and out of the rest.
LEMMA MoveKept ==
  ASSUME TypeOK, Kept, NEW c \in Executions, NEW place, at' = [at EXCEPT ![c] = place],
         Distinct(queue'), Distinct(watched'),
         \A d \in Executions \ {c} :
           /\ d \in holders' <=> d \in holders
           /\ d \in Elements(queue') <=> d \in Elements(queue)
           /\ d \in Elements(watched') <=> d \in Elements(watched),
         c \in holders' <=> place \in Held,
         c \in Elements(queue') <=> place = "waiting",
         c \in Elements(watched') <=> place \in Run
  PROVE  Kept'
<1>1. at'[c] = place /\ \A d \in Executions \ {c} : at'[d] = at[d]
  BY DEF TypeOK
<1>2. GrantsHeld'
  BY <1>1 DEF Kept, GrantsHeld
<1>3. WaitersQueued'
  BY <1>1 DEF Kept, WaitersQueued
<1>4. RunnersWatched'
  BY <1>1 DEF Kept, RunnersWatched
<1> QED BY <1>2, <1>3, <1>4 DEF Kept

LEMMA SameKept == Kept /\ UNCHANGED <<queue, holders, at, watched>> => Kept'
BY DEF Kept, GrantsHeld, WaitersQueued, RunnersWatched, Elements, Distinct

LEMMA AcquireKept ==
  ASSUME TypeOK, Kept, NEW c \in Executions, NEW bytes, Acquire(c, bytes),
         at[c] \in {"idle", "again"}
  PROVE  Kept'
<1>1. c \notin holders /\ c \notin Elements(queue) /\ c \notin Elements(watched)
  BY DEF Kept, GrantsHeld, WaitersQueued, RunnersWatched, Held, Run
<1>2. Elements(queue') = Elements(queue) \union {c} /\ Distinct(queue')
  BY <1>1, Joining DEF Acquire, Kept, WaitersQueued, TypeOK
<1>3. UNCHANGED <<holders, watched>> /\ at' = [at EXCEPT ![c] = "waiting"]
  BY DEF Acquire, granted, watching
<1>4. Distinct(watched')
  BY <1>3 DEF Kept, RunnersWatched
<1> QED BY <1>1, <1>2, <1>3, <1>4, MoveKept DEF Held, Run

LEMMA TakeKept ==
  ASSUME TypeOK, Kept, Take
  PROVE  Kept'
<1> DEFINE c == queue[pass.next]
<1>1. pass.next \in 1..Len(queue) /\ c \in Executions /\ c \in Elements(queue)
  <2>1. pass.next \in 1..Len(queue) /\ queue \in Seq(Executions)
    BY DEF Take, TypeOK
  <2> QED BY <2>1, ElementsOf
<1>2. at[c] = "waiting" /\ c \notin holders /\ c \notin Elements(watched)
  BY <1>1 DEF Kept, GrantsHeld, WaitersQueued, RunnersWatched, Held, Run
<1>3. Elements(queue') = Elements(queue) \ {c} /\ Distinct(queue')
  BY <1>1, ShuttingElements DEF Take, Kept, WaitersQueued, TypeOK
<1>4. watched' = watched /\ holders' = holders \union {c} /\ at' = [at EXCEPT ![c] = "granted"]
  BY DEF Take, watching
<1>5. Distinct(watched')
  BY <1>4 DEF Kept, RunnersWatched
<1> HIDE DEF c
<1> QED BY <1>1, <1>2, <1>3, <1>4, <1>5, MoveKept DEF Held, Run

LEMMA WithdrawKept ==
  ASSUME TypeOK, Kept, NEW c \in Executions, Withdraw(c)
  PROVE  Kept'
<1>1. c \notin holders /\ c \notin Elements(watched)
  BY DEF Withdraw, Kept, GrantsHeld, RunnersWatched, Held, Run
<1>2. Elements(queue') = Elements(queue) \ {c} /\ Distinct(queue')
  <2>1. PICK i \in 1..Len(queue) : queue[i] = c /\ queue' = Shut(queue, i)
    BY DEF Withdraw
  <2>2. queue \in Seq(Executions) /\ Distinct(queue)
    BY DEF TypeOK, Kept, WaitersQueued
  <2> QED BY <2>1, <2>2, ShuttingElements
<1>3. UNCHANGED <<holders, watched>> /\ at' = [at EXCEPT ![c] = "idle"]
  BY DEF Withdraw, granted, watching
<1>4. Distinct(watched')
  BY <1>3 DEF Kept, RunnersWatched
<1> QED BY <1>1, <1>2, <1>3, <1>4, MoveKept DEF Held, Run

\* A runner's attempt: it is watched, fails before that, or ends.
LEMMA RunnerKept ==
  ASSUME TypeOK, Kept, NEW c \in Executions,
         Watch(c) \/ Fail(c) \/ \E how \in {"ok", "bad", "aborted", "cap"} : Exit(c, how)
  PROVE  Kept'
<1>1. queue' = queue /\ holders' = holders /\ Distinct(queue) /\ Distinct(watched)
  BY DEF Watch, Fail, Exit, queued, granted, Kept, WaitersQueued, RunnersWatched
<1>2. at[c] \in {"granted", "running"}
  BY DEF Watch, Fail, Exit
<1>3. c \in holders /\ c \notin Elements(queue)
      /\ (at[c] = "granted" => c \notin Elements(watched))
      /\ (at[c] = "running" => c \in Elements(watched))
  BY <1>2 DEF Kept, GrantsHeld, WaitersQueued, RunnersWatched, Held, Run
<1>4. CASE Watch(c)
  <2>1. at[c] = "granted" /\ watched' = Append(watched, c) /\ at' = [at EXCEPT ![c] = "running"]
    BY <1>4 DEF Watch
  <2>2. Distinct(watched') /\ Elements(watched') = Elements(watched) \union {c}
    BY <1>1, <1>3, <2>1, Joining DEF TypeOK
  <2> QED BY <1>1, <1>3, <2>1, <2>2, MoveKept DEF Held, Run
<1>5. CASE Fail(c)
  <2>1. at[c] = "granted" /\ watched' = watched /\ at' = [at EXCEPT ![c] = "done"]
    BY <1>5 DEF Fail, watching
  <2> QED BY <1>1, <1>3, <2>1, MoveKept DEF Held, Run
<1>6. CASE \E how \in {"ok", "bad", "aborted", "cap"} : Exit(c, how)
  <2>1. at[c] = "running" /\ watched' = watched /\ at' = [at EXCEPT ![c] = "exited"]
    BY <1>6 DEF Exit, watching
  <2> QED BY <1>1, <1>3, <2>1, MoveKept DEF Held, Run
<1> QED BY <1>4, <1>5, <1>6

LEMMA UnwatchKept ==
  ASSUME TypeOK, Kept, NEW c \in Executions, Unwatch(c)
  PROVE  Kept'
<1>1. PICK place \in After(c) : at' = [at EXCEPT ![c] = place]
  BY DEF Unwatch
<1>2. place \in {"retry", "done", "granted"}
  BY <1>1 DEF After
<1>3. at[c] = "exited" /\ queue' = queue /\ holders' = holders /\ watched' = Without(watched, c)
  BY DEF Unwatch, queued, granted
<1>4. c \in holders /\ c \notin Elements(queue) /\ Distinct(queue) /\ Distinct(watched)
  BY <1>3 DEF Kept, GrantsHeld, WaitersQueued, RunnersWatched, Held
<1>5. Distinct(watched') /\ Elements(watched') = Elements(watched) \ {c}
  BY <1>3, <1>4, Leaving DEF TypeOK
<1> QED BY <1>1, <1>2, <1>3, <1>4, <1>5, MoveKept DEF Held, Run

\* What a release is of, and what it leaves.
LEMMA ReleaseOf ==
  ASSUME TypeOK, Kept, NEW c \in Executions, Release(c)
  PROVE  /\ c \in holders /\ holders' = holders \ {c} /\ queue' = queue
         /\ c \notin Elements(queue)
         /\ Distinct(watched') /\ Elements(watched') = Elements(watched) \ {c}
         /\ at' = [at EXCEPT ![c] = IF at[c] = "retry" THEN "again" ELSE "idle"]
<1>1. at[c] \in {"done", "retry", "exited"} /\ LetGo(c)
  BY DEF Release, Ended
<1>2. c \in holders /\ c \notin Elements(queue) /\ Distinct(watched)
  BY <1>1 DEF Kept, GrantsHeld, WaitersQueued, RunnersWatched, Held
<1>3. watched' = Without(watched, c)
  BY <1>1 DEF LetGo
<1>4. Distinct(watched') /\ Elements(watched') = Elements(watched) \ {c}
  BY <1>2, <1>3, Leaving DEF TypeOK
<1>5. holders' = holders \ {c}
  BY <1>1 DEF LetGo
<1>6. queue' = queue /\ at' = [at EXCEPT ![c] = IF at[c] = "retry" THEN "again" ELSE "idle"]
  BY DEF Release, queued
<1> QED BY <1>2, <1>4, <1>5, <1>6

LEMMA ReleaseKept ==
  ASSUME TypeOK, Kept, NEW c \in Executions, Release(c)
  PROVE  Kept'
<1> DEFINE place == IF at[c] = "retry" THEN "again" ELSE "idle"
<1>1. at' = [at EXCEPT ![c] = place] /\ place \in {"again", "idle"}
  BY ReleaseOf
<1>2. Distinct(queue')
  BY ReleaseOf DEF Kept, WaitersQueued
<1> HIDE DEF place
<1> QED BY <1>1, <1>2, ReleaseOf, MoveKept DEF Held, Run

LEMMA ExecutionKept ==
  ASSUME TypeOK, Kept, NEW c \in Executions, Ask(c) \/ Withdraw(c) \/ Proceed(c)
  PROVE  Kept'
<1>1. CASE Ask(c)
  BY <1>1, AcquireKept DEF Ask
<1>2. CASE Again(c)
  BY <1>2, AcquireKept DEF Again
<1> QED BY <1>1, <1>2, WithdrawKept, RunnerKept, UnwatchKept, ReleaseKept DEF Proceed

LEMMA OthersKept ==
  ASSUME TypeOK, Kept, PassBy \/ EndPass \/ Check \/ Tick \/ UNCHANGED vars
  PROVE  Kept'
<1>1. UNCHANGED <<queue, holders, at, watched>>
  <2>1. CASE PassBy \/ EndPass \/ Tick \/ UNCHANGED vars
    BY <2>1 DEF PassBy, EndPass, Tick, vars, queued, granted, watching, executing
  <2>2. CASE CheckStart \/ CheckFails \/ CheckMachine \/ CheckClose
    BY <2>2 DEF CheckStart, CheckFails, CheckMachine, CheckClose, queued, granted, watching, executing
  <2>3. CASE CheckApply
    <3>1. watched' = watched
      BY <2>3 DEF CheckApply, Measure
    <3>2. UNCHANGED <<queued, granted, executing, lows>>
      BY <2>3 DEF CheckApply
    <3> QED BY <3>1, <3>2 DEF queued, granted, executing
  <2> QED BY <2>1, <2>2, <2>3 DEF Check
<1> QED BY <1>1, SameKept

LEMMA StepKept == TypeOK /\ Kept /\ [Next]_vars => Kept'
BY TakeKept, ExecutionKept, OthersKept DEF Next, GrantNext

-----------------------------------------------------------------------------
(* What holds the budget                                                   *)

LEMMA HoldersCounted ==
  TypeOK => IsFiniteSet(holders) /\ Cardinality(holders) \in Nat
<1> SUFFICES ASSUME TypeOK PROVE IsFiniteSet(holders) /\ Cardinality(holders) \in Nat
  OBVIOUS
<1>1. IsFiniteSet(Executions) /\ holders \in SUBSET Executions
  BY Numbers DEF TypeOK
<1> QED BY <1>1, FS_Subset, FS_CardinalityType

LEMMA InitSole == Init => Sole
<1> SUFFICES ASSUME Init PROVE Sole
  OBVIOUS
<1>1. holders = {} /\ alone = FALSE /\ Cardinality(holders) = 0
  BY FS_EmptySet DEF Init
<1> QED BY <1>1, Numbers DEF Sole

\* Nothing a holder reserves changes while it holds.
LEMMA SameSole ==
  ASSUME Sole, UNCHANGED <<holders, alone>>, \A c \in holders : reserves'[c] = reserves[c]
  PROVE  Sole'
<1>1. \A c \in holders' : RunsAlone(c)' <=> RunsAlone(c)
  BY DEF RunsAlone
<1> QED BY <1>1 DEF Sole

LEMMA TakeSole ==
  ASSUME TypeOK, Sole, Take
  PROVE  Sole'
<1> DEFINE c == queue[pass.next]
<1>1. Fits(c) /\ holders' = holders \union {c} /\ alone' = (alone \/ RunsAlone(c)) /\ reserves' = reserves
  BY DEF Take
<1> HIDE DEF c
<1>2. ~alone /\ ~(Cardinality(holders) >= Cores) /\ (RunsAlone(c) => holders = {})
  BY <1>1 DEF Fits, Full
<1>3. Cardinality(holders') <= Cardinality(holders) + 1 /\ Cardinality(holders) \in Nat
      /\ Cardinality(holders') \in Nat
  <2>1. IsFiniteSet(holders) /\ Cardinality(holders) \in Nat
    BY HoldersCounted
  <2>2. Cardinality(holders') = IF c \in holders THEN Cardinality(holders) ELSE Cardinality(holders) + 1
    BY <1>1, <2>1, FS_AddElement
  <2> QED BY <2>1, <2>2
<1>4. Cardinality(holders') <= Cores
  BY <1>2, <1>3, Numbers
<1>5. \A d \in holders : ~RunsAlone(d)
  BY <1>2 DEF Sole
<1>6. \A d : RunsAlone(d)' <=> RunsAlone(d)
  BY <1>1 DEF RunsAlone
<1>7. alone' <=> \E d \in holders' : RunsAlone(d)'
  BY <1>1, <1>2, <1>5, <1>6
<1>8. alone' => Cardinality(holders') = 1
  <2> SUFFICES ASSUME alone' PROVE Cardinality(holders') = 1
    OBVIOUS
  <2>1. RunsAlone(c)
    BY <1>1, <1>2
  <2>2. holders' = {c}
    BY <1>1, <1>2, <2>1
  <2> QED BY <2>2, FS_Singleton
<1> QED BY <1>4, <1>7, <1>8 DEF Sole

LEMMA ReleaseSole ==
  ASSUME TypeOK, Kept, Sole, NEW c \in Executions, Release(c)
  PROVE  Sole'
<1>1. c \in holders /\ holders' = holders \ {c}
  BY ReleaseOf
<1>2. alone' = (alone /\ ~RunsAlone(c))
  BY DEF Release
<1>3. IsFiniteSet(holders) /\ Cardinality(holders) \in Nat /\ Cardinality(holders') = Cardinality(holders) - 1
  BY <1>1, HoldersCounted, FS_RemoveElement
<1>4. Cardinality(holders') <= Cores
  BY <1>3, Numbers DEF Sole
<1>5. \A d \in holders' : RunsAlone(d)' <=> RunsAlone(d)
  <2>1. \A d \in Executions : d # c => reserves'[d] = reserves[d]
    BY DEF Release, TypeOK
  <2> QED BY <1>1, <2>1 DEF RunsAlone, TypeOK
<1>6. CASE alone
  <2>1. holders = {c}
    <3>1. PICK x : holders = {x}
      BY <1>3, <1>6, FS_Singleton DEF Sole
    <3> QED BY <1>1, <3>1
  <2>2. RunsAlone(c) /\ holders' = {}
    BY <1>1, <1>6, <2>1 DEF Sole
  <2> QED BY <1>2, <1>4, <2>2 DEF Sole
<1>7. CASE ~alone
  <2>1. \A d \in holders : ~RunsAlone(d)
    BY <1>7 DEF Sole
  <2>2. \A d \in holders' : ~RunsAlone(d)'
    BY <1>1, <1>5, <2>1
  <2> QED BY <1>2, <1>4, <1>7, <2>2 DEF Sole
<1> QED BY <1>6, <1>7

LEMMA ExecutionSole ==
  ASSUME TypeOK, Kept, Sole, NEW c \in Executions, Ask(c) \/ Withdraw(c) \/ Proceed(c)
  PROVE  Sole'
<1>1. CASE Release(c)
  BY <1>1, ReleaseSole
<1>2. CASE Watch(c) \/ Fail(c) \/ Unwatch(c) \/ \E how \in {"ok", "bad", "aborted", "cap"} : Exit(c, how)
  <2>1. UNCHANGED <<holders, alone, reserves>>
    BY <1>2 DEF Watch, Fail, Unwatch, Exit, granted
  <2> QED BY <2>1, SameSole
<1>3. CASE /\ at[c] \in {"idle", "waiting", "again"} /\ UNCHANGED <<holders, alone>>
           /\ \A d \in Executions : d # c => reserves'[d] = reserves[d]
  <2>1. c \notin holders /\ holders \subseteq Executions
    BY <1>3 DEF Kept, GrantsHeld, Held, TypeOK
  <2>2. \A d \in holders : reserves'[d] = reserves[d]
    BY <1>3, <2>1
  <2> QED BY <1>3, <2>2, SameSole
<1>4. CASE Ask(c)
  <2>1. PICK bytes \in Asks[c] : Acquire(c, bytes)
    BY <1>4 DEF Ask
  <2>2. at[c] = "idle" /\ UNCHANGED <<holders, alone>> /\ reserves' = [reserves EXCEPT ![c] = bytes]
    BY <1>4, <2>1 DEF Ask, Acquire, granted
  <2> QED BY <1>3, <2>2 DEF TypeOK
<1>5. CASE Again(c)
  <2>1. at[c] = "again" /\ UNCHANGED <<holders, alone>> /\ reserves' = [reserves EXCEPT ![c] = reserves[c]]
    BY <1>5 DEF Again, Acquire, granted
  <2> QED BY <1>3, <2>1 DEF TypeOK
<1>6. CASE Withdraw(c)
  <2>1. at[c] = "waiting" /\ UNCHANGED <<holders, alone>> /\ reserves' = [reserves EXCEPT ![c] = 0]
    BY <1>6 DEF Withdraw, granted
  <2> QED BY <1>3, <2>1 DEF TypeOK
<1> QED BY <1>1, <1>2, <1>4, <1>5, <1>6 DEF Proceed

LEMMA OthersSole ==
  ASSUME Sole, PassBy \/ EndPass \/ Check \/ Tick \/ UNCHANGED vars
  PROVE  Sole'
<1>1. UNCHANGED <<granted, executing>>
  BY DEF PassBy, EndPass, Tick, Check, CheckStart, CheckFails, CheckApply, CheckMachine, CheckClose, vars
<1>2. UNCHANGED <<holders, alone, reserves>>
  BY <1>1 DEF granted, executing
<1> QED BY <1>2, SameSole

LEMMA StepSole == TypeOK /\ Kept /\ Sole /\ [Next]_vars => Sole'
BY TakeSole, ExecutionSole, OthersSole DEF Next, GrantNext

-----------------------------------------------------------------------------
(* What the guard has stopped                                              *)

\* While the machine is read nothing is stopped: the guard waited for what was.
Marks ==
  /\ \A c \in Executions : stopped[c] # "no" => c \in holders
  /\ OneAtATime
  /\ check.at = "machine" => \A c \in Executions : stopped[c] = "no"

LEMMA InitMarks == Init => Marks
BY DEF Init, Marks, OneAtATime, Idle

\* What only lets marks go, and does not begin to read the machine, keeps them.
LEMMA FewerMarks ==
  ASSUME TypeOK, TypeOK', Marks,
         \A c \in Executions : stopped'[c] = stopped[c] \/ stopped'[c] = "no",
         \A c \in Executions : stopped'[c] # "no" => c \in holders',
         check'.at = "machine" => check.at = "machine"
  PROVE  Marks'
<1>1. \A c \in Executions : stopped'[c] # "no" => stopped[c] # "no" /\ c \in holders
  BY DEF Marks
<1>2. OneAtATime'
  <2> SUFFICES ASSUME NEW c \in holders', NEW d \in holders', stopped'[c] # "no", stopped'[d] # "no"
               PROVE  c = d
    BY DEF OneAtATime
  <2>1. c \in Executions /\ d \in Executions
    BY DEF TypeOK
  <2> QED BY <2>1, <1>1 DEF Marks, OneAtATime
<1>3. check'.at = "machine" => \A c \in Executions : stopped'[c] = "no"
  BY DEF Marks
<1> QED BY <1>2, <1>3 DEF Marks

LEMMA GrantMarks ==
  ASSUME TypeOK, TypeOK', Marks, GrantNext
  PROVE  Marks'
<1>1. UNCHANGED <<watching, check>> /\ holders \subseteq holders'
  BY DEF GrantNext, Take, PassBy, EndPass, granted
<1>2. stopped' = stopped
  BY <1>1 DEF watching
<1> QED BY <1>1, <1>2, FewerMarks DEF Marks

LEMMA ExecutionMarks ==
  ASSUME TypeOK, TypeOK', Kept, Marks, NEW c \in Executions, Ask(c) \/ Withdraw(c) \/ Proceed(c)
  PROVE  Marks'
<1>1. CASE Release(c)
  <2>1. LetGo(c) /\ holders' = holders \ {c}
    BY <1>1, ReleaseOf DEF Release
  <2>2. stopped' = [stopped EXCEPT ![c] = "no"] /\ check'.at = check.at
    BY <2>1 DEF LetGo, TypeOK
  <2>3. \A d \in Executions : IF d = c THEN stopped'[d] = "no" ELSE stopped'[d] = stopped[d]
    BY <2>2 DEF TypeOK
  <2> QED BY <2>1, <2>2, <2>3, FewerMarks DEF Marks
<1>2. CASE ~Release(c)
  <2>1. stopped' = stopped /\ holders' = holders
    BY <1>2 DEF Ask, Again, Acquire, Withdraw, Proceed, Watch, Fail, Unwatch, Exit, watching, granted
  <2>2. \/ check' = check
        \/ \E list : check' = [check EXCEPT !.live = list]
        \/ \E some : check' = [check EXCEPT !.seen = some]
    <3>1. CASE Watch(c)
      BY <3>1 DEF Watch
    <3>2. CASE Unwatch(c)
      BY <3>2 DEF Unwatch
    <3>3. CASE ~Watch(c) /\ ~Unwatch(c)
      BY <1>2, <3>3 DEF Ask, Again, Acquire, Withdraw, Proceed, Fail, Exit
    <3> QED BY <3>1, <3>2, <3>3
  <2>3. check'.at = check.at
    BY <2>2 DEF TypeOK
  <2> QED BY <2>1, <2>3, FewerMarks DEF Marks
<1> QED BY <1>1, <1>2

\* Where none is stopped the guard stops one, which is watched, or none.
LEMMA StopMarks ==
  ASSUME TypeOK, Kept, NEW targets \in SUBSET Elements(watched), NEW why, Stop(targets, why),
         \A c, d \in targets : c = d, \A c \in Executions : stopped[c] = "no",
         holders' = holders, check'.at # "machine" \/ targets = {}
  PROVE  Marks'
<1>1. \A c \in Executions : stopped'[c] # "no" => c \in targets
  BY DEF Stop
<1>2. \A c \in targets : c \in Executions /\ c \in holders
  <2>1. Elements(watched) \subseteq Executions
    BY ElementsOf DEF TypeOK
  <2> QED BY <2>1 DEF Kept, RunnersWatched, GrantsHeld, Held, Run
<1>3. holders \subseteq Executions
  BY DEF TypeOK
<1>4. OneAtATime'
  BY <1>1, <1>3 DEF OneAtATime
<1> QED BY <1>1, <1>2, <1>4 DEF Marks

LEMMA GuardMarks ==
  ASSUME TypeOK, TypeOK', Kept, Marks, Check
  PROVE  Marks'
<1>1. CASE CheckStart \/ CheckFails \/ CheckClose
  <2>1. stopped' = stopped /\ holders' = holders
    BY <1>1 DEF CheckStart, CheckFails, CheckClose, watching, granted
  <2>2. check'.at # "machine"
    <3>1. check'.at = "sampling" \/ check' = Idle
      <4>1. CASE CheckStart
        BY <4>1 DEF CheckStart, Idle
      <4>2. CASE CheckFails \/ CheckClose
        BY <4>2 DEF CheckFails, CheckClose
      <4> QED BY <1>1, <4>1, <4>2
    <3> QED BY <3>1 DEF Idle
  <2> QED BY <2>1, <2>2, FewerMarks DEF Marks
<1>2. CASE CheckApply
  <2>1. holders' = holders
    BY <1>2 DEF CheckApply, granted
  <2>2. CASE StopUnderWay
    <3>1. stopped' = stopped /\ check' = Idle
      BY <1>2, <2>2 DEF CheckApply
    <3> QED BY <2>1, <3>1, FewerMarks DEF Marks, Idle
  <2>3. CASE ~StopUnderWay
    <3>1. Stop(PastBudget, "budget")
          /\ check' = IF PastBudget # {} THEN [Idle EXCEPT !.at = "closing"]
                      ELSE [Idle EXCEPT !.at = "machine", !.live = watched]
      BY <1>2, <2>3 DEF CheckApply
    <3>2. PastBudget \subseteq Elements(watched) /\ \A c, d \in PastBudget : c = d
      BY NewestIn DEF PastBudget, TypeOK
    <3>3. \A c \in Executions : stopped[c] = "no"
      BY <2>3 DEF StopUnderWay, Marks
    <3>4. check'.at # "machine" \/ PastBudget = {}
      BY <3>1 DEF Idle
    <3> QED BY <2>1, <3>1, <3>2, <3>3, <3>4, StopMarks
  <2> QED BY <2>2, <2>3
<1>3. CASE CheckMachine
  <2>1. holders' = holders /\ check.at = "machine" /\ check'.at # "machine"
    BY <1>3 DEF CheckMachine, granted, Idle
  <2>2. CASE UNCHANGED <<stopped, peak, lows>>
    BY <2>1, <2>2, FewerMarks DEF Marks
  <2>3. CASE Stop((NearlyOut \intersect Elements(watched)) \ check.gone, "machine")
    <3>1. \A c \in Executions : stopped[c] = "no"
      BY <2>1 DEF Marks
    <3>2. \A c, d \in NearlyOut : c = d
      BY NewestIn DEF NearlyOut, TypeOK
    <3>3. \A c, d \in (NearlyOut \intersect Elements(watched)) \ check.gone : c = d
      BY <3>2
    <3>4. (NearlyOut \intersect Elements(watched)) \ check.gone \in SUBSET Elements(watched)
      OBVIOUS
    <3> QED BY <2>1, <2>3, <3>1, <3>3, <3>4, StopMarks
  <2> QED BY <1>3, <2>2, <2>3 DEF CheckMachine
<1> QED BY <1>1, <1>2, <1>3 DEF Check

LEMMA StepMarks == TypeOK /\ TypeOK' /\ Kept /\ Marks /\ [Next]_vars => Marks'
<1> SUFFICES ASSUME TypeOK, TypeOK', Kept, Marks, [Next]_vars PROVE Marks'
  OBVIOUS
<1>1. CASE Tick \/ UNCHANGED vars
  <2>1. stopped' = stopped /\ holders' = holders /\ check' = check
    BY <1>1 DEF Tick, vars, granted, watching
  <2> QED BY <2>1, FewerMarks DEF Marks
<1> QED BY <1>1, GrantMarks, GuardMarks, ExecutionMarks DEF Next

-----------------------------------------------------------------------------
(* The order of the queue                                                  *)

\* What a pass has passed by has not waited the time: the first it passed had
\* not, and the rest came later and have waited no longer.
Order ==
  /\ \A c \in Executions : at[c] # "waiting" => waited[c] = 0
  /\ \A i, j \in 1..Len(queue) : i < j => waited[queue[i]] >= waited[queue[j]]
  /\ pass.blocked => pass.next > 1
  /\ \A i \in 1..Len(queue) : i < pass.next => waited[queue[i]] < Bypass

LEMMA QueueTyped ==
  ASSUME TypeOK
  PROVE  /\ queue \in Seq(Executions) /\ Len(queue) \in Nat
         /\ \A i \in 1..Len(queue) :
              /\ i \in Nat /\ i > 0 /\ queue[i] \in Executions /\ queue[i] \in Elements(queue)
              /\ waited[queue[i]] \in Nat /\ waited[queue[i]] \in 0..Bypass
         /\ pass.next \in Nat
<1>1. queue \in Seq(Executions) /\ waited \in [Executions -> 0..Bypass] /\ pass.next \in Nat
  BY DEF TypeOK
<1>2. \A c \in Executions : waited[c] \in Nat /\ waited[c] \in 0..Bypass
  BY <1>1, Numbers
<1>3. Len(queue) \in Nat /\ \A i \in 1..Len(queue) : queue[i] \in Executions /\ queue[i] \in Elements(queue)
  BY <1>1, ElementsOf
<1> QED BY <1>1, <1>2, <1>3

LEMMA InitOrder == Init => Order
<1> SUFFICES ASSUME Init PROVE Order
  OBVIOUS
<1>1. Len(queue) = 0
  BY EmptySeq DEF Init
<1> QED BY <1>1 DEF Init, Order, Nothing, Over

\* A queue and waits left alone, and a pass left alone, over or begun.
LEMMA SameOrder ==
  ASSUME TypeOK, Order, UNCHANGED queued,
         \A c \in Executions : at'[c] = "waiting" <=> at[c] = "waiting",
         pass' \in {pass, Over, Begun}
  PROVE  Order'
<1>1. \A c \in Executions : waited[c] \in 0..Bypass
  BY DEF TypeOK
<1>2. UNCHANGED <<queue, waited>>
  BY DEF queued
<1>3. CASE pass' = pass
  BY <1>2, <1>3 DEF Order
<1>4. CASE pass' \in {Over, Begun}
  <2>1. pass'.next \in {0, 1} /\ ~pass'.blocked
    BY <1>4 DEF Over, Begun
  <2>2. \A i \in 1..Len(queue') : ~(i < pass'.next)
    BY <1>2, <2>1, ElementsOf, SMTT(60) DEF TypeOK
  <2> QED BY <1>2, <2>1, <2>2 DEF Order
<1> QED BY <1>3, <1>4

\* One leaves the queue, at its place or after it, and waits no more.
LEMMA ShutOrder ==
  ASSUME TypeOK, Kept, Order, NEW i \in 1..Len(queue),
         queue' = Shut(queue, i), waited' = [waited EXCEPT ![queue[i]] = 0],
         \A c \in Executions : IF c = queue[i] THEN at'[c] # "waiting" ELSE at'[c] = at[c],
         pass'.blocked => pass'.next > 1,
         pass'.next = 1 \/ (pass'.next = i /\ pass.next = i)
  PROVE  Order'
<1> DEFINE From(j) == IF j < i THEN j ELSE j + 1
<1>1. queue \in Seq(Executions) /\ Len(queue) \in Nat /\ queue[i] \in Executions
      /\ \A j \in 1..Len(queue) : queue[j] \in Executions
  BY ElementsOf DEF TypeOK
<1>2. Len(queue') = Len(queue) - 1
  BY <1>1, Shutting
<1>3. \A j \in 1..Len(queue') : /\ From(j) \in 1..Len(queue) /\ From(j) # i
                                /\ queue'[j] = queue[From(j)]
                                /\ j < i => From(j) = j
  <2>1. \A j \in 1..(Len(queue) - 1) : queue'[j] = IF j < i THEN queue[j] ELSE queue[j + 1]
    BY <1>1, Shutting
  <2> QED BY <1>1, <1>2, <2>1
<1>4. \A j, k \in 1..Len(queue') : j < k => From(j) < From(k)
  BY <1>1, <1>2
<1>5. \A j \in 1..Len(queue) : j # i => queue[j] # queue[i] /\ waited'[queue[j]] = waited[queue[j]]
  BY <1>1 DEF Kept, WaitersQueued, Distinct, TypeOK
<1> HIDE DEF From
<1>6. \A j \in 1..Len(queue') : waited'[queue'[j]] = waited[queue[From(j)]]
  BY <1>3, <1>5
<1>7. \A j, k \in 1..Len(queue') : j < k => waited'[queue'[j]] >= waited'[queue'[k]]
  BY <1>3, <1>4, <1>6 DEF Order
<1>8. \A j \in 1..Len(queue') : j < pass'.next => waited'[queue'[j]] < Bypass
  <2> SUFFICES ASSUME NEW j \in 1..Len(queue'), j < pass'.next PROVE waited'[queue'[j]] < Bypass
    OBVIOUS
  <2>1. j < i /\ j < pass.next
    BY <1>1, <1>2, QueueTyped
  <2>2. From(j) = j /\ j \in 1..Len(queue)
    BY <1>3, <2>1
  <2> QED BY <1>6, <2>1, <2>2 DEF Order
<1>9. \A c \in Executions : at'[c] # "waiting" => waited'[c] = 0
  BY <1>1 DEF Order, TypeOK
<1> QED BY <1>7, <1>8, <1>9 DEF Order

LEMMA TakeOrder ==
  ASSUME TypeOK, Kept, Order, Take
  PROVE  Order'
<1>1. /\ pass.next \in 1..Len(queue) /\ queue' = Shut(queue, pass.next)
      /\ waited' = [waited EXCEPT ![queue[pass.next]] = 0]
      /\ at' = [at EXCEPT ![queue[pass.next]] = "granted"] /\ pass' = pass
  BY DEF Take
<1>2. \A c \in Executions : IF c = queue[pass.next] THEN at'[c] # "waiting" ELSE at'[c] = at[c]
  BY <1>1 DEF TypeOK
<1>3. pass'.blocked => pass'.next > 1
  BY <1>1 DEF Order
<1>4. pass'.next = pass.next
  BY <1>1
<1> QED BY <1>1, <1>2, <1>3, <1>4, ShutOrder

LEMMA WithdrawOrder ==
  ASSUME TypeOK, Kept, Order, NEW c \in Executions, Withdraw(c)
  PROVE  Order'
<1>1. PICK i \in 1..Len(queue) : queue[i] = c /\ queue' = Shut(queue, i)
  BY DEF Withdraw
<1>2. /\ waited' = [waited EXCEPT ![queue[i]] = 0]
      /\ pass'.next = 1 /\ ~pass'.blocked
  BY <1>1 DEF Withdraw, Begun
<1>3. \A d \in Executions : IF d = queue[i] THEN at'[d] # "waiting" ELSE at'[d] = at[d]
  BY <1>1 DEF Withdraw, TypeOK
<1> QED BY <1>1, <1>2, <1>3, ShutOrder

\* One that joins the queue has not waited.
LEMMA AcquireOrder ==
  ASSUME TypeOK, Kept, Order, NEW c \in Executions, NEW bytes, Acquire(c, bytes),
         at[c] \in {"idle", "again"}
  PROVE  Order'
<1>1. queue \in Seq(Executions) /\ Len(queue) \in Nat
      /\ \A j \in 1..Len(queue) : queue[j] \in Executions /\ waited[queue[j]] \in 0..Bypass
  BY ElementsOf DEF TypeOK
<1>2. waited' = waited /\ waited[c] = 0 /\ at' = [at EXCEPT ![c] = "waiting"] /\ queue' = Append(queue, c)
      /\ pass' = Begun
  BY DEF Acquire, Order
<1>3. /\ Len(queue') = Len(queue) + 1 /\ queue'[Len(queue) + 1] = c
      /\ \A i \in 1..Len(queue) : queue'[i] = queue[i]
  BY <1>1, <1>2, Joining
<1>4. \A i, j \in 1..Len(queue') : i < j => waited'[queue'[i]] >= waited'[queue'[j]]
  <2> SUFFICES ASSUME NEW i \in 1..Len(queue'), NEW j \in 1..Len(queue'), i < j
               PROVE  waited'[queue'[i]] >= waited'[queue'[j]]
    OBVIOUS
  <2>1. i \in 1..Len(queue)
    BY <1>1, <1>3
  <2>2. CASE j = Len(queue) + 1
    BY <1>1, <1>2, <1>3, <2>1, <2>2
  <2>3. CASE j \in 1..Len(queue)
    BY <1>2, <1>3, <2>1, <2>3 DEF Order
  <2>4. j = Len(queue) + 1 \/ j \in 1..Len(queue)
    BY <1>1, <1>3
  <2> QED BY <2>2, <2>3, <2>4
<1>5. pass'.next = 1 /\ ~pass'.blocked
  BY <1>2 DEF Begun
<1>6. \A d \in Executions : at'[d] # "waiting" => waited'[d] = 0
  BY <1>2 DEF Order, TypeOK
<1> QED BY <1>1, <1>3, <1>4, <1>5, <1>6 DEF Order

LEMMA PassByOrder ==
  ASSUME TypeOK, Order, PassBy
  PROVE  Order'
<1> DEFINE n == pass.next
<1>1. n \in 1..Len(queue) /\ ~HoldsLine(queue[n]) /\ pass' = [next |-> n + 1, blocked |-> TRUE]
      /\ UNCHANGED <<queued, executing>>
  BY DEF PassBy
<1>2. UNCHANGED <<queue, waited, at>> /\ n \in Nat
  BY <1>1 DEF queued, executing, TypeOK
<1>3. \A j \in 1..Len(queue) : waited[queue[j]] \in Nat /\ j \in Nat
  BY QueueTyped
<1>4. waited[queue[n]] < Bypass
  <2>1. CASE ~pass.blocked
    BY <1>1, <1>3, <2>1, Numbers DEF HoldsLine
  <2>2. CASE pass.blocked
    <3>1. n > 1 /\ n - 1 \in 1..Len(queue) /\ n - 1 < n
      <4>1. n > 1
        BY <2>2 DEF Order
      <4> HIDE DEF n
      <4> QED BY <1>1, <1>2, <4>1, QueueTyped
    <3>2. waited[queue[n - 1]] < Bypass /\ waited[queue[n - 1]] >= waited[queue[n]]
      BY <1>1, <3>1 DEF Order
    <3> QED BY <1>1, <1>3, <3>1, <3>2, Numbers
  <2> QED BY <2>1, <2>2
<1>5. \A i \in 1..Len(queue) : i < n + 1 => i < n \/ i = n
  BY <1>2, <1>3
<1>6. \A i \in 1..Len(queue) : i < n + 1 => waited[queue[i]] < Bypass
  BY <1>4, <1>5 DEF Order
<1>7. pass'.next = n + 1 /\ n + 1 > 1
  BY <1>1, <1>2, ElementsOf DEF TypeOK
<1> HIDE DEF n
<1> QED BY <1>2, <1>6, <1>7 DEF Order

LEMMA TickOrder ==
  ASSUME TypeOK, Kept, Order, Tick
  PROVE  Order'
<1>1. UNCHANGED <<queue, at, pass>> /\ pass.next = 0
  BY DEF Tick, executing, Free
<1>2. waited' = [c \in Executions |-> IF c \in Elements(queue) THEN Longer(waited[c]) ELSE waited[c]]
  BY DEF Tick
<1>3. \A c \in Executions : at'[c] # "waiting" => waited'[c] = 0
  BY <1>1, <1>2 DEF Order, Kept, WaitersQueued
<1>4. \A i \in 1..Len(queue) : /\ queue[i] \in Executions /\ queue[i] \in Elements(queue)
                               /\ waited[queue[i]] \in 0..Bypass
  BY QueueTyped
<1>5. \A a, b \in 0..Bypass : a >= b => Longer(a) >= Longer(b)
  BY Numbers DEF Longer
<1>6. \A i, j \in 1..Len(queue) : i < j => waited'[queue[i]] >= waited'[queue[j]]
  BY <1>2, <1>4, <1>5 DEF Order
<1>7. \A i \in 1..Len(queue) : ~(i < pass.next)
  BY <1>1, ElementsOf DEF TypeOK
<1> QED BY <1>1, <1>3, <1>6, <1>7 DEF Order

LEMMA ExecutionOrder ==
  ASSUME TypeOK, Kept, Order, NEW c \in Executions, Ask(c) \/ Withdraw(c) \/ Proceed(c)
  PROVE  Order'
<1>1. CASE Ask(c)
  BY <1>1, AcquireOrder DEF Ask
<1>2. CASE Again(c)
  BY <1>2, AcquireOrder DEF Again
<1>3. CASE \/ Watch(c) \/ Fail(c) \/ Unwatch(c) \/ Release(c)
           \/ \E how \in {"ok", "bad", "aborted", "cap"} : Exit(c, how)
  <2>1. UNCHANGED queued
    <3>1. CASE Watch(c) \/ Fail(c) \/ Unwatch(c) \/ \E how \in {"ok", "bad", "aborted", "cap"} : Exit(c, how)
      BY <3>1 DEF Watch, Fail, Unwatch, Exit
    <3>2. CASE Release(c)
      BY <3>2 DEF Release
    <3> QED BY <1>3, <3>1, <3>2
  <2>2. pass' \in {pass, Over, Begun}
    <3>1. CASE Watch(c) \/ Fail(c) \/ Unwatch(c) \/ \E how \in {"ok", "bad", "aborted", "cap"} : Exit(c, how)
      BY <3>1 DEF Watch, Fail, Unwatch, Exit
    <3>2. CASE Release(c)
      BY <3>2 DEF Release, LetGo
    <3> QED BY <1>3, <3>1, <3>2
  <2>3. \A d \in Executions : at'[d] = "waiting" <=> at[d] = "waiting"
    <3>1. CASE Watch(c) \/ Fail(c) \/ \E how \in {"ok", "bad", "aborted", "cap"} : Exit(c, how)
      <4>1. at[c] \in {"granted", "running"}
            /\ \E place \in {"running", "done", "exited"} : at' = [at EXCEPT ![c] = place]
        BY <3>1 DEF Watch, Fail, Exit
      <4> QED BY <4>1 DEF TypeOK
    <3>2. CASE Unwatch(c)
      BY <3>2 DEF Unwatch, After, TypeOK
    <3>3. CASE Release(c)
      BY <3>3 DEF Release, Ended, TypeOK
    <3> QED BY <1>3, <3>1, <3>2, <3>3
  <2> QED BY <2>1, <2>2, <2>3, SameOrder
<1> QED BY <1>1, <1>2, <1>3, WithdrawOrder DEF Proceed

LEMMA OthersOrder ==
  ASSUME TypeOK, Order, EndPass \/ Check \/ UNCHANGED vars
  PROVE  Order'
<1>1. UNCHANGED queued /\ at' = at
  BY DEF EndPass, Check, CheckStart, CheckFails, CheckApply, CheckMachine, CheckClose, vars, executing
<1>2. pass' \in {pass, Over, Begun}
  BY DEF EndPass, Check, CheckStart, CheckFails, CheckApply, CheckMachine, CheckClose, vars
<1> QED BY <1>1, <1>2, SameOrder

LEMMA StepOrder == TypeOK /\ Kept /\ Order /\ [Next]_vars => Order'
BY TakeOrder, PassByOrder, TickOrder, ExecutionOrder, OthersOrder DEF Next, GrantNext

\* Only a pass grants, and what it grants is where it is in the queue.
LEMMA StepPasses ==
  ASSUME TypeOK, Kept, Order, [Next]_vars, NEW i \in 1..Len(queue), NEW j \in 1..Len(queue),
         i < j, queue[j] \in holders' \ holders
  PROVE  waited[queue[i]] < Bypass
<1>1. CASE Take
  <2>1. pass.next \in 1..Len(queue) /\ holders' = holders \union {queue[pass.next]}
    BY <1>1 DEF Take
  <2>2. queue[j] = queue[pass.next] /\ Distinct(queue)
    BY <2>1 DEF Kept, WaitersQueued
  <2>3. j = pass.next
    BY <2>1, <2>2 DEF Distinct
  <2> QED BY <2>3 DEF Order
<1>2. CASE PassBy \/ EndPass \/ Check \/ Tick \/ UNCHANGED vars
  <2>1. UNCHANGED granted
    BY <1>2 DEF PassBy, EndPass, Check, CheckStart, CheckFails, CheckApply, CheckMachine, CheckClose, Tick, vars
  <2> QED BY <2>1 DEF granted
<1>3. CASE \E c \in Executions : Ask(c) \/ Withdraw(c) \/ Proceed(c)
  <2>1. PICK c \in Executions : Ask(c) \/ Withdraw(c) \/ Proceed(c)
    BY <1>3
  <2>2. CASE Release(c)
    BY <2>2, ReleaseOf
  <2>3. CASE ~Release(c)
    <3>1. holders' = holders
      BY <2>1, <2>3 DEF Ask, Again, Acquire, Withdraw, Proceed, Watch, Fail, Unwatch, Exit, granted
    <3> QED BY <3>1
  <2> QED BY <2>2, <2>3
<1> QED BY <1>1, <1>2, <1>3 DEF Next, GrantNext

-----------------------------------------------------------------------------
(* What the holders reserve                                                *)

Sizes == [c \in Executions |-> Size(c)]
Needs == [c \in Executions |-> Larger(Size(c), usage[c])]

Reserves == reserved = Total(Sizes, holders) /\ reserved <= Memory

\* What a pass and the invariant add up are totals.
LEMMA TotalsOf ==
  ASSUME TypeOK
  PROVE  /\ MapThenSumSet(Size, holders) = Total(Sizes, holders)
         /\ Used = Total(Needs, holders)
<1>1. holders \subseteq Executions
  BY DEF TypeOK
<1>2. MapThenSumSet(Size, holders) = Total(Sizes, holders)
  BY <1>1, Zenon DEF MapThenSumSet, MapThenFoldSet, Total, One, Sizes
<1>3. Used = Total(Needs, holders)
  BY <1>1, Zenon DEF MapThenSumSet, MapThenFoldSet, Total, One, Needs, Used
<1> QED BY <1>2, <1>3

LEMMA SizesTyped ==
  ASSUME TypeOK
  PROVE  \A c \in Executions : Sizes[c] = Size(c) /\ Sizes[c] \in Nat
                               /\ Needs[c] \in Nat /\ Sizes[c] <= Needs[c]
<1> SUFFICES ASSUME NEW c \in Executions
             PROVE  Sizes[c] = Size(c) /\ Sizes[c] \in Nat /\ Needs[c] \in Nat /\ Sizes[c] <= Needs[c]
  OBVIOUS
<1>1. Size(c) \in Nat /\ usage[c] \in Nat
  BY SizeNat DEF TypeOK
<1> QED BY <1>1 DEF Sizes, Needs, Larger

LEMMA InitReserves == Init => Reserves
<1> SUFFICES ASSUME Init PROVE Reserves
  OBVIOUS
<1>1. holders = {} /\ reserved = 0
  BY DEF Init
<1>2. Total(Sizes, {}) = 0
  BY TotalStep, FS_EmptySet
<1> QED BY <1>1, <1>2, Numbers DEF Reserves

\* Nothing a holder reserves changes while it holds.
LEMMA SameReserves ==
  ASSUME TypeOK, TypeOK', Reserves, UNCHANGED <<holders, reserved>>,
         \A c \in holders : reserves'[c] = reserves[c]
  PROVE  Reserves'
<1>1. \A c \in holders : Sizes[c] \in Int /\ Sizes'[c] = Sizes[c]
  <2>1. holders \subseteq Executions
    BY DEF TypeOK
  <2> QED BY <2>1, SizesTyped DEF Sizes, Size, RunsAlone
<1>2. Total(Sizes', holders) = Total(Sizes, holders)
  BY <1>1, HoldersCounted, TotalSame
<1> QED BY <1>2 DEF Reserves

\* What is granted fits beside what is reserved.
LEMMA TakeReserves ==
  ASSUME TypeOK, Kept, Reserves, Take
  PROVE  Reserves'
<1> DEFINE c == queue[pass.next]
<1>1. /\ Fits(c) /\ holders' = holders \union {c} /\ reserved' = reserved + Size(c)
      /\ reserves' = reserves
  BY DEF Take
<1>2. c \in Executions /\ c \notin holders
  <2>1. pass.next \in 1..Len(queue) /\ queue \in Seq(Executions)
    BY DEF Take, TypeOK
  <2>2. c \in Executions /\ c \in Elements(queue)
    BY <2>1, ElementsOf
  <2> QED BY <2>2 DEF Kept, WaitersQueued, GrantsHeld, Held
<1> HIDE DEF c
<1>3. Sizes' = Sizes
  BY <1>1 DEF Sizes, Size, RunsAlone
<1>4. IsFiniteSet(holders) /\ IsFiniteSet(holders') /\ holders \subseteq Executions
      /\ holders' \subseteq Executions
  BY <1>1, <1>2, HoldersCounted, FS_AddElement DEF TypeOK
<1>5. Total(Sizes, holders') = Sizes[c] + Total(Sizes, holders)
  <2>1. \A x \in holders' : Sizes[x] \in Int
    BY <1>4, SizesTyped
  <2>2. holders' \ {c} = holders /\ c \in holders'
    BY <1>1, <1>2
  <2> QED BY <2>1, <2>2, <1>4, TotalOut
<1>6. Total(Sizes, holders) \in Int /\ Size(c) \in Int /\ Sizes[c] = Size(c)
  <2>1. \A x \in holders : Sizes[x] \in Int
    BY <1>4, SizesTyped
  <2>2. Total(Sizes, holders) \in Int
    BY <2>1, <1>4, TotalInt
  <2> QED BY <2>2, <1>2, SizesTyped
<1>7. reserved + Size(c) <= Memory
  <2>1. CASE RunsAlone(c)
    <3>1. holders = {} /\ Size(c) = Memory
      BY <1>1, <2>1 DEF Fits, Size
    <3>2. reserved = 0
      BY <3>1, TotalStep, FS_EmptySet DEF Reserves
    <3> QED BY <3>1, <3>2, Numbers
  <2>2. CASE ~RunsAlone(c)
    <3>1. Total(Needs, holders) + Size(c) <= Memory
      BY <1>1, <2>2, TotalsOf DEF Fits, Size
    <3>2. \A x \in holders : Sizes[x] \in Int /\ Needs[x] \in Int /\ Sizes[x] <= Needs[x]
      BY <1>4, SizesTyped
    <3>3. Total(Sizes, holders) <= Total(Needs, holders)
      BY <3>2, <1>4, TotalMore
    <3>4. Total(Needs, holders) \in Int
      BY <3>2, <1>4, TotalInt
    <3> QED BY <3>1, <3>3, <3>4, <1>6, Numbers DEF Reserves
  <2> QED BY <2>1, <2>2
<1> QED BY <1>1, <1>3, <1>5, <1>6, <1>7 DEF Reserves

\* What is let go is taken off as it was added.
LEMMA ReleaseReserves ==
  ASSUME TypeOK, Kept, Reserves, NEW c \in Executions, Release(c)
  PROVE  Reserves'
<1>1. c \in holders /\ holders' = holders \ {c}
  BY ReleaseOf
<1>2. reserved' = reserved - Size(c)
  BY DEF Release, LetGo
<1>3. IsFiniteSet(holders) /\ IsFiniteSet(holders') /\ holders \subseteq Executions
  BY <1>1, HoldersCounted, FS_RemoveElement DEF TypeOK
<1>4. \A x \in holders' : Sizes[x] \in Int /\ Sizes'[x] = Sizes[x]
  <2>1. \A d \in Executions : d # c => reserves'[d] = reserves[d]
    BY DEF Release, TypeOK
  <2> QED BY <1>1, <1>3, <2>1, SizesTyped DEF Sizes, Size, RunsAlone
<1>5. Total(Sizes', holders') = Total(Sizes, holders')
  BY <1>3, <1>4, TotalSame
<1>6. Total(Sizes, holders) = Sizes[c] + Total(Sizes, holders')
      /\ Total(Sizes, holders') \in Int
  <2>1. \A x \in holders : Sizes[x] \in Int
    BY <1>3, SizesTyped
  <2>2. holders' \in SUBSET holders
    BY <1>1
  <2> QED BY <2>1, <2>2, <1>1, <1>3, TotalOut, TotalInt
<1>7. Sizes[c] = Size(c) /\ Size(c) \in Nat
  BY SizesTyped
<1> QED BY <1>2, <1>5, <1>6, <1>7, Numbers DEF Reserves

LEMMA ExecutionReserves ==
  ASSUME TypeOK, TypeOK', Kept, Reserves, NEW c \in Executions, Ask(c) \/ Withdraw(c) \/ Proceed(c)
  PROVE  Reserves'
<1>1. CASE Release(c)
  BY <1>1, ReleaseReserves
<1>2. CASE Watch(c) \/ Fail(c) \/ Unwatch(c) \/ \E how \in {"ok", "bad", "aborted", "cap"} : Exit(c, how)
  <2>1. UNCHANGED <<holders, reserved, reserves>>
    BY <1>2 DEF Watch, Fail, Unwatch, Exit, granted
  <2> QED BY <2>1, SameReserves
<1>3. CASE /\ at[c] \in {"idle", "waiting", "again"} /\ UNCHANGED <<holders, reserved>>
           /\ \A d \in Executions : d # c => reserves'[d] = reserves[d]
  <2>1. c \notin holders /\ holders \subseteq Executions
    BY <1>3 DEF Kept, GrantsHeld, Held, TypeOK
  <2>2. \A d \in holders : reserves'[d] = reserves[d]
    BY <1>3, <2>1
  <2> QED BY <1>3, <2>2, SameReserves
<1>4. CASE Ask(c)
  <2>1. PICK bytes \in Asks[c] : Acquire(c, bytes)
    BY <1>4 DEF Ask
  <2>2. at[c] = "idle" /\ UNCHANGED <<holders, reserved>> /\ reserves' = [reserves EXCEPT ![c] = bytes]
    BY <1>4, <2>1 DEF Ask, Acquire, granted
  <2> QED BY <1>3, <2>2 DEF TypeOK
<1>5. CASE Again(c)
  <2>1. at[c] = "again" /\ UNCHANGED <<holders, reserved>> /\ reserves' = [reserves EXCEPT ![c] = reserves[c]]
    BY <1>5 DEF Again, Acquire, granted
  <2> QED BY <1>3, <2>1 DEF TypeOK
<1>6. CASE Withdraw(c)
  <2>1. at[c] = "waiting" /\ UNCHANGED <<holders, reserved>> /\ reserves' = [reserves EXCEPT ![c] = 0]
    BY <1>6 DEF Withdraw, granted
  <2> QED BY <1>3, <2>1 DEF TypeOK
<1> QED BY <1>1, <1>2, <1>4, <1>5, <1>6 DEF Proceed

LEMMA OthersReserves ==
  ASSUME TypeOK, TypeOK', Reserves, PassBy \/ EndPass \/ Check \/ Tick \/ UNCHANGED vars
  PROVE  Reserves'
<1>1. UNCHANGED <<granted, executing>>
  BY DEF PassBy, EndPass, Tick, Check, CheckStart, CheckFails, CheckApply, CheckMachine, CheckClose, vars
<1>2. UNCHANGED <<holders, reserved, reserves>>
  BY <1>1 DEF granted, executing
<1> QED BY <1>2, SameReserves

LEMMA StepReserves == TypeOK /\ TypeOK' /\ Kept /\ Reserves /\ [Next]_vars => Reserves'
BY TakeReserves, ExecutionReserves, OthersReserves DEF Next, GrantNext

-----------------------------------------------------------------------------
(* The theorems                                                            *)

Budgeted == TypeOK /\ Kept /\ Sole /\ Marks /\ Order

LEMMA AlwaysBudgeted == Spec => []Budgeted
<1>1. Init => Budgeted
  BY InitTyped, InitKept, InitSole, InitMarks, InitOrder DEF Budgeted
<1>2. TypeOK /\ [Next]_vars => TypeOK'
  BY GrantTyped, GuardTyped, TickTyped, ExecutionTyped, StutterTyped DEF Next
<1>3. Budgeted /\ [Next]_vars => Budgeted'
  BY <1>2, StepKept, StepSole, StepMarks, StepOrder DEF Budgeted
<1> QED BY <1>1, <1>3, PTL DEF Spec

\* No more runners are granted than cores, and one of more than the budget
\* has nothing beside it, whatever is stopped, withdrawn and asked again.
THEOREM BudgetSole == Spec => []Sole
<1>1. Budgeted => Sole
  BY DEF Budgeted
<1> QED BY AlwaysBudgeted, <1>1, PTL

\* The guard stops no second runner before the first one's grant is let go.
THEOREM BudgetOneAtATime == Spec => []OneAtATime
<1>1. Budgeted => OneAtATime
  BY DEF Budgeted, Marks
<1> QED BY AlwaysBudgeted, <1>1, PTL

\* A request that has waited the bypass time is passed by no later one.
THEOREM BudgetNotPassed == Spec => NotPassed
<1> DEFINE Passes == \A i, j \in 1..Len(queue) :
             i < j /\ queue[j] \in holders' \ holders => waited[queue[i]] < Bypass
<1>1. Budgeted /\ [Next]_vars => [Passes]_vars
  BY StepPasses DEF Budgeted
<1>2. Spec => [][Passes]_vars
  BY AlwaysBudgeted, <1>1, PTL DEF Spec
<1> QED BY <1>2 DEF NotPassed

\* What the holders reserve is what the budget counts, and it fits the budget,
\* whatever is stopped, withdrawn and asked again.
THEOREM BudgetCapacity == Spec => []Capacity
<1>1. Init => Reserves
  BY InitReserves
<1>2. Budgeted /\ Budgeted' /\ Reserves /\ [Next]_vars => Reserves'
  BY StepReserves DEF Budgeted
<1>3. Budgeted /\ Reserves => Capacity
  BY TotalsOf DEF Budgeted, Reserves, Capacity
<1> QED BY <1>1, <1>2, <1>3, AlwaysBudgeted, PTL DEF Spec

=============================================================================
