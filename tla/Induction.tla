------------------------------ MODULE Induction ------------------------------
(***************************************************************************)
(* Induction over the naturals, and over the subsets of a finite set, in   *)
(* the form the provers can apply: over the members of a set.  It follows  *)
(* from the finite sets' strict inclusion being well founded.  With it,    *)
(* what the totals the models count with (MapThenSumSet) add up to.        *)
(***************************************************************************)
EXTENDS FiniteSetTheorems, TLAPS

\* Every set of naturals that is not empty has a least member.
LEMMA LeastMember ==
  ASSUME NEW T \in SUBSET Nat, T # {}
  PROVE  \E n \in T : \A m \in T : n <= m
<1> DEFINE Below(n) == 1..n
           Segments == {Below(n) : n \in T}
<1>1. Segments \subseteq FiniteSubsetsOf(Nat)
  <2>1. \A n \in T : IsFiniteSet(Below(n)) /\ Below(n) \in SUBSET Nat
    BY FS_Interval
  <2> QED BY <2>1 DEF FiniteSubsetsOf
<1>2. IsWellFoundedOn(StrictSubsetOrdering(Nat), FiniteSubsetsOf(Nat))
  BY FS_StrictSubsetOrderingWellFounded
<1>3. Segments # {}
  OBVIOUS
<1>4. PICK x \in Segments : \A y \in Segments : ~(<<y, x>> \in StrictSubsetOrdering(Nat))
  <2> HIDE DEF Segments
  <2> QED BY <1>1, <1>2, <1>3, WFMin
<1>5. PICK n \in T : x = Below(n)
  BY <1>4
<1>6. ASSUME NEW m \in T, m < n PROVE FALSE
  <2>1. Below(m) \in SUBSET Nat /\ Below(n) \in SUBSET Nat
    OBVIOUS
  <2>2. Below(m) \subseteq Below(n) /\ n \in Below(n) /\ n \notin Below(m)
    BY <1>6
  <2>3. <<Below(m), Below(n)>> \in StrictSubsetOrdering(Nat)
    <3> HIDE DEF Below
    <3> QED BY <2>1, <2>2 DEF StrictSubsetOrdering
  <2> QED BY <2>3, <1>4, <1>5
<1> QED BY <1>6

\* A set that holds every natural whose predecessors it holds holds them all.
LEMMA StrongInduction ==
  ASSUME NEW S, \A n \in Nat : (\A m \in Nat : m < n => m \in S) => n \in S
  PROVE  Nat \subseteq S
<1> SUFFICES ASSUME Nat \ S # {} PROVE FALSE
  OBVIOUS
<1>1. PICK n \in Nat \ S : \A m \in Nat \ S : n <= m
  BY LeastMember
<1>2. \A m \in Nat : m < n => m \in S
  BY <1>1
<1> QED BY <1>1, <1>2

\* A set that holds every subset of a finite set that it holds the smaller
\* ones of holds them all.
LEMMA SubsetInduction ==
  ASSUME NEW S, IsFiniteSet(S), NEW G,
         \A s \in SUBSET S : (\A x \in s : s \ {x} \in G) => s \in G
  PROVE  SUBSET S \subseteq G
<1> DEFINE Rest == (SUBSET S) \ G
<1> SUFFICES ASSUME Rest # {} PROVE FALSE
  OBVIOUS
<1>1. IsWellFoundedOn(StrictSubsetOrdering(S), FiniteSubsetsOf(S))
  BY FS_StrictSubsetOrderingWellFounded
<1>2. Rest \subseteq FiniteSubsetsOf(S)
  BY FS_Subset DEF FiniteSubsetsOf
<1>3. PICK s \in Rest : \A t \in Rest : ~(<<t, s>> \in StrictSubsetOrdering(S))
  <2> HIDE DEF Rest
  <2> QED BY <1>1, <1>2, WFMin
<1>4. ASSUME NEW x \in s PROVE s \ {x} \in G
  <2>1. s \ {x} \in SUBSET S /\ s \in SUBSET S
    BY <1>3
  <2>2. <<s \ {x}, s>> \in StrictSubsetOrdering(S)
    BY <1>4, <2>1 DEF StrictSubsetOrdering
  <2> QED BY <2>1, <2>2, <1>3
<1> QED BY <1>3, <1>4

-----------------------------------------------------------------------------
(* Totals                                                                  *)

\* What MapThenSumSet adds up, of a weight for each.
One(s) == CHOOSE x \in s : TRUE
Total(w, S) ==
  LET up[s \in SUBSET S] == IF s = {} THEN 0 ELSE w[One(s)] + up[s \ {One(s)}]
  IN up[S]

Adds(w, S, up) ==
  up = [s \in SUBSET S |-> IF s = {} THEN 0 ELSE w[One(s)] + up[s \ {One(s)}]]

LEMMA OneIs == ASSUME NEW s, s # {} PROVE One(s) \in s
BY DEF One

\* The recursion has a function.
LEMMA TotalExists ==
  ASSUME NEW w, NEW S, IsFiniteSet(S)
  PROVE  \E up : Adds(w, S, up)
<1> DEFINE Small(n) == {s \in SUBSET S : Cardinality(s) <= n}
           Sums(n, up) == \A s \in Small(n) : up[s] = IF s = {} THEN 0 ELSE w[One(s)] + up[s \ {One(s)}]
           K == {n \in Nat : \E up : Sums(n, up)}
<1>1. \A s \in SUBSET S : IsFiniteSet(s) /\ Cardinality(s) \in Nat
  BY FS_Subset, FS_CardinalityType
<1>2. ASSUME NEW s \in SUBSET S, s # {}
      PROVE  s \ {One(s)} \in SUBSET S /\ Cardinality(s \ {One(s)}) = Cardinality(s) - 1
  BY <1>1, <1>2, OneIs, FS_RemoveElement
<1>3. ASSUME NEW n \in Nat, \A m \in Nat : m < n => m \in K
      PROVE  n \in K
  <2>1. CASE n = 0
    <3>1. \A s \in Small(0) : s = {}
      BY <1>1, FS_EmptySet
    <3>2. Sums(0, [s \in Small(0) |-> 0])
      BY <3>1
    <3> QED BY <3>2, <2>1
  <2>2. CASE n > 0
    <3>1. PICK f : Sums(n - 1, f)
      <4>1. n - 1 \in Nat /\ n - 1 < n
        BY <2>2
      <4>2. n - 1 \in K
        <5> HIDE DEF K
        <5> QED BY <4>1, <1>3
      <4> QED BY <4>2
    <3> DEFINE g == [s \in SUBSET S |-> IF s \in Small(n - 1) THEN f[s]
                                        ELSE IF s = {} THEN 0 ELSE w[One(s)] + f[s \ {One(s)}]]
    <3>2. ASSUME NEW s \in Small(n)
          PROVE  g[s] = IF s = {} THEN 0 ELSE w[One(s)] + g[s \ {One(s)}]
      <4>1. CASE s = {}
        BY <4>1, <3>1
      <4>2. CASE s # {}
        <5>1. s \ {One(s)} \in Small(n - 1)
          BY <1>1, <1>2, <4>2, <3>2, <2>2
        <5>2. g[s \ {One(s)}] = f[s \ {One(s)}]
          BY <5>1
        <5>3. g[s] = w[One(s)] + f[s \ {One(s)}]
          BY <3>1, <4>2
        <5> QED BY <5>2, <5>3, <4>2
      <4> QED BY <4>1, <4>2
    <3>3. Sums(n, g)
      <4> HIDE DEF g
      <4> QED BY <3>2
    <3> QED BY <3>3
  <2> HIDE DEF K
  <2> QED BY <2>1, <2>2
<1>4. Nat \subseteq K
  <2> HIDE DEF K
  <2> QED BY <1>3, StrongInduction
<1>5. Cardinality(S) \in Nat
  BY <1>1
<1>6. PICK f : Sums(Cardinality(S), f)
  BY <1>4, <1>5
<1>7. \A s \in SUBSET S : s \in Small(Cardinality(S))
  BY FS_Subset
<1> DEFINE h == [s \in SUBSET S |-> f[s]]
<1>8. \A s \in SUBSET S : h[s] = IF s = {} THEN 0 ELSE w[One(s)] + h[s \ {One(s)}]
  BY <1>6, <1>7
<1>9. h = [s \in SUBSET S |-> IF s = {} THEN 0 ELSE w[One(s)] + h[s \ {One(s)}]]
  BY <1>8
<1> QED BY <1>9 DEF Adds

\* And one only, on all it is defined on.
LEMMA TotalUnique ==
  ASSUME NEW w, NEW S, IsFiniteSet(S), NEW T \in SUBSET S,
         NEW up, Adds(w, S, up), NEW vp, Adds(w, T, vp)
  PROVE  \A s \in SUBSET T : up[s] = vp[s]
<1> DEFINE G == {s \in SUBSET T : up[s] = vp[s]}
<1>1. IsFiniteSet(T)
  BY FS_Subset
<1>2. ASSUME NEW s \in SUBSET T, \A x \in s : s \ {x} \in G
      PROVE  s \in G
  <2>1. up[s] = IF s = {} THEN 0 ELSE w[One(s)] + up[s \ {One(s)}]
    BY DEF Adds
  <2>2. vp[s] = IF s = {} THEN 0 ELSE w[One(s)] + vp[s \ {One(s)}]
    BY DEF Adds
  <2> QED BY <2>1, <2>2, <1>2, OneIs
<1>3. SUBSET T \subseteq G
  <2> HIDE DEF G
  <2> QED BY <1>1, <1>2, SubsetInduction
<1> QED BY <1>3

LEMMA TotalStep ==
  ASSUME NEW w, NEW S, IsFiniteSet(S)
  PROVE  Total(w, S) = IF S = {} THEN 0 ELSE w[One(S)] + Total(w, S \ {One(S)})
<1> DEFINE F(T) == CHOOSE up : Adds(w, T, up)
<1>1. \A T \in SUBSET S : IsFiniteSet(T) /\ Adds(w, T, F(T)) /\ Total(w, T) = F(T)[T]
  <2>1. ASSUME NEW T \in SUBSET S PROVE IsFiniteSet(T)
    BY FS_Subset
  <2>2. ASSUME NEW T \in SUBSET S PROVE Adds(w, T, F(T))
    BY <2>1, TotalExists
  <2>3. ASSUME NEW T \in SUBSET S PROVE Total(w, T) = F(T)[T]
    BY DEF Total, Adds
  <2> QED BY <2>1, <2>2, <2>3
<1>2. F(S)[S] = IF S = {} THEN 0 ELSE w[One(S)] + F(S)[S \ {One(S)}]
  <2>1. Adds(w, S, F(S))
    BY <1>1
  <2> HIDE DEF F
  <2> QED BY <2>1 DEF Adds
<1>3. S \ {One(S)} \in SUBSET S
  OBVIOUS
<1>4. F(S)[S \ {One(S)}] = F(S \ {One(S)})[S \ {One(S)}]
  <2>1. Adds(w, S, F(S)) /\ Adds(w, S \ {One(S)}, F(S \ {One(S)}))
    BY <1>1, <1>3
  <2> HIDE DEF F
  <2> QED BY <2>1, <1>3, TotalUnique
<1> HIDE DEF F
<1> QED BY <1>1, <1>2, <1>3, <1>4

\* The total of numbers is one.
LEMMA TotalInt ==
  ASSUME NEW S, IsFiniteSet(S), NEW w, \A x \in S : w[x] \in Int
  PROVE  \A s \in SUBSET S : Total(w, s) \in Int
<1> DEFINE G == {s \in SUBSET S : Total(w, s) \in Int}
<1>1. ASSUME NEW s \in SUBSET S, \A x \in s : s \ {x} \in G
      PROVE  s \in G
  <2>1. Total(w, s) = IF s = {} THEN 0 ELSE w[One(s)] + Total(w, s \ {One(s)})
    BY TotalStep, FS_Subset
  <2> QED BY <2>1, <1>1, OneIs
<1>2. SUBSET S \subseteq G
  <2> HIDE DEF G
  <2> QED BY <1>1, SubsetInduction
<1> QED BY <1>2

\* Whichever is taken out of a total, it is what the others leave.
LEMMA TotalOut ==
  ASSUME NEW S, IsFiniteSet(S), NEW w, \A x \in S : w[x] \in Int
  PROVE  \A y \in S : Total(w, S) = w[y] + Total(w, S \ {y})
<1> DEFINE G == {s \in SUBSET S : \A y \in s : Total(w, s) = w[y] + Total(w, s \ {y})}
<1>1. ASSUME NEW s \in SUBSET S, \A x \in s : s \ {x} \in G, NEW y \in s
      PROVE  Total(w, s) = w[y] + Total(w, s \ {y})
  <2> DEFINE x == One(s)
  <2>1. \A t \in SUBSET S : Total(w, t) = IF t = {} THEN 0 ELSE w[One(t)] + Total(w, t \ {One(t)})
    BY TotalStep, FS_Subset
  <2>2. x \in s /\ s \ {x} \in G /\ s \ {y} \in G /\ Total(w, s) = w[x] + Total(w, s \ {x})
    BY <2>1, <1>1, OneIs
  <2> HIDE DEF x
  <2>3. CASE y = x
    BY <2>2, <2>3
  <2>4. CASE y # x
    <3>1. Total(w, s \ {y}) = w[x] + Total(w, (s \ {y}) \ {x})
      BY <2>2, <2>4
    <3>2. Total(w, s \ {x}) = w[y] + Total(w, (s \ {x}) \ {y})
      BY <2>2, <2>4
    <3>3. (s \ {x}) \ {y} = (s \ {y}) \ {x} /\ (s \ {x}) \ {y} \in SUBSET S
      OBVIOUS
    <3>4. w[x] \in Int /\ w[y] \in Int /\ Total(w, (s \ {x}) \ {y}) \in Int
      BY <2>2, <3>3, TotalInt
    <3>5. Total(w, s \ {y}) = w[x] + Total(w, (s \ {x}) \ {y})
      BY <3>1, <3>3
    <3>6. Total(w, s) = w[x] + Total(w, s \ {x})
      BY <2>2
    <3> QED BY <3>2, <3>4, <3>5, <3>6
  <2> QED BY <2>3, <2>4
<1>2. ASSUME NEW s \in SUBSET S, \A x \in s : s \ {x} \in G
      PROVE  s \in G
  BY <1>1, <1>2
<1>3. SUBSET S \subseteq G
  <2> HIDE DEF G
  <2> QED BY <1>2, SubsetInduction
<1> QED BY <1>3

\* No total of more is less.
LEMMA TotalMore ==
  ASSUME NEW S, IsFiniteSet(S), NEW w, NEW v,
         \A x \in S : w[x] \in Int /\ v[x] \in Int /\ w[x] <= v[x]
  PROVE  Total(w, S) <= Total(v, S)
<1> DEFINE G == {s \in SUBSET S : Total(w, s) <= Total(v, s)}
<1>1. ASSUME NEW s \in SUBSET S, \A x \in s : s \ {x} \in G
      PROVE  s \in G
  <2>1. /\ Total(w, s) = IF s = {} THEN 0 ELSE w[One(s)] + Total(w, s \ {One(s)})
        /\ Total(v, s) = IF s = {} THEN 0 ELSE v[One(s)] + Total(v, s \ {One(s)})
    BY TotalStep, FS_Subset
  <2>2. \A t \in SUBSET S : Total(w, t) \in Int /\ Total(v, t) \in Int
    BY TotalInt
  <2>3. s # {} => One(s) \in s
    BY OneIs
  <2> QED BY <2>1, <2>2, <2>3, <1>1
<1>2. SUBSET S \subseteq G
  <2> HIDE DEF G
  <2> QED BY <1>1, SubsetInduction
<1> QED BY <1>2

\* What changes elsewhere changes no total.
LEMMA TotalSame ==
  ASSUME NEW S, IsFiniteSet(S), NEW w, NEW v, \A x \in S : w[x] \in Int /\ v[x] = w[x]
  PROVE  Total(v, S) = Total(w, S)
<1>1. Total(w, S) <= Total(v, S) /\ Total(v, S) <= Total(w, S)
  BY TotalMore
<1>2. Total(w, S) \in Int /\ Total(v, S) \in Int
  BY TotalInt
<1> QED BY <1>1, <1>2
=============================================================================
