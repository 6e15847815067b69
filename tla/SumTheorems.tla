----------------------------- MODULE SumTheorems -----------------------------
(***************************************************************************)
(* Induction over numbers, and what sums over finite sets are: the facts   *)
(* that the proofs of the components share.                                *)
(***************************************************************************)
EXTENDS Sums, FiniteSetTheorems, WellFoundedInduction, TLAPS

LEMMA LeastElement ==
  ASSUME NEW S \in SUBSET Nat, S # {}
  PROVE  \E x \in S : \A y \in S : x <= y
<1>1. PICK x \in S : \A y \in S : ~(<<y, x>> \in OpToRel(<, Nat))
  BY NatLessThanWellFounded, WFMin
<1>2. \A y \in S : <<y, x>> \in Nat \X Nat /\ ~(y < x)
  BY <1>1 DEF OpToRel
<1>3. ASSUME NEW y \in S PROVE x <= y
  <2>1. x \in Nat /\ y \in Nat /\ ~(y < x)
    BY <1>2
  <2> QED BY <2>1
<1> QED BY <1>3

\* Induction, for the set of the numbers that have a property.
LEMMA SetInduction ==
  ASSUME NEW S, 0 \in S, \A n \in S \cap Nat : n + 1 \in S
  PROVE  Nat \subseteq S
<1> SUFFICES ASSUME Nat \ S # {} PROVE FALSE
  OBVIOUS
<1>1. PICK x \in Nat \ S : \A y \in Nat \ S : x <= y
  BY LeastElement
<1>2. x - 1 \in S /\ x - 1 \in Nat
  BY <1>1
<1> QED BY <1>1, <1>2

\* A finite set of numbers has a greatest.
LEMMA GreatestElement ==
  ASSUME NEW S \in SUBSET Nat, IsFiniteSet(S), S # {}
  PROVE  \E x \in S : \A y \in S : y <= x
<1> DEFINE HasGreatest(T) == T # {} => \E x \in T : \A y \in T : y <= x
           N == {n \in Nat : \A T \in SUBSET S : Cardinality(T) = n => HasGreatest(T)}
<1>0. \A T \in SUBSET S : IsFiniteSet(T) /\ Cardinality(T) \in Nat
  BY FS_Subset, FS_CardinalityType
<1>1. 0 \in N
  BY <1>0, FS_EmptySet
<1>2. ASSUME NEW n \in N \cap Nat PROVE n + 1 \in N
  <2> SUFFICES ASSUME NEW T \in SUBSET S, Cardinality(T) = n + 1, T # {}
               PROVE  \E x \in T : \A y \in T : y <= x
    OBVIOUS
  <2>1. PICK z \in T : TRUE
    OBVIOUS
  <2>2. T \ {z} \in SUBSET S /\ Cardinality(T \ {z}) = n
    <3>1. IsFiniteSet(T) /\ z \in T
      BY <1>0
    <3>2. Cardinality(T \ {z}) = Cardinality(T) - 1
      BY <3>1, FS_RemoveElement
    <3>3. Cardinality(T) = n + 1 /\ n \in Nat
      OBVIOUS
    <3> QED BY <3>2, <3>3
  <2>3. HasGreatest(T \ {z})
    BY <2>2
  <2>4. CASE T \ {z} = {}
    <3>1. \A y \in T : y <= z
      BY <2>4
    <3> QED BY <3>1
  <2>5. CASE T \ {z} # {}
    <3>1. PICK x \in T \ {z} : \A y \in T \ {z} : y <= x
      BY <2>3, <2>5
    <3>2. x \in Nat /\ z \in Nat /\ \A y \in T : y \in Nat
      OBVIOUS
    <3>3. CASE z <= x
      BY <3>1, <3>3
    <3>4. CASE x <= z
      <4>1. \A y \in T : y <= z
        BY <3>1, <3>2, <3>4
      <4> QED BY <4>1
    <3> QED BY <3>2, <3>3, <3>4
  <2> QED BY <2>4, <2>5
<1>3. Cardinality(S) \in N
  <2> HIDE DEF N
  <2> QED BY <1>0, <1>1, <1>2, SetInduction
<1> QED BY <1>3

LEMMA ImageFinite ==
  ASSUME NEW g, IsFiniteSet(DOMAIN g)
  PROVE  IsFiniteSet({g[x] : x \in DOMAIN g})
<1> DEFINE h == [x \in DOMAIN g |-> g[x]]
           T == {g[x] : x \in DOMAIN g}
<1>1. h \in Surjection(DOMAIN g, T)
  BY DEF Surjection
<1> HIDE DEF h, T
<1>2. IsFiniteSet(T)
  BY <1>1, FS_Surjection
<1> QED BY <1>2 DEF T

\* out is the recursive function over 0..n with this start and these steps.
IsRecursion(out, n, first, step) ==
  out = [i \in 0..n |-> IF i = 0 THEN first ELSE step[<<i, out[i - 1]>>]]

\* It exists, when the steps stay in V.
LEMMA RecursionExists ==
  ASSUME NEW n \in Nat, NEW V, NEW first \in V, NEW step \in [(1..n) \X V -> V]
  PROVE  \E out \in [0..n -> V] : IsRecursion(out, n, first, step)
<1> DEFINE Up(out, m) == \A i \in 0..n : i <= m => out[i] = IF i = 0 THEN first ELSE step[<<i, out[i - 1]>>]
           S == {m \in Nat : \E out \in [0..n -> V] : Up(out, m)}
<1>1. 0 \in S
  <2> DEFINE out == [i \in 0..n |-> first]
  <2>1. out \in [0..n -> V]
    OBVIOUS
  <2>2. Up(out, 0)
    OBVIOUS
  <2> HIDE DEF Up, out
  <2> QED BY <2>1, <2>2
<1>2. ASSUME NEW m \in S \cap Nat PROVE m + 1 \in S
  <2>1. PICK out \in [0..n -> V] : Up(out, m)
    OBVIOUS
  <2> DEFINE next == [i \in 0..n |-> IF i = m + 1 THEN step[<<i, out[i - 1]>>] ELSE out[i]]
  <2>2. next \in [0..n -> V]
    <3>1. ASSUME NEW i \in 0..n, i = m + 1 PROVE step[<<i, out[i - 1]>>] \in V
      <4>1. i \in 1..n /\ i - 1 \in 0..n
        BY <3>1
      <4>2. <<i, out[i - 1]>> \in (1..n) \X V
        BY <4>1
      <4> QED BY <4>2
    <3> QED BY <3>1
  <2>3. ASSUME NEW i \in 0..n, i <= m + 1
        PROVE  next[i] = IF i = 0 THEN first ELSE step[<<i, next[i - 1]>>]
    <3>1. CASE i = 0
      <4>1. next[i] = out[i]
        BY <3>1
      <4> QED BY <2>1, <3>1, <4>1
    <3>2. CASE i # 0
      <4>1. i - 1 \in 0..n /\ i - 1 # m + 1
        BY <2>3, <3>2
      <4>2. next[i - 1] = out[i - 1]
        BY <4>1
      <4>3. next[i] = step[<<i, out[i - 1]>>]
        <5>1. CASE i = m + 1
          BY <5>1
        <5>2. CASE i # m + 1
          <6>1. i <= m
            BY <2>3, <5>2
          <6> QED BY <2>1, <3>2, <5>2, <6>1
        <5> QED BY <5>1, <5>2
      <4> HIDE DEF next
      <4> QED BY <3>2, <4>2, <4>3
    <3> QED BY <3>1, <3>2
  <2>4. Up(next, m + 1)
    <3> HIDE DEF next
    <3> QED BY <2>3
  <2> HIDE DEF Up, next
  <2> QED BY <2>2, <2>4
<1>3. n \in S
  <2> HIDE DEF S
  <2> QED BY <1>1, <1>2, SetInduction
<1>4. PICK out \in [0..n -> V] : Up(out, n)
  BY <1>3
<1>5. \A i \in 0..n : out[i] = IF i = 0 THEN first ELSE step[<<i, out[i - 1]>>]
  BY <1>4
<1>6. out = [i \in 0..n |-> out[i]]
  OBVIOUS
<1> QED BY <1>5, <1>6 DEF IsRecursion

------------------------------------------------------------------------------
(***************************************************************************)
(* The fold behind a sum.                                                  *)
(***************************************************************************)
Pick(s) == CHOOSE x \in s : TRUE

\* The sum of s, when it has those of smaller sets.
Body(it, f, s) == IF s = {} THEN 0 ELSE f[Pick(s)] + it[s \ {Pick(s)}]

\* it has the sums of all subsets of the domain of f.
IsIter(it, f) == it = [s \in SUBSET DOMAIN f |-> Body(it, f, s)]

LEMMA PickIn == ASSUME NEW s, s # {} PROVE Pick(s) \in s
BY DEF Pick

LEMMA SmallerSet ==
  ASSUME NEW S, IsFiniteSet(S), NEW s \in SUBSET S, s # {}
  PROVE  /\ Pick(s) \in s /\ s \ {Pick(s)} \in SUBSET S
         /\ IsFiniteSet(s) /\ Cardinality(s) \in Nat \ {0}
         /\ Cardinality(s \ {Pick(s)}) = Cardinality(s) - 1
<1>1. Pick(s) \in s
  BY PickIn
<1>2. IsFiniteSet(s) /\ Cardinality(s) \in Nat
  BY FS_Subset, FS_CardinalityType
<1>3. Cardinality(s) # 0
  BY <1>2, FS_EmptySet
<1>4. Cardinality(s \ {Pick(s)}) = Cardinality(s) - 1
  BY <1>1, <1>2, FS_RemoveElement
<1> QED BY <1>1, <1>2, <1>3, <1>4

LEMMA IterExists ==
  ASSUME NEW f, IsFiniteSet(DOMAIN f)
  PROVE  \E it : IsIter(it, f)
<1> DEFINE S == DOMAIN f
           UpTo(it, n) == \A s \in SUBSET S : Cardinality(s) <= n => it[s] = Body(it, f, s)
           N == {n \in Nat : \E it : it = [s \in SUBSET S |-> it[s]] /\ UpTo(it, n)}
<1>0. \A s \in SUBSET S : Cardinality(s) \in Nat /\ (Cardinality(s) = 0 <=> s = {})
  BY FS_Subset, FS_CardinalityType, FS_EmptySet
<1>1. 0 \in N
  <2> DEFINE it == [s \in SUBSET S |-> 0]
  <2>1. ASSUME NEW s \in SUBSET S, Cardinality(s) <= 0 PROVE it[s] = Body(it, f, s)
    <3>1. s = {}
      BY <1>0, <2>1
    <3> QED BY <3>1 DEF Body
  <2>2. it = [s \in SUBSET S |-> it[s]]
    OBVIOUS
  <2> HIDE DEF it
  <2> QED BY <2>1, <2>2
<1>2. ASSUME NEW n \in N \cap Nat PROVE n + 1 \in N
  <2>1. PICK it : it = [s \in SUBSET S |-> it[s]] /\ UpTo(it, n)
    OBVIOUS
  <2> DEFINE jt == [s \in SUBSET S |-> IF Cardinality(s) = n + 1 THEN Body(it, f, s) ELSE it[s]]
  <2>2. ASSUME NEW s \in SUBSET S, Cardinality(s) <= n + 1 PROVE jt[s] = Body(jt, f, s)
    <3>1. jt[s] = Body(it, f, s)
      <4>1. CASE Cardinality(s) = n + 1
        BY <4>1
      <4>2. CASE Cardinality(s) # n + 1
        <5>1. Cardinality(s) <= n
          BY <1>0, <2>2, <4>2
        <5> QED BY <2>1, <4>2, <5>1
      <4> QED BY <4>1, <4>2
    <3>2. Body(jt, f, s) = Body(it, f, s)
      <4>1. CASE s = {}
        BY <4>1 DEF Body
      <4>2. CASE s # {}
        <5>1. /\ s \ {Pick(s)} \in SUBSET S
              /\ Cardinality(s \ {Pick(s)}) = Cardinality(s) - 1
              /\ Cardinality(s) \in Nat
          BY <4>2, SmallerSet
        <5>2. Cardinality(s \ {Pick(s)}) # n + 1
          BY <2>2, <5>1
        <5>3. jt[s \ {Pick(s)}] = it[s \ {Pick(s)}]
          BY <5>1, <5>2
        <5> HIDE DEF jt
        <5> QED BY <5>3 DEF Body
      <4> QED BY <4>1, <4>2
    <3> QED BY <3>1, <3>2
  <2>3. jt = [s \in SUBSET S |-> jt[s]]
    OBVIOUS
  <2> HIDE DEF jt
  <2>4. UpTo(jt, n + 1)
    BY <2>2
  <2> HIDE DEF UpTo
  <2> QED BY <2>3, <2>4
<1>3. Cardinality(S) \in Nat
  BY FS_CardinalityType
<1>4. Cardinality(S) \in N
  <2> HIDE DEF N
  <2> QED BY <1>1, <1>2, <1>3, SetInduction
<1>5. PICK it : it = [s \in SUBSET S |-> it[s]] /\ UpTo(it, Cardinality(S))
  BY <1>4
<1>6. \A s \in SUBSET S : Cardinality(s) <= Cardinality(S)
  BY FS_Subset
<1>7. \A s \in SUBSET S : it[s] = Body(it, f, s)
  BY <1>5, <1>6
<1>8. it = [s \in SUBSET S |-> Body(it, f, s)]
  BY <1>5, <1>7
<1> QED BY <1>8 DEF IsIter

\* The sums of subsets.
Iter(f) == CHOOSE it : IsIter(it, f)

LEMMA SumIsIter ==
  ASSUME NEW f PROVE SumOver(f) = Iter(f)[DOMAIN f]
BY DEF SumOver, MapThenFoldSet, Iter, IsIter, Body, Pick

LEMMA IterIs ==
  ASSUME NEW f, IsFiniteSet(DOMAIN f), NEW s \in SUBSET DOMAIN f
  PROVE  Iter(f)[s] = Body(Iter(f), f, s)
<1>1. IsIter(Iter(f), f)
  BY IterExists DEF Iter
<1>2. Iter(f) = [t \in SUBSET DOMAIN f |-> Body(Iter(f), f, t)]
  BY <1>1 DEF IsIter
<1> QED BY <1>2

\* What depends on the size of a subset of S only: induction over it.
LEMMA SizeInduction ==
  ASSUME NEW S, IsFiniteSet(S), NEW P,
         \A n \in Nat : (\A s \in SUBSET S : Cardinality(s) < n => s \in P)
                          => \A s \in SUBSET S : Cardinality(s) = n => s \in P
  PROVE  SUBSET S \subseteq P
<1> DEFINE N == {n \in Nat : \A s \in SUBSET S : Cardinality(s) < n => s \in P}
<1>0. \A s \in SUBSET S : Cardinality(s) \in Nat
  BY FS_Subset, FS_CardinalityType
<1>1. 0 \in N
  BY <1>0
<1>2. ASSUME NEW n \in N \cap Nat PROVE n + 1 \in N
  <2>1. \A s \in SUBSET S : Cardinality(s) = n => s \in P
    OBVIOUS
  <2>2. ASSUME NEW s \in SUBSET S, Cardinality(s) < n + 1 PROVE s \in P
    <3>1. Cardinality(s) = n \/ Cardinality(s) < n
      BY <1>0, <2>2
    <3> QED BY <2>1, <3>1
  <2> QED BY <2>2
<1> SUFFICES ASSUME NEW s \in SUBSET S PROVE s \in P
  OBVIOUS
<1>3. Cardinality(s) + 1 \in Nat /\ Cardinality(s) < Cardinality(s) + 1
  BY <1>0
<1>4. Cardinality(s) + 1 \in N
  <2> HIDE DEF N
  <2> QED BY <1>1, <1>2, <1>3, SetInduction
<1> QED BY <1>3, <1>4

LEMMA IterEmpty ==
  ASSUME NEW f, IsFiniteSet(DOMAIN f) PROVE Iter(f)[{}] = 0
<1>1. Iter(f)[{}] = Body(Iter(f), f, {})
  BY IterIs
<1> QED BY <1>1 DEF Body

LEMMA IterStep ==
  ASSUME NEW f, IsFiniteSet(DOMAIN f), NEW s \in SUBSET DOMAIN f, s # {}
  PROVE  Iter(f)[s] = f[Pick(s)] + Iter(f)[s \ {Pick(s)}]
<1>1. Iter(f)[s] = Body(Iter(f), f, s)
  BY IterIs
<1> QED BY <1>1 DEF Body

LEMMA IterInt ==
  ASSUME NEW S, IsFiniteSet(S), NEW f \in [S -> Int]
  PROVE  \A s \in SUBSET S : Iter(f)[s] \in Int
<1> DEFINE P == {s \in SUBSET S : Iter(f)[s] \in Int}
<1>1. ASSUME NEW n \in Nat, \A s \in SUBSET S : Cardinality(s) < n => s \in P,
             NEW s \in SUBSET S, Cardinality(s) = n
      PROVE  s \in P
  <2>1. CASE s = {}
    BY <2>1, IterEmpty
  <2>2. CASE s # {}
    <3>1. /\ Pick(s) \in S /\ s \ {Pick(s)} \in SUBSET S
          /\ Cardinality(s \ {Pick(s)}) < n
      BY <1>1, <2>2, SmallerSet
    <3>2. s \ {Pick(s)} \in P
      BY <1>1, <3>1
    <3>3. f[Pick(s)] \in Int /\ Iter(f)[s \ {Pick(s)}] \in Int
      BY <3>1, <3>2
    <3>4. Iter(f)[s] = f[Pick(s)] + Iter(f)[s \ {Pick(s)}]
      BY <2>2, IterStep
    <3> QED BY <3>3, <3>4
  <2> QED BY <2>1, <2>2
<1>2. SUBSET S \subseteq P
  <2> HIDE DEF P
  <2> QED BY <1>1, SizeInduction
<1> QED BY <1>2

\* The sum of a subset is the same in every function that agrees on it.
LEMMA IterAgrees ==
  ASSUME NEW f, IsFiniteSet(DOMAIN f), NEW S \in SUBSET DOMAIN f,
         NEW g, DOMAIN g = S, \A x \in S : g[x] = f[x]
  PROVE  \A s \in SUBSET S : Iter(g)[s] = Iter(f)[s]
<1> DEFINE P == {s \in SUBSET S : Iter(g)[s] = Iter(f)[s]}
<1>0. IsFiniteSet(S)
  BY FS_Subset
<1>1. ASSUME NEW n \in Nat, \A s \in SUBSET S : Cardinality(s) < n => s \in P,
             NEW s \in SUBSET S, Cardinality(s) = n
      PROVE  s \in P
  <2>1. CASE s = {}
    BY <1>0, <2>1, IterEmpty
  <2>2. CASE s # {}
    <3>1. /\ Pick(s) \in S /\ s \ {Pick(s)} \in SUBSET S
          /\ Cardinality(s \ {Pick(s)}) < n
      BY <1>0, <1>1, <2>2, SmallerSet
    <3>2. Iter(g)[s \ {Pick(s)}] = Iter(f)[s \ {Pick(s)}]
      BY <1>1, <3>1
    <3>3. /\ Iter(f)[s] = f[Pick(s)] + Iter(f)[s \ {Pick(s)}]
          /\ Iter(g)[s] = g[Pick(s)] + Iter(g)[s \ {Pick(s)}]
      BY <1>0, <2>2, IterStep
    <3> QED BY <3>1, <3>2, <3>3
  <2> QED BY <2>1, <2>2
<1>2. SUBSET S \subseteq P
  <2>1. \A n \in Nat : (\A s \in SUBSET S : Cardinality(s) < n => s \in P)
                          => \A s \in SUBSET S : Cardinality(s) = n => s \in P
    BY <1>1
  <2> HIDE DEF P
  <2>2. IsFiniteSet(S)
    BY <1>0
  <2> QED BY ONLY <2>2, <2>1, SizeInduction
<1> QED BY <1>2

\* The order in which the elements are taken does not matter.
LEMMA IterRemove ==
  ASSUME NEW S, IsFiniteSet(S), NEW f \in [S -> Int]
  PROVE  \A s \in SUBSET S : \A x \in s : Iter(f)[s] = f[x] + Iter(f)[s \ {x}]
<1> DEFINE P == {s \in SUBSET S : \A x \in s : Iter(f)[s] = f[x] + Iter(f)[s \ {x}]}
<1>1. ASSUME NEW n \in Nat, \A s \in SUBSET S : Cardinality(s) < n => s \in P,
             NEW s \in SUBSET S, Cardinality(s) = n, NEW x \in s
      PROVE  Iter(f)[s] = f[x] + Iter(f)[s \ {x}]
  <2> DEFINE p == Pick(s)
  <2>1. /\ p \in s /\ s \ {p} \in SUBSET S /\ IsFiniteSet(s) /\ Cardinality(s) \in Nat
        /\ Cardinality(s \ {p}) = Cardinality(s) - 1
    BY SmallerSet
  <2>2. Iter(f)[s] = f[p] + Iter(f)[s \ {p}]
    BY IterStep
  <2>3. CASE x = p
    BY <2>2, <2>3
  <2>4. CASE x # p
    <3>1. s \ {x} \in SUBSET S /\ Cardinality(s \ {x}) = Cardinality(s) - 1
      BY <2>1, FS_RemoveElement
    <3>2. s \ {p} \in P /\ s \ {x} \in P
      BY <1>1, <2>1, <3>1
    <3>3. /\ Iter(f)[s \ {p}] = f[x] + Iter(f)[(s \ {p}) \ {x}]
          /\ Iter(f)[s \ {x}] = f[p] + Iter(f)[(s \ {x}) \ {p}]
      BY <2>1, <2>4, <3>2
    <3>4. (s \ {x}) \ {p} = (s \ {p}) \ {x} /\ (s \ {p}) \ {x} \in SUBSET S
      OBVIOUS
    <3> DEFINE r == (s \ {p}) \ {x}
    <3>5. Iter(f)[r] \in Int /\ f[x] \in Int /\ f[p] \in Int
      BY <2>1, <3>4, IterInt
    <3>6. Iter(f)[s \ {p}] = f[x] + Iter(f)[r] /\ Iter(f)[s \ {x}] = f[p] + Iter(f)[r]
      BY <3>3, <3>4
    <3> HIDE DEF p, r
    <3> QED BY <2>2, <3>5, <3>6
  <2> QED BY <2>3, <2>4
<1>2. SUBSET S \subseteq P
  <2>1. \A n \in Nat : (\A s \in SUBSET S : Cardinality(s) < n => s \in P)
                          => \A s \in SUBSET S : Cardinality(s) = n => s \in P
    BY <1>1
  <2> HIDE DEF P
  <2> QED BY <2>1, SizeInduction
<1> QED BY <1>2

------------------------------------------------------------------------------
(***************************************************************************)
(* Sums.                                                                   *)
(***************************************************************************)
SumIn(f, S) == SumOver([x \in S |-> f[x]])

LEMMA SumInIsIter ==
  ASSUME NEW S, IsFiniteSet(S), NEW f, DOMAIN f = S, NEW T \in SUBSET S
  PROVE  SumIn(f, T) = Iter(f)[T]
<1> DEFINE g == [x \in T |-> f[x]]
<1>1. SumOver(g) = Iter(g)[T]
  BY SumIsIter
<1>2. DOMAIN g = T /\ \A x \in T : g[x] = f[x]
  OBVIOUS
<1> HIDE DEF g
<1>3. Iter(g)[T] = Iter(f)[T]
  BY <1>2, IterAgrees
<1> QED BY <1>1, <1>3 DEF g, SumIn

LEMMA SumEmpty == ASSUME NEW f, DOMAIN f = {} PROVE SumOver(f) = 0
<1>1. IsFiniteSet(DOMAIN f)
  BY FS_EmptySet
<1> QED BY <1>1, SumIsIter, IterEmpty

LEMMA SumInt ==
  ASSUME NEW S, IsFiniteSet(S), NEW f \in [S -> Int]
  PROVE  SumOver(f) \in Int
BY SumIsIter, IterInt

\* One element taken out.
LEMMA SumRemove ==
  ASSUME NEW S, IsFiniteSet(S), NEW f \in [S -> Int], NEW x \in S
  PROVE  SumOver(f) = f[x] + SumOver([y \in S \ {x} |-> f[y]])
<1>1. SumOver(f) = Iter(f)[S] /\ S \in SUBSET S
  BY SumIsIter
<1>3. Iter(f)[S] = f[x] + Iter(f)[S \ {x}]
  BY <1>1, IterRemove
<1>2. SumIn(f, S \ {x}) = Iter(f)[S \ {x}]
  BY SumInIsIter
<1> QED BY <1>1, <1>2, <1>3 DEF SumIn

\* One element more.
LEMMA SumAdd ==
  ASSUME NEW S, IsFiniteSet(S), NEW x, x \notin S, NEW f, \A y \in S \cup {x} : f[y] \in Int
  PROVE  SumIn(f, S \cup {x}) = f[x] + SumIn(f, S)
<1> DEFINE g == [y \in S \cup {x} |-> f[y]]
<1>1. IsFiniteSet(S \cup {x})
  BY FS_AddElement
<1>2. g \in [S \cup {x} -> Int]
  OBVIOUS
<1>3. SumOver(g) = g[x] + SumOver([y \in (S \cup {x}) \ {x} |-> g[y]])
  <2> HIDE DEF g
  <2> QED BY <1>1, <1>2, SumRemove
<1>4. [y \in (S \cup {x}) \ {x} |-> g[y]] = [y \in S |-> f[y]]
  OBVIOUS
<1>5. g[x] = f[x]
  OBVIOUS
<1> QED BY <1>3, <1>4, <1>5 DEF SumIn

LEMMA SumInInt ==
  ASSUME NEW S, IsFiniteSet(S), NEW f, \A x \in S : f[x] \in Int
  PROVE  SumIn(f, S) \in Int
<1>1. [x \in S |-> f[x]] \in [S -> Int]
  OBVIOUS
<1> QED BY <1>1, SumInt DEF SumIn

\* A sum is one of the values, added in another order.
LEMMA SumBijection ==
  ASSUME NEW S, IsFiniteSet(S), NEW T, NEW b \in Bijection(S, T), NEW f \in [T -> Int]
  PROVE  SumOver([x \in S |-> f[b[x]]]) = SumOver(f)
<1> DEFINE g == [x \in S |-> f[b[x]]]
           Image(s) == {b[x] : x \in s}
           P == {s \in SUBSET S : Iter(g)[s] = Iter(f)[Image(s)]}
<1>1. /\ b \in [S -> T] /\ IsFiniteSet(T)
      /\ \A x, y \in S : b[x] = b[y] => x = y
      /\ \A t \in T : \E x \in S : b[x] = t
  <2>1. b \in Injection(S, T) /\ b \in Surjection(S, T)
    BY DEF Bijection
  <2>2. IsFiniteSet(T)
    BY FS_Bijection DEF ExistsBijection
  <2> QED BY <2>1, <2>2 DEF Injection, Surjection, IsInjective
<1>2. g \in [S -> Int] /\ \A x \in S : g[x] = f[b[x]]
  BY <1>1
<1> HIDE DEF g
<1>3. ASSUME NEW n \in Nat, \A s \in SUBSET S : Cardinality(s) < n => s \in P,
             NEW s \in SUBSET S, Cardinality(s) = n
      PROVE  s \in P
  <2>1. CASE s = {}
    <3>1. Image(s) = {}
      BY <2>1
    <3>2. Iter(g)[{}] = 0 /\ Iter(f)[{}] = 0
      BY <1>1, <1>2, IterEmpty
    <3> QED BY <2>1, <3>1, <3>2
  <2>2. CASE s # {}
    <3> DEFINE p == Pick(s)
    <3>1. p \in s /\ s \ {p} \in SUBSET S /\ Cardinality(s \ {p}) < n
      BY <1>3, <2>2, SmallerSet
    <3>2. Iter(g)[s \ {p}] = Iter(f)[Image(s \ {p})]
      BY <1>3, <3>1
    <3>3. Iter(g)[s] = g[p] + Iter(g)[s \ {p}]
      <4> HIDE DEF p
      <4> QED BY <1>2, <3>1, IterRemove
    <3>4. Image(s) \in SUBSET T /\ b[p] \in Image(s) /\ Image(s) \ {b[p]} = Image(s \ {p})
      BY <1>1, <3>1
    <3>5. Iter(f)[Image(s)] = f[b[p]] + Iter(f)[Image(s) \ {b[p]}]
      <4> HIDE DEF Image, p
      <4> QED BY <1>1, <3>4, IterRemove
    <3>6. Iter(f)[Image(s)] = f[b[p]] + Iter(f)[Image(s \ {p})]
      BY <3>4, <3>5
    <3>7. g[p] = f[b[p]]
      BY <1>2, <3>1
    <3> HIDE DEF Image, p
    <3> QED BY <3>2, <3>3, <3>6, <3>7
  <2> QED BY <2>1, <2>2
<1>4. SUBSET S \subseteq P
  <2>1. \A n \in Nat : (\A s \in SUBSET S : Cardinality(s) < n => s \in P)
                          => \A s \in SUBSET S : Cardinality(s) = n => s \in P
    BY <1>3
  <2> HIDE DEF P
  <2> QED BY ONLY IsFiniteSet(S), <2>1, SizeInduction
<1>5. Image(S) = T
  BY <1>1
<1>6. Iter(g)[S] = Iter(f)[T]
  BY <1>4, <1>5
<1>7. SumOver(g) = Iter(g)[S] /\ SumOver(f) = Iter(f)[T]
  BY <1>2, SumIsIter
<1> QED BY <1>6, <1>7 DEF g

\* A cardinality is a sum.
LEMMA SumOfOnes ==
  ASSUME NEW S, IsFiniteSet(S)
  PROVE  \A s \in SUBSET S : Iter([x \in S |-> 1])[s] = Cardinality(s)
<1> DEFINE g == [x \in S |-> 1]
           P == {s \in SUBSET S : Iter(g)[s] = Cardinality(s)}
<1>1. DOMAIN g = S /\ \A x \in S : g[x] = 1
  OBVIOUS
<1> HIDE DEF g
<1>2. ASSUME NEW n \in Nat, \A s \in SUBSET S : Cardinality(s) < n => s \in P,
             NEW s \in SUBSET S, Cardinality(s) = n
      PROVE  s \in P
  <2>1. CASE s = {}
    BY <1>1, <2>1, IterEmpty, FS_EmptySet
  <2>2. CASE s # {}
    <3>1. /\ Pick(s) \in s /\ s \ {Pick(s)} \in SUBSET S
          /\ Cardinality(s) \in Nat /\ Cardinality(s \ {Pick(s)}) = Cardinality(s) - 1
      BY <2>2, SmallerSet
    <3>2. Iter(g)[s \ {Pick(s)}] = Cardinality(s) - 1
      BY <1>2, <3>1
    <3>3. Iter(g)[s] = g[Pick(s)] + Iter(g)[s \ {Pick(s)}]
      BY <1>1, <2>2, IterStep
    <3>4. g[Pick(s)] = 1
      BY <1>1, <3>1
    <3> QED BY <3>1, <3>2, <3>3, <3>4
  <2> QED BY <2>1, <2>2
<1>3. SUBSET S \subseteq P
  <2>1. \A n \in Nat : (\A s \in SUBSET S : Cardinality(s) < n => s \in P)
                          => \A s \in SUBSET S : Cardinality(s) = n => s \in P
    BY <1>2
  <2> HIDE DEF P
  <2> QED BY ONLY IsFiniteSet(S), <2>1, SizeInduction
<1> QED BY <1>3 DEF g

\* A sum may be made class by class.
LEMMA SumByClass ==
  ASSUME NEW S, IsFiniteSet(S), NEW T, IsFiniteSet(T), NEW b \in [S -> T], NEW f \in [S -> Int]
  PROVE  SumOver([t \in T |-> SumIn(f, {x \in S : b[x] = t})]) = SumOver(f)
<1> DEFINE Class(s, t) == {x \in s : b[x] = t}
           Sums(s) == [t \in T |-> Iter(f)[Class(s, t)]]
           P == {s \in SUBSET S : SumOver(Sums(s)) = Iter(f)[s]}
<1>1. \A s \in SUBSET S : Iter(f)[s] \in Int
  BY IterInt
<1>2. \A s \in SUBSET S, t \in T : Class(s, t) \in SUBSET S
  OBVIOUS
<1>3. \A s \in SUBSET S : Sums(s) \in [T -> Int]
  BY <1>1, <1>2
<1>4. ASSUME NEW n \in Nat, \A s \in SUBSET S : Cardinality(s) < n => s \in P,
             NEW s \in SUBSET S, Cardinality(s) = n
      PROVE  s \in P
  <2>1. CASE s = {}
    <3>1. Iter(f)[{}] = 0 /\ \A t \in T : Class(s, t) = {}
      BY <2>1, IterEmpty
    <3>2. \A t \in T : Sums(s)[t] = 0
      BY <3>1
    <3> DEFINE z == Sums(s)
               Z == {u \in SUBSET T : Iter(z)[u] = 0}
    <3>3. z \in [T -> Int] /\ \A t \in T : z[t] = 0
      BY <1>3, <3>2
    <3> HIDE DEF z
    <3>4. ASSUME NEW m \in Nat, \A u \in SUBSET T : Cardinality(u) < m => u \in Z,
                 NEW u \in SUBSET T, Cardinality(u) = m
          PROVE  u \in Z
      <4>1. CASE u = {}
        BY <3>3, <4>1, IterEmpty
      <4>2. CASE u # {}
        <5>1. Pick(u) \in u /\ u \ {Pick(u)} \in SUBSET T /\ Cardinality(u \ {Pick(u)}) < m
          BY <3>4, <4>2, SmallerSet
        <5>2. Iter(z)[u] = z[Pick(u)] + Iter(z)[u \ {Pick(u)}]
          BY <3>3, <4>2, IterStep
        <5>3. Iter(z)[u \ {Pick(u)}] = 0
          BY <3>4, <5>1
        <5> QED BY <3>3, <5>1, <5>2, <5>3
      <4> QED BY <4>1, <4>2
    <3>5. SUBSET T \subseteq Z
      <4>1. \A m \in Nat : (\A u \in SUBSET T : Cardinality(u) < m => u \in Z)
                              => \A u \in SUBSET T : Cardinality(u) = m => u \in Z
        BY <3>4
      <4> HIDE DEF Z
      <4> QED BY ONLY IsFiniteSet(T), <4>1, SizeInduction
    <3>6. SumOver(z) = Iter(z)[T]
      BY <3>3, SumIsIter
    <3>7. SumOver(z) = 0
      BY <3>5, <3>6
    <3> QED BY <2>1, <3>1, <3>7 DEF z
  <2>2. CASE s # {}
    <3> DEFINE p == Pick(s)
               r == s \ {p}
               u == b[p]
    <3>1. p \in s /\ r \in SUBSET S /\ Cardinality(r) < n /\ u \in T
      BY <1>4, <2>2, SmallerSet
    <3>2. Iter(f)[s] = f[p] + Iter(f)[r]
      BY <3>1, IterRemove
    <3>3. SumOver(Sums(r)) = Iter(f)[r]
      BY <1>4, <3>1
    <3>4. ASSUME NEW t \in T \ {u} PROVE Sums(s)[t] = Sums(r)[t]
      <4>1. Class(s, t) = Class(r, t)
        BY <3>1
      <4> QED BY <4>1
    <3>5. Sums(s)[u] = f[p] + Sums(r)[u]
      <4>1. Class(s, u) \in SUBSET S /\ p \in Class(s, u) /\ Class(s, u) \ {p} = Class(r, u)
        BY <3>1
      <4> DEFINE c == Class(s, u)
      <4> HIDE DEF c, p
      <4>2. Iter(f)[c] = f[p] + Iter(f)[c \ {p}]
        BY <4>1, IterRemove DEF c
      <4> QED BY <3>1, <4>1, <4>2 DEF c
    <3> DEFINE g == Sums(s)
               h == Sums(r)
    <3>6. g \in [T -> Int] /\ h \in [T -> Int]
      BY <1>3, <3>1
    <3>7. g[u] = f[p] + h[u] /\ \A t \in T \ {u} : g[t] = h[t]
      BY <3>4, <3>5
    <3>8. SumOver(h) = Iter(f)[r]
      BY <3>3
    <3> HIDE DEF g, h, u, p, r
    <3>9. /\ SumOver(g) = g[u] + SumOver([t \in T \ {u} |-> g[t]])
          /\ SumOver(h) = h[u] + SumOver([t \in T \ {u} |-> h[t]])
      <4>1. ASSUME NEW k \in [T -> Int] PROVE SumOver(k) = k[u] + SumOver([t \in T \ {u} |-> k[t]])
        BY ONLY <3>1, SumRemove, IsFiniteSet(T), k \in [T -> Int]
      <4> QED BY <3>6, <4>1
    <3>10. [t \in T \ {u} |-> g[t]] = [t \in T \ {u} |-> h[t]]
      BY <3>7
    <3>11. SumOver([t \in T \ {u} |-> h[t]]) \in Int /\ f[p] \in Int /\ h[u] \in Int
      <4>1. IsFiniteSet(T \ {u}) /\ [t \in T \ {u} |-> h[t]] \in [T \ {u} -> Int]
        BY <3>6, FS_Subset
      <4>2. SumOver([t \in T \ {u} |-> h[t]]) \in Int
        BY <4>1, SumInt
      <4> QED BY <3>1, <3>6, <4>2
    <3>12. SumOver(g) = Iter(f)[s]
      BY <3>2, <3>7, <3>8, <3>9, <3>10, <3>11
    <3> QED BY <3>12 DEF g
  <2> QED BY <2>1, <2>2
<1>5. SUBSET S \subseteq P
  <2>1. \A n \in Nat : (\A s \in SUBSET S : Cardinality(s) < n => s \in P)
                          => \A s \in SUBSET S : Cardinality(s) = n => s \in P
    BY <1>4
  <2> HIDE DEF P
  <2> QED BY ONLY IsFiniteSet(S), <2>1, SizeInduction
<1>6. SumOver(Sums(S)) = Iter(f)[S]
  BY <1>5
<1>7. \A t \in T : SumIn(f, {x \in S : b[x] = t}) = Iter(f)[Class(S, t)]
  BY SumInIsIter
<1>8. Sums(S) = [t \in T |-> SumIn(f, {x \in S : b[x] = t})]
  BY <1>7
<1>9. SumOver(f) = Iter(f)[S]
  BY SumIsIter
<1> QED BY <1>6, <1>8, <1>9

\* Elements counted class by class.
LEMMA CountByClass ==
  ASSUME NEW S, IsFiniteSet(S), NEW T, IsFiniteSet(T), NEW b \in [S -> T]
  PROVE  SumOver([t \in T |-> Cardinality({x \in S : b[x] = t})]) = Cardinality(S)
<1> DEFINE g == [x \in S |-> 1]
<1>1. g \in [S -> Int] /\ DOMAIN g = S
  OBVIOUS
<1>2. \A s \in SUBSET S : Iter(g)[s] = Cardinality(s)
  BY SumOfOnes
<1> HIDE DEF g
<1>3. \A s \in SUBSET S : SumIn(g, s) = Cardinality(s)
  BY <1>1, <1>2, SumInIsIter
<1>4. SumOver(g) = Cardinality(S)
  BY <1>1, <1>2, SumIsIter
<1>5. SumOver([t \in T |-> SumIn(g, {x \in S : b[x] = t})]) = SumOver(g)
  BY <1>1, SumByClass
<1>6. \A t \in T : SumIn(g, {x \in S : b[x] = t}) = Cardinality({x \in S : b[x] = t})
  BY <1>3
<1> QED BY <1>4, <1>5, <1>6

\* Where one addend is no less than another, so is the sum.
LEMMA SumMonotone ==
  ASSUME NEW S, IsFiniteSet(S), NEW f \in [S -> Int], NEW g \in [S -> Int],
         \A x \in S : f[x] <= g[x]
  PROVE  SumOver(f) <= SumOver(g)
<1> DEFINE P == {s \in SUBSET S : Iter(f)[s] <= Iter(g)[s]}
<1>1. ASSUME NEW n \in Nat, \A s \in SUBSET S : Cardinality(s) < n => s \in P,
             NEW s \in SUBSET S, Cardinality(s) = n
      PROVE  s \in P
  <2>1. CASE s = {}
    <3>1. Iter(f)[{}] = 0 /\ Iter(g)[{}] = 0
      BY IterEmpty
    <3> QED BY <2>1, <3>1
  <2>2. CASE s # {}
    <3> DEFINE p == Pick(s)
    <3>1. p \in s /\ s \ {p} \in SUBSET S /\ Cardinality(s \ {p}) < n
      BY <1>1, <2>2, SmallerSet
    <3>2. Iter(f)[s \ {p}] <= Iter(g)[s \ {p}]
      BY <1>1, <3>1
    <3>3. Iter(f)[s] = f[p] + Iter(f)[s \ {p}] /\ Iter(g)[s] = g[p] + Iter(g)[s \ {p}]
      BY <2>2, IterStep
    <3>4. Iter(f)[s \ {p}] \in Int /\ Iter(g)[s \ {p}] \in Int
      BY <3>1, IterInt
    <3>5. f[p] \in Int /\ g[p] \in Int /\ f[p] <= g[p]
      BY <3>1
    <3> HIDE DEF p
    <3> QED BY <3>2, <3>3, <3>4, <3>5
  <2> QED BY <2>1, <2>2
<1>2. SUBSET S \subseteq P
  <2>1. \A n \in Nat : (\A s \in SUBSET S : Cardinality(s) < n => s \in P)
                          => \A s \in SUBSET S : Cardinality(s) = n => s \in P
    BY <1>1
  <2> HIDE DEF P
  <2> QED BY ONLY IsFiniteSet(S), <2>1, SizeInduction
<1>3. SumOver(f) = Iter(f)[S] /\ SumOver(g) = Iter(g)[S]
  BY SumIsIter
<1> QED BY <1>2, <1>3

\* A sum without the elements that add nothing.
LEMMA SumOfRest ==
  ASSUME NEW S, IsFiniteSet(S), NEW f \in [S -> Int], NEW T \in SUBSET S,
         \A x \in S \ T : f[x] = 0
  PROVE  SumOver(f) = SumIn(f, T)
<1> DEFINE P == {s \in SUBSET S : Iter(f)[s] = Iter(f)[s \cap T]}
<1>1. ASSUME NEW n \in Nat, \A s \in SUBSET S : Cardinality(s) < n => s \in P,
             NEW s \in SUBSET S, Cardinality(s) = n
      PROVE  s \in P
  <2>1. CASE s = {}
    <3>1. s \cap T = s
      BY <2>1
    <3> QED BY <3>1
  <2>2. CASE s # {}
    <3> DEFINE p == Pick(s)
               r == s \ {p}
    <3>1. p \in s /\ r \in SUBSET S /\ Cardinality(r) < n
      BY <1>1, <2>2, SmallerSet
    <3>2. Iter(f)[r] = Iter(f)[r \cap T]
      BY <1>1, <3>1
    <3>3. Iter(f)[s] = f[p] + Iter(f)[r]
      BY <2>2, IterStep
    <3>4. Iter(f)[r] \in Int
      BY <3>1, IterInt
    <3>5. CASE p \in T
      <4>1. p \in s \cap T /\ s \cap T \in SUBSET S /\ (s \cap T) \ {p} = r \cap T
        BY <3>1, <3>5
      <4> HIDE DEF p
      <4> DEFINE q == s \cap T
      <4> HIDE DEF q
      <4>2. Iter(f)[q] = f[p] + Iter(f)[q \ {p}]
        BY <4>1, IterRemove DEF q
      <4> QED BY <3>2, <3>3, <4>1, <4>2 DEF q
    <3>6. CASE p \notin T
      <4>1. f[p] = 0 /\ s \cap T = r \cap T
        BY <3>1, <3>6
      <4> HIDE DEF p, r
      <4>2. Iter(f)[s] = Iter(f)[r]
        BY <3>3, <3>4, <4>1
      <4>3. Iter(f)[s \cap T] = Iter(f)[r \cap T]
        BY <4>1
      <4> QED BY <3>2, <4>2, <4>3
    <3> QED BY <3>5, <3>6
  <2> QED BY <2>1, <2>2
<1>2. SUBSET S \subseteq P
  <2>1. \A n \in Nat : (\A s \in SUBSET S : Cardinality(s) < n => s \in P)
                          => \A s \in SUBSET S : Cardinality(s) = n => s \in P
    BY <1>1
  <2> HIDE DEF P
  <2> QED BY ONLY IsFiniteSet(S), <2>1, SizeInduction
<1>3. Iter(f)[S] = Iter(f)[S \cap T] /\ S \cap T = T
  BY <1>2
<1>4. SumOver(f) = Iter(f)[S] /\ SumIn(f, T) = Iter(f)[T]
  BY SumIsIter, SumInIsIter
<1> QED BY <1>3, <1>4

\* A sum over two disjoint sets.
LEMMA SumSplit ==
  ASSUME NEW S, IsFiniteSet(S), NEW f \in [S -> Int], NEW T \in SUBSET S
  PROVE  SumOver(f) = SumIn(f, T) + SumIn(f, S \ T)
<1> DEFINE P == {s \in SUBSET S : Iter(f)[s] = Iter(f)[s \cap T] + Iter(f)[s \ T]}
<1>1. ASSUME NEW n \in Nat, \A s \in SUBSET S : Cardinality(s) < n => s \in P,
             NEW s \in SUBSET S, Cardinality(s) = n
      PROVE  s \in P
  <2>1. CASE s = {}
    <3>1. s \cap T = {} /\ s \ T = {}
      BY <2>1
    <3>2. Iter(f)[{}] = 0
      BY IterEmpty
    <3> QED BY <2>1, <3>1, <3>2
  <2>2. CASE s # {}
    <3> DEFINE p == Pick(s)
               r == s \ {p}
               a == s \cap T
               b == s \ T
    <3>1. p \in s /\ r \in SUBSET S /\ Cardinality(r) < n
      BY <1>1, <2>2, SmallerSet
    <3>2. Iter(f)[r] = Iter(f)[r \cap T] + Iter(f)[r \ T]
      BY <1>1, <3>1
    <3>3. Iter(f)[s] = f[p] + Iter(f)[r]
      BY <2>2, IterStep
    <3>4. a \in SUBSET S /\ b \in SUBSET S /\ r \cap T \in SUBSET S /\ r \ T \in SUBSET S
      OBVIOUS
    <3>5. Iter(f)[r \cap T] \in Int /\ Iter(f)[r \ T] \in Int /\ f[p] \in Int
      BY <3>1, <3>4, IterInt
    <3>6. CASE p \in T
      <4>1. p \in a /\ a \ {p} = r \cap T /\ b = r \ T
        BY <3>1, <3>6
      <4> HIDE DEF p, a, b
      <4>2. Iter(f)[a] = f[p] + Iter(f)[a \ {p}]
        BY <3>4, <4>1, IterRemove
      <4>3. Iter(f)[s] = Iter(f)[a] + Iter(f)[b]
        <5> DEFINE u == Iter(f)[r \cap T]
                   v == Iter(f)[r \ T]
        <5>1. Iter(f)[s] = f[p] + (u + v)
          BY <3>2, <3>3
        <5>2. u \in Int /\ v \in Int /\ f[p] \in Int
          BY <3>5
        <5>3. Iter(f)[a] = f[p] + u /\ Iter(f)[b] = v
          BY <4>1, <4>2
        <5> HIDE DEF u, v
        <5> QED BY <5>1, <5>2, <5>3
      <4> QED BY <4>3 DEF a, b
    <3>7. CASE p \notin T
      <4>1. p \in b /\ b \ {p} = r \ T /\ a = r \cap T
        BY <3>1, <3>7
      <4> HIDE DEF p, a, b
      <4>2. Iter(f)[b] = f[p] + Iter(f)[b \ {p}]
        BY <3>4, <4>1, IterRemove
      <4>3. Iter(f)[s] = Iter(f)[a] + Iter(f)[b]
        <5> DEFINE u == Iter(f)[r \cap T]
                   v == Iter(f)[r \ T]
        <5>1. Iter(f)[s] = f[p] + (u + v)
          BY <3>2, <3>3
        <5>2. u \in Int /\ v \in Int /\ f[p] \in Int
          BY <3>5
        <5>3. Iter(f)[a] = u /\ Iter(f)[b] = f[p] + v
          BY <4>1, <4>2
        <5> HIDE DEF u, v
        <5> QED BY <5>1, <5>2, <5>3
      <4> QED BY <4>3 DEF a, b
    <3> QED BY <3>6, <3>7
  <2> QED BY <2>1, <2>2
<1>2. SUBSET S \subseteq P
  <2>1. \A n \in Nat : (\A s \in SUBSET S : Cardinality(s) < n => s \in P)
                          => \A s \in SUBSET S : Cardinality(s) = n => s \in P
    BY <1>1
  <2> HIDE DEF P
  <2> QED BY ONLY IsFiniteSet(S), <2>1, SizeInduction
<1>3. Iter(f)[S] = Iter(f)[S \cap T] + Iter(f)[S \ T] /\ S \cap T = T
  BY <1>2
<1>4. SumOver(f) = Iter(f)[S] /\ SumIn(f, T) = Iter(f)[T] /\ SumIn(f, S \ T) = Iter(f)[S \ T]
  <2>1. S \ T \in SUBSET S
    OBVIOUS
  <2> QED BY <2>1, SumIsIter, SumInIsIter
<1> QED BY <1>3, <1>4

\* There are no more values than arguments.
LEMMA ImageSize ==
  ASSUME NEW g, IsFiniteSet(DOMAIN g)
  PROVE  /\ IsFiniteSet({g[x] : x \in DOMAIN g})
         /\ Cardinality({g[x] : x \in DOMAIN g}) <= Cardinality(DOMAIN g)
<1> DEFINE S == DOMAIN g
           T == {g[x] : x \in DOMAIN g}
           h == [x \in S |-> g[x]]
<1>1. h \in Surjection(S, T)
  BY DEF Surjection
<1> HIDE DEF S, T, h
<1>2. IsFiniteSet(T) /\ Cardinality(T) <= Cardinality(S)
  BY <1>1, FS_Surjection DEF S
<1> QED BY <1>2 DEF S, T

==============================================================================
