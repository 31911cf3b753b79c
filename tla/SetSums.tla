------------------------------ MODULE SetSums ------------------------------
(***************************************************************************)
(* Facts about SumFunctionOnSet, the sum of a function over a finite set,  *)
(* in which the models state totals of box scores, logs and shares.  The   *)
(* induction is over sets of counterexamples, with the library's theorem   *)
(* that a well-founded order has minimal elements.                         *)
(***************************************************************************)
EXTENDS Integers, FiniteSets, Functions, FiniteSetTheorems, TLAPS

\* A set of naturals that is not empty has a least element.
LEMMA LeastNatural ==
    ASSUME NEW S \in SUBSET Nat, S # {}
    PROVE  \E m \in S : \A k \in S : m <= k
<1>1. PICK m \in S : \A k \in S : ~ (<<k, m>> \in OpToRel(<, Nat))
  <2> DEFINE R == OpToRel(<, Nat)
  <2>1. IsWellFoundedOn(R, Nat)
    BY NatLessThanWellFounded
  <2> HIDE DEF R
  <2>2. \E x \in S : \A y \in S : ~ (<<y, x>> \in R)
    BY <2>1, WFMin
  <2> QED  BY <2>2 DEF R
<1>2. \A k \in S : m <= k
  <2> SUFFICES ASSUME NEW k \in S, k < m  PROVE FALSE
    OBVIOUS
  <2>1. <<k, m>> \in OpToRel(<, Nat)
    BY DEF OpToRel
  <2> QED  BY <1>1, <2>1
<1> QED  BY <1>2

\* A set of naturals that holds zero and the successors of its elements holds
\* all of them.
LEMMA NatSetInduction ==
    ASSUME NEW T \in SUBSET Nat, 0 \in T, \A n \in T : n + 1 \in T
    PROVE  T = Nat
<1>1. SUFFICES ASSUME Nat \ T # {}  PROVE FALSE
  OBVIOUS
<1>2. PICK m \in Nat \ T : \A k \in Nat \ T : m <= k
  BY <1>1, LeastNatural
<1>3. m # 0 /\ m - 1 \in Nat
  OBVIOUS
<1>4. m - 1 \in T
  BY <1>2, <1>3
<1> QED  BY <1>4

\* A collection of subsets of a finite set S that holds the empty set, and with
\* a set every set of one element more, holds S.
LEMMA SubsetInduction ==
    ASSUME NEW S, IsFiniteSet(S), NEW Q \in SUBSET (SUBSET S),
           {} \in Q, \A T \in Q : \A x \in S \ T : T \cup {x} \in Q
    PROVE  \A T \in SUBSET S : T \in Q
<1> DEFINE N == {n \in Nat : \A T \in SUBSET S : Cardinality(T) = n => T \in Q}
<1>1. \A T \in SUBSET S : IsFiniteSet(T) /\ Cardinality(T) \in Nat
  BY FS_Subset, FS_CardinalityType
<1>2. 0 \in N
  BY <1>1, FS_EmptySet
<1>3. ASSUME NEW n \in N  PROVE n + 1 \in N
  <2> SUFFICES ASSUME NEW T \in SUBSET S, Cardinality(T) = n + 1  PROVE T \in Q
    OBVIOUS
  <2>1. PICK x \in T : TRUE
    BY <1>1, FS_EmptySet
  <2>2. Cardinality(T \ {x}) = n
    BY <1>1, FS_RemoveElement
  <2>3. T \ {x} \in Q
    BY <2>2
  <2>4. (T \ {x}) \cup {x} \in Q
    BY <2>3
  <2>5. (T \ {x}) \cup {x} = T
    OBVIOUS
  <2> QED  BY <2>4, <2>5
<1>4. N = Nat
  <2> HIDE DEF N
  <2>1. N \in SUBSET Nat
    BY DEF N
  <2> QED  BY <1>2, <1>3, <2>1, NatSetInduction
<1> QED  BY <1>1, <1>4

-----------------------------------------------------------------------------
(***************************************************************************)
(* The recursion in the definition of the sum has a solution, and one only *)
(* as far as two functions agree.                                          *)
(***************************************************************************)
Pick(s) == CHOOSE x \in s : TRUE

\* What the fold takes from g for the set s.
Turn(g, f, s) == IF s = {} THEN 0 ELSE f[Pick(s)] + g[s \ {Pick(s)}]

IsIter(g, f, S) == g = [s \in SUBSET S |-> Turn(g, f, s)]

Iter(f, S) == CHOOSE g : IsIter(g, f, S)

LEMMA SumIsIter ==
    ASSUME NEW f, NEW S
    PROVE  SumFunctionOnSet(f, S) = Iter(f, S)[S]
BY DEF SumFunctionOnSet, FoldFunctionOnSet, MapThenFoldSet, Iter, IsIter,
       Turn, Pick

LEMMA PickIn == ASSUME NEW s, s # {} PROVE Pick(s) \in s
BY DEF Pick

LEMMA IterExists ==
    ASSUME NEW S, IsFiniteSet(S), NEW f
    PROVE  IsIter(Iter(f, S), f, S)
<1> DEFINE Small(n) == {s \in SUBSET S : Cardinality(s) <= n}
<1> DEFINE Solves(g, n) == g = [s \in Small(n) |-> Turn(g, f, s)]
<1> DEFINE N == {n \in Nat : \E g : Solves(g, n)}
<1>1. \A s \in SUBSET S : IsFiniteSet(s) /\ Cardinality(s) \in Nat
  BY FS_Subset, FS_CardinalityType
<1>2. 0 \in N
  <2> DEFINE g == [s \in Small(0) |-> 0]
  <2>1. \A s \in Small(0) : s = {}
    BY <1>1, FS_EmptySet
  <2>2. \A s \in Small(0) : Turn(g, f, s) = 0
    BY <2>1 DEF Turn
  <2>3. Solves(g, 0)
    BY <2>2
  <2> QED  BY <2>3
<1>3. ASSUME NEW n \in N  PROVE n + 1 \in N
  <2>1. PICK g : Solves(g, n)
    OBVIOUS
  <2> DEFINE h == [s \in Small(n + 1) |-> Turn(g, f, s)]
  <2>2. ASSUME NEW s \in Small(n + 1), s # {}
        PROVE  s \ {Pick(s)} \in Small(n) /\ s \ {Pick(s)} \in Small(n + 1)
    <3>1. /\ Pick(s) \in s
          /\ Cardinality(s \ {Pick(s)}) = Cardinality(s) - 1
      BY <1>1, <2>2, PickIn, FS_RemoveElement
    <3> QED  BY <1>1, <3>1
  <2>3. \A s \in Small(n) : h[s] = g[s]
    <3>1. \A s \in Small(n) : s \in Small(n + 1)
      BY <1>1
    <3>2. \A s \in Small(n) : g[s] = Turn(g, f, s)
      BY <2>1
    <3> QED  BY <3>1, <3>2
  <2> HIDE DEF h
  <2>4. \A s \in Small(n + 1) : Turn(h, f, s) = Turn(g, f, s)
    BY <2>2, <2>3 DEF Turn
  <2>5. Solves(h, n + 1)
    BY <2>4 DEF h
  <2>6. \E k : Solves(k, n + 1)
    BY <2>5
  <2>7. n + 1 \in Nat
    OBVIOUS
  <2> HIDE DEF Solves
  <2> QED  BY <2>6, <2>7
<1>4. N = Nat
  <2> HIDE DEF N
  <2>1. N \in SUBSET Nat
    BY DEF N
  <2> QED  BY <1>2, <1>3, <2>1, NatSetInduction
<1>5. PICK g : Solves(g, Cardinality(S))
  <2>1. Cardinality(S) \in Nat
    BY <1>1
  <2> QED  BY <1>4, <2>1
<1>6. Small(Cardinality(S)) = SUBSET S
  <2>1. \A s \in SUBSET S : Cardinality(s) <= Cardinality(S)
    BY FS_Subset
  <2> QED  BY <2>1
<1>7. IsIter(g, f, S)
  BY <1>5, <1>6 DEF IsIter
<1> QED  BY <1>7 DEF Iter

LEMMA IterAt ==
    ASSUME NEW S, IsFiniteSet(S), NEW f, NEW s \in SUBSET S
    PROVE  Iter(f, S)[s] = IF s = {} THEN 0
                           ELSE f[Pick(s)] + Iter(f, S)[s \ {Pick(s)}]
<1>1. Iter(f, S) = [t \in SUBSET S |-> Turn(Iter(f, S), f, t)]
  BY IterExists DEF IsIter
<1>2. Iter(f, S)[s] = Turn(Iter(f, S), f, s)
  BY <1>1
<1> QED  BY <1>2 DEF Turn

LEMMA IterAgrees ==
    ASSUME NEW S, IsFiniteSet(S), NEW T \in SUBSET S, NEW f, NEW g,
           \A x \in T : f[x] = g[x]
    PROVE  Iter(f, S)[T] = SumFunctionOnSet(g, T)
<1> DEFINE N == {n \in Nat : \A s \in SUBSET T :
                    Cardinality(s) = n => Iter(f, S)[s] = Iter(g, T)[s]}
<1>1. IsFiniteSet(T)
  BY FS_Subset
<1>2. \A s \in SUBSET T : IsFiniteSet(s) /\ Cardinality(s) \in Nat
  BY <1>1, FS_Subset, FS_CardinalityType
<1>3. ASSUME NEW s \in SUBSET T, s # {}
      PROVE  /\ Pick(s) \in T
             /\ s \ {Pick(s)} \in SUBSET T
             /\ Cardinality(s \ {Pick(s)}) = Cardinality(s) - 1
             /\ Iter(f, S)[s] = f[Pick(s)] + Iter(f, S)[s \ {Pick(s)}]
             /\ Iter(g, T)[s] = g[Pick(s)] + Iter(g, T)[s \ {Pick(s)}]
  <2>1. Pick(s) \in s
    BY <1>3, PickIn
  <2>2. s \in SUBSET S
    OBVIOUS
  <2>3. Iter(f, S)[s] = f[Pick(s)] + Iter(f, S)[s \ {Pick(s)}]
    BY <1>3, <2>2, IterAt
  <2>4. Iter(g, T)[s] = g[Pick(s)] + Iter(g, T)[s \ {Pick(s)}]
    BY <1>1, <1>3, IterAt
  <2>5. Cardinality(s \ {Pick(s)}) = Cardinality(s) - 1
    BY <1>2, <2>1, FS_RemoveElement
  <2> QED  BY <2>1, <2>3, <2>4, <2>5
<1>4. 0 \in N
  <2>1. \A s \in SUBSET T : Cardinality(s) = 0 => s = {}
    BY <1>2, FS_EmptySet
  <2>2. {} \in SUBSET S /\ {} \in SUBSET T
    OBVIOUS
  <2>3. Iter(f, S)[{}] = 0
    BY <2>2, IterAt
  <2>4. Iter(g, T)[{}] = 0
    BY <1>1, <2>2, IterAt
  <2> QED  BY <2>1, <2>3, <2>4
<1>5. ASSUME NEW n \in N  PROVE n + 1 \in N
  <2> SUFFICES ASSUME NEW s \in SUBSET T, Cardinality(s) = n + 1
               PROVE  Iter(f, S)[s] = Iter(g, T)[s]
    OBVIOUS
  <2>0. n \in Nat
    OBVIOUS
  <2>1. s # {}
    <3> HIDE DEF N
    <3> QED  BY <2>0, FS_EmptySet
  <2>2. Cardinality(s \ {Pick(s)}) = n
    <3> HIDE DEF N
    <3> QED  BY <1>3, <2>0, <2>1
  <2>3. Iter(f, S)[s \ {Pick(s)}] = Iter(g, T)[s \ {Pick(s)}]
    BY <1>3, <2>1, <2>2
  <2>4. f[Pick(s)] = g[Pick(s)]
    BY <1>3, <2>1
  <2> HIDE DEF N
  <2> QED  BY <1>3, <2>1, <2>3, <2>4
<1>6. N = Nat
  <2> HIDE DEF N
  <2>1. N \in SUBSET Nat
    BY DEF N
  <2> QED  BY <1>4, <1>5, <2>1, NatSetInduction
<1>7. Iter(f, S)[T] = Iter(g, T)[T]
  BY <1>2, <1>6
<1> QED  BY <1>7, SumIsIter

-----------------------------------------------------------------------------
(***************************************************************************)
(* What the sum is.                                                        *)
(***************************************************************************)

\* Nothing sums up to zero.
LEMMA SumOfNone == ASSUME NEW f PROVE SumFunctionOnSet(f, {}) = 0
<1>1. IsFiniteSet({})
  BY FS_EmptySet
<1>2. Iter(f, {})[{}] = 0
  BY <1>1, IterAt
<1> QED  BY <1>2, SumIsIter

\* Only the values on the set matter.
LEMMA SumAgrees ==
    ASSUME NEW S, IsFiniteSet(S), NEW f, NEW g, \A x \in S : f[x] = g[x]
    PROVE  SumFunctionOnSet(f, S) = SumFunctionOnSet(g, S)
<1>1. S \in SUBSET S
  OBVIOUS
<1>2. ASSUME NEW T \in SUBSET S  PROVE Iter(f, S)[T] = SumFunctionOnSet(g, T)
  <2>1. \A x \in T : f[x] = g[x]
    OBVIOUS
  <2> QED  BY <2>1, IterAgrees
<1> QED  BY <1>1, <1>2, SumIsIter

\* The step of the fold, in terms of the sum itself.
LEMMA SumPicks ==
    ASSUME NEW S, IsFiniteSet(S), NEW f, S # {}
    PROVE  /\ Pick(S) \in S
           /\ SumFunctionOnSet(f, S)
                 = f[Pick(S)] + SumFunctionOnSet(f, S \ {Pick(S)})
<1>1. /\ S \in SUBSET S
      /\ S \ {Pick(S)} \in SUBSET S
  OBVIOUS
<1>2. Iter(f, S)[S] = f[Pick(S)] + Iter(f, S)[S \ {Pick(S)}]
  BY <1>1, IterAt
<1>3. \A x \in S \ {Pick(S)} : f[x] = f[x]
  OBVIOUS
<1>4. Iter(f, S)[S \ {Pick(S)}] = SumFunctionOnSet(f, S \ {Pick(S)})
  BY <1>1, <1>3, IterAgrees
<1> QED  BY <1>2, <1>4, SumIsIter, PickIn

\* A sum of integers, or of naturals, is one.
LEMMA SumType ==
    ASSUME NEW S, IsFiniteSet(S), NEW D \in {Int, Nat}, NEW f,
           \A x \in S : f[x] \in D
    PROVE  SumFunctionOnSet(f, S) \in D
<1> DEFINE N == {n \in Nat : \A T \in SUBSET S :
                    Cardinality(T) = n => SumFunctionOnSet(f, T) \in D}
<1>1. \A T \in SUBSET S : IsFiniteSet(T) /\ Cardinality(T) \in Nat
  BY FS_Subset, FS_CardinalityType
<1>2. 0 \in N
  <2>1. \A T \in SUBSET S : Cardinality(T) = 0 => T = {}
    BY <1>1, FS_EmptySet
  <2>2. SumFunctionOnSet(f, {}) \in D
    BY SumOfNone
  <2> QED  BY <2>1, <2>2
<1>3. ASSUME NEW n \in N  PROVE n + 1 \in N
  <2>1. /\ n \in Nat
        /\ \A T \in SUBSET S : Cardinality(T) = n => SumFunctionOnSet(f, T) \in D
    OBVIOUS
  <2> HIDE DEF N
  <2>2. ASSUME NEW T \in SUBSET S, Cardinality(T) = n + 1
        PROVE  SumFunctionOnSet(f, T) \in D
    <3> DEFINE p == Pick(T)
    <3>1. T # {}
      BY <2>1, <2>2, FS_EmptySet
    <3>2. p \in T /\ SumFunctionOnSet(f, T) = f[p] + SumFunctionOnSet(f, T \ {p})
      BY <1>1, <3>1, SumPicks
    <3> HIDE DEF p
    <3>3. Cardinality(T \ {p}) = n
      BY <1>1, <2>1, <2>2, <3>2, FS_RemoveElement
    <3>4. SumFunctionOnSet(f, T \ {p}) \in D
      BY <2>1, <3>3
    <3>5. f[p] \in D
      BY <3>2
    <3> QED  BY <3>2, <3>4, <3>5
  <2> QED  BY <2>1, <2>2 DEF N
<1>4. N = Nat
  <2> HIDE DEF N
  <2>1. N \in SUBSET Nat
    BY DEF N
  <2> QED  BY <1>2, <1>3, <2>1, NatSetInduction
<1> QED  BY <1>1, <1>4

\* The elements can be taken in any order.
LEMMA SumRemoves ==
    ASSUME NEW S, IsFiniteSet(S), NEW f, \A x \in S : f[x] \in Int, NEW y \in S
    PROVE  SumFunctionOnSet(f, S) = f[y] + SumFunctionOnSet(f, S \ {y})
<1> DEFINE Free(T) == \A x \in T : SumFunctionOnSet(f, T)
                                     = f[x] + SumFunctionOnSet(f, T \ {x})
<1> DEFINE N == {n \in Nat : \A T \in SUBSET S : Cardinality(T) = n => Free(T)}
<1>1. \A T \in SUBSET S : IsFiniteSet(T) /\ Cardinality(T) \in Nat
  BY FS_Subset, FS_CardinalityType
<1>2. 0 \in N
  <2>1. \A T \in SUBSET S : Cardinality(T) = 0 => T = {}
    BY <1>1, FS_EmptySet
  <2> QED  BY <2>1
<1>3. ASSUME NEW n \in N  PROVE n + 1 \in N
  <2>1. n \in Nat /\ \A T \in SUBSET S : Cardinality(T) = n => Free(T)
    OBVIOUS
  <2> HIDE DEF N
  <2>2. ASSUME NEW T \in SUBSET S, Cardinality(T) = n + 1, NEW x \in T
        PROVE  SumFunctionOnSet(f, T) = f[x] + SumFunctionOnSet(f, T \ {x})
    <3> DEFINE p == Pick(T)
    <3> DEFINE both == SumFunctionOnSet(f, (T \ {x}) \ {p})
    <3>1. p \in T /\ SumFunctionOnSet(f, T) = f[p] + SumFunctionOnSet(f, T \ {p})
      BY <1>1, SumPicks
    <3> HIDE DEF p
    <3>2. CASE x = p
      BY <3>1, <3>2
    <3>3. CASE x # p
      <4>1. Free(T \ {x}) /\ Free(T \ {p})
        <5>1. ASSUME NEW z \in T  PROVE Cardinality(T \ {z}) = n
          BY <1>1, <2>1, <2>2, FS_RemoveElement
        <5>2. T \ {x} \in SUBSET S /\ T \ {p} \in SUBSET S
          OBVIOUS
        <5> HIDE DEF Free
        <5> QED  BY <2>1, <3>1, <5>1, <5>2
      <4>2. SumFunctionOnSet(f, T \ {p}) = f[x] + SumFunctionOnSet(f, (T \ {p}) \ {x})
        BY <4>1, <3>3
      <4>3. SumFunctionOnSet(f, T \ {x}) = f[p] + both
        BY <4>1, <3>1, <3>3
      <4>4. (T \ {p}) \ {x} = (T \ {x}) \ {p}
        OBVIOUS
      <4>5. both \in Int
        <5>1. (T \ {x}) \ {p} \in SUBSET S
          OBVIOUS
        <5> QED  BY <1>1, <5>1, SumType
      <4>6. f[p] \in Int /\ f[x] \in Int
        BY <3>1
      <4> HIDE DEF both
      <4>7. SumFunctionOnSet(f, (T \ {p}) \ {x}) = both
        BY <4>4 DEF both
      <4> QED  BY <3>1, <4>2, <4>3, <4>5, <4>6, <4>7
    <3> QED  BY <3>2, <3>3
  <2> QED  BY <2>1, <2>2 DEF N
<1>4. N = Nat
  <2> HIDE DEF N
  <2>1. N \in SUBSET Nat
    BY DEF N
  <2> QED  BY <1>2, <1>3, <2>1, NatSetInduction
<1>5. Free(S)
  <2> HIDE DEF Free
  <2> QED  BY <1>1, <1>4
<1> QED  BY <1>5

\* One element more.
LEMMA SumInserts ==
    ASSUME NEW S, IsFiniteSet(S), NEW y, y \notin S, NEW f,
           \A x \in S \cup {y} : f[x] \in Int
    PROVE  SumFunctionOnSet(f, S \cup {y}) = SumFunctionOnSet(f, S) + f[y]
<1>1. IsFiniteSet(S \cup {y})
  BY FS_AddElement
<1>2. SumFunctionOnSet(f, S \cup {y})
        = f[y] + SumFunctionOnSet(f, (S \cup {y}) \ {y})
  BY <1>1, SumRemoves
<1>3. (S \cup {y}) \ {y} = S
  OBVIOUS
<1>4. SumFunctionOnSet(f, S) \in Int
  BY SumType
<1>5. SumFunctionOnSet(f, (S \cup {y}) \ {y}) = SumFunctionOnSet(f, S)
  BY <1>3
<1> QED  BY <1>2, <1>4, <1>5

\* The sum of two functions taken element by element is the sum of their sums.
LEMMA SumAdds ==
    ASSUME NEW S, IsFiniteSet(S), NEW f, NEW g, NEW h,
           \A x \in S : f[x] \in Int /\ g[x] \in Int /\ h[x] = f[x] + g[x]
    PROVE  SumFunctionOnSet(h, S) = SumFunctionOnSet(f, S) + SumFunctionOnSet(g, S)
<1> DEFINE Q == {T \in SUBSET S : SumFunctionOnSet(h, T)
                    = SumFunctionOnSet(f, T) + SumFunctionOnSet(g, T)}
<1>1. {} \in Q
  BY SumOfNone
<1>2. ASSUME NEW T \in Q, NEW x \in S \ T  PROVE T \cup {x} \in Q
  <2>1. IsFiniteSet(T)
    BY FS_Subset
  <2>2. \A y \in T \cup {x} : f[y] \in Int /\ g[y] \in Int /\ h[y] \in Int
    OBVIOUS
  <2>3. /\ SumFunctionOnSet(f, T \cup {x}) = SumFunctionOnSet(f, T) + f[x]
        /\ SumFunctionOnSet(g, T \cup {x}) = SumFunctionOnSet(g, T) + g[x]
        /\ SumFunctionOnSet(h, T \cup {x}) = SumFunctionOnSet(h, T) + h[x]
    BY <2>1, <2>2, SumInserts
  <2>4. SumFunctionOnSet(f, T) \in Int /\ SumFunctionOnSet(g, T) \in Int
    BY <2>1, <2>2, SumType
  <2> QED  BY <2>2, <2>3, <2>4
<1>3. \A T \in SUBSET S : T \in Q
  <2> HIDE DEF Q
  <2>1. Q \in SUBSET (SUBSET S)
    BY DEF Q
  <2> QED  BY <1>1, <1>2, <2>1, SubsetInduction
<1> QED  BY <1>3

\* Values that are no larger sum up to no more.
LEMMA SumMonotonic ==
    ASSUME NEW S, IsFiniteSet(S), NEW f, NEW g,
           \A x \in S : f[x] \in Int /\ g[x] \in Int /\ f[x] <= g[x]
    PROVE  SumFunctionOnSet(f, S) <= SumFunctionOnSet(g, S)
<1> DEFINE more == [x \in S |-> g[x] - f[x]]
<1>1. \A x \in S : more[x] \in Nat /\ g[x] = f[x] + more[x]
  OBVIOUS
<1> HIDE DEF more
<1>2. SumFunctionOnSet(more, S) \in Nat
  BY <1>1, SumType
<1>3. SumFunctionOnSet(f, S) \in Int
  BY SumType
<1>4. SumFunctionOnSet(g, S) = SumFunctionOnSet(f, S) + SumFunctionOnSet(more, S)
  BY <1>1, SumAdds
<1> QED  BY <1>2, <1>3, <1>4

\* Raising the values on a subset by k raises the sum by k for each of its
\* elements.
LEMMA SumRaised ==
    ASSUME NEW S, IsFiniteSet(S), NEW C \in SUBSET S, NEW k \in Int,
           NEW f, NEW g,
           \A x \in S : /\ f[x] \in Int
                        /\ g[x] = IF x \in C THEN f[x] + k ELSE f[x]
    PROVE  SumFunctionOnSet(g, S) = SumFunctionOnSet(f, S) + k * Cardinality(C)
<1> DEFINE Q == {T \in SUBSET S : SumFunctionOnSet(g, T)
                    = SumFunctionOnSet(f, T) + k * Cardinality(C \cap T)}
<1>1. {} \in Q
  <2>1. C \cap {} = {}
    OBVIOUS
  <2>2. Cardinality(C \cap {}) = 0
    BY <2>1, FS_EmptySet
  <2> QED  BY <2>2, SumOfNone
<1>2. ASSUME NEW T \in Q, NEW x \in S \ T  PROVE T \cup {x} \in Q
  <2>1. IsFiniteSet(T) /\ IsFiniteSet(C \cap T) /\ Cardinality(C \cap T) \in Nat
    <3>1. C \cap T \in SUBSET S
      OBVIOUS
    <3> QED  BY <3>1, FS_Subset, FS_CardinalityType
  <2>2. \A y \in T \cup {x} : f[y] \in Int /\ g[y] \in Int
    OBVIOUS
  <2>3. /\ SumFunctionOnSet(f, T \cup {x}) = SumFunctionOnSet(f, T) + f[x]
        /\ SumFunctionOnSet(g, T \cup {x}) = SumFunctionOnSet(g, T) + g[x]
    BY <2>1, <2>2, SumInserts
  <2>4. SumFunctionOnSet(f, T) \in Int
    BY <2>1, <2>2, SumType
  <2>5. SumFunctionOnSet(g, T)
          = SumFunctionOnSet(f, T) + k * Cardinality(C \cap T)
    OBVIOUS
  <2>6. CASE x \in C
    <3>1. C \cap (T \cup {x}) = (C \cap T) \cup {x} /\ x \notin C \cap T
      BY <2>6
    <3>2. Cardinality(C \cap (T \cup {x})) = Cardinality(C \cap T) + 1
      BY <2>1, <3>1, FS_AddElement
    <3>3. k * (Cardinality(C \cap T) + 1) = k * Cardinality(C \cap T) + k
      BY <2>1
    <3>4. k * Cardinality(C \cap T) \in Int
      BY <2>1
    <3> HIDE DEF Q
    <3>5. SumFunctionOnSet(g, T \cup {x}) = SumFunctionOnSet(f, T \cup {x})
            + k * Cardinality(C \cap (T \cup {x}))
      BY <2>2, <2>3, <2>4, <2>5, <2>6, <3>2, <3>3, <3>4
    <3> QED  BY <3>5 DEF Q
  <2>7. CASE x \notin C
    <3>1. C \cap (T \cup {x}) = C \cap T
      BY <2>7
    <3>2. k * Cardinality(C \cap T) \in Int
      BY <2>1
    <3>3. f[x] \in Int /\ g[x] = f[x]
      BY <2>7
    <3>4. Cardinality(C \cap (T \cup {x})) = Cardinality(C \cap T)
      BY <3>1
    <3> HIDE DEF Q
    <3>5. SumFunctionOnSet(g, T \cup {x}) = SumFunctionOnSet(f, T \cup {x})
            + k * Cardinality(C \cap (T \cup {x}))
      BY <2>3, <2>4, <2>5, <3>2, <3>3, <3>4
    <3> QED  BY <3>5 DEF Q
  <2> QED  BY <2>6, <2>7
<1>3. S \in Q
  <2> HIDE DEF Q
  <2>1. Q \in SUBSET (SUBSET S)
    BY DEF Q
  <2> QED  BY <1>1, <1>2, <2>1, SubsetInduction
<1>4. C \cap S = C
  OBVIOUS
<1>5. SumFunctionOnSet(g, S)
        = SumFunctionOnSet(f, S) + k * Cardinality(C \cap S)
  BY <1>3
<1> QED  BY <1>4, <1>5

\* A constant factor can be taken out of a sum.
LEMMA SumScales ==
    ASSUME NEW S, IsFiniteSet(S), NEW k \in Int, NEW f, NEW g,
           \A x \in S : f[x] \in Int /\ g[x] = k * f[x]
    PROVE  SumFunctionOnSet(g, S) = k * SumFunctionOnSet(f, S)
<1> DEFINE Q == {T \in SUBSET S : SumFunctionOnSet(g, T)
                    = k * SumFunctionOnSet(f, T)}
<1>1. {} \in Q
  BY SumOfNone
<1>2. ASSUME NEW T \in Q, NEW x \in S \ T  PROVE T \cup {x} \in Q
  <2>1. IsFiniteSet(T)
    BY FS_Subset
  <2>2. \A y \in T \cup {x} : f[y] \in Int /\ g[y] \in Int
    OBVIOUS
  <2>3. /\ SumFunctionOnSet(f, T \cup {x}) = SumFunctionOnSet(f, T) + f[x]
        /\ SumFunctionOnSet(g, T \cup {x}) = SumFunctionOnSet(g, T) + g[x]
    BY <2>1, <2>2, SumInserts
  <2>4. SumFunctionOnSet(f, T) \in Int /\ f[x] \in Int
    BY <2>1, <2>2, SumType
  <2>5. SumFunctionOnSet(g, T) = k * SumFunctionOnSet(f, T) /\ g[x] = k * f[x]
    OBVIOUS
  <2>6. \A a, b \in Int : k * (a + b) = k * a + k * b
    OBVIOUS
  <2> HIDE DEF Q
  <2>7. SumFunctionOnSet(g, T \cup {x}) = k * SumFunctionOnSet(f, T \cup {x})
    BY <2>3, <2>4, <2>5, <2>6
  <2> QED  BY <2>7 DEF Q
<1>3. S \in Q
  <2> HIDE DEF Q
  <2>1. Q \in SUBSET (SUBSET S)
    BY DEF Q
  <2> QED  BY <1>1, <1>2, <2>1, SubsetInduction
<1> QED  BY <1>3

\* Elements at which the function is zero can be left out.
LEMMA SumSupport ==
    ASSUME NEW S, IsFiniteSet(S), NEW C \in SUBSET S, NEW f, NEW g,
           \A x \in C : f[x] \in Int /\ g[x] = f[x],
           \A x \in S \ C : g[x] = 0
    PROVE  SumFunctionOnSet(g, S) = SumFunctionOnSet(f, C)
<1> DEFINE Q == {T \in SUBSET S : SumFunctionOnSet(g, T)
                    = SumFunctionOnSet(f, C \cap T)}
<1>1. {} \in Q
  <2>1. C \cap {} = {}
    OBVIOUS
  <2> QED  BY <2>1, SumOfNone
<1>2. ASSUME NEW T \in Q, NEW x \in S \ T  PROVE T \cup {x} \in Q
  <2>1. IsFiniteSet(T) /\ IsFiniteSet(C \cap T)
    <3>1. C \cap T \in SUBSET S
      OBVIOUS
    <3> QED  BY <3>1, FS_Subset
  <2>2. \A y \in T \cup {x} : g[y] \in Int
    OBVIOUS
  <2>3. SumFunctionOnSet(g, T \cup {x}) = SumFunctionOnSet(g, T) + g[x]
    BY <2>1, <2>2, SumInserts
  <2>4. SumFunctionOnSet(g, T) \in Int
    BY <2>1, <2>2, SumType
  <2>5. SumFunctionOnSet(g, T) = SumFunctionOnSet(f, C \cap T)
    OBVIOUS
  <2>6. SumFunctionOnSet(g, T \cup {x}) = SumFunctionOnSet(f, C \cap (T \cup {x}))
    <3>1. CASE x \in C
      <4>1. C \cap (T \cup {x}) = (C \cap T) \cup {x} /\ x \notin C \cap T
        BY <3>1
      <4>2. \A y \in (C \cap T) \cup {x} : f[y] \in Int
        BY <3>1
      <4>3. SumFunctionOnSet(f, (C \cap T) \cup {x})
              = SumFunctionOnSet(f, C \cap T) + f[x]
        BY <2>1, <4>1, <4>2, SumInserts
      <4>4. g[x] = f[x]
        BY <3>1
      <4> HIDE DEF Q
      <4> QED  BY <2>3, <2>5, <4>1, <4>3, <4>4
    <3>2. CASE x \notin C
      <4>1. C \cap (T \cup {x}) = C \cap T
        BY <3>2
      <4>2. g[x] = 0
        BY <3>2
      <4>3. SumFunctionOnSet(f, C \cap (T \cup {x})) = SumFunctionOnSet(f, C \cap T)
        BY <4>1
      <4> HIDE DEF Q
      <4> QED  BY <2>3, <2>4, <2>5, <4>2, <4>3
    <3> QED  BY <3>1, <3>2
  <2> QED  BY <2>6
<1>3. S \in Q
  <2> HIDE DEF Q
  <2>1. Q \in SUBSET (SUBSET S)
    BY DEF Q
  <2> QED  BY <1>1, <1>2, <2>1, SubsetInduction
<1>4. C \cap S = C
  OBVIOUS
<1>5. SumFunctionOnSet(g, S) = SumFunctionOnSet(f, C \cap S)
  BY <1>3
<1> QED  BY <1>4, <1>5

\* A constant sums up to itself times the number of elements.
LEMMA SumConstant ==
    ASSUME NEW S, IsFiniteSet(S), NEW k \in Int, NEW f, \A x \in S : f[x] = k
    PROVE  SumFunctionOnSet(f, S) = k * Cardinality(S)
<1> DEFINE none == [x \in S |-> 0]
<1>1. \A x \in S : none[x] = 0
  OBVIOUS
<1> HIDE DEF none
<1>2. SumFunctionOnSet(f, S) = SumFunctionOnSet(none, S) + k * Cardinality(S)
  <2>1. \A x \in S : none[x] \in Int /\ f[x] = IF x \in S THEN none[x] + k ELSE none[x]
    BY <1>1
  <2> QED  BY <2>1, SumRaised
<1>3. SumFunctionOnSet(none, S) = 0
  <2>1. \A x \in {} : none[x] \in Int /\ none[x] = none[x]
    OBVIOUS
  <2>2. \A x \in S \ {} : none[x] = 0
    BY <1>1
  <2>3. {} \in SUBSET S
    OBVIOUS
  <2>4. SumFunctionOnSet(none, S) = SumFunctionOnSet(none, {})
    BY <2>1, <2>2, <2>3, SumSupport
  <2> QED  BY <2>4, SumOfNone
<1>4. k * Cardinality(S) \in Int
  BY FS_CardinalityType
<1> QED  BY <1>2, <1>3, <1>4

\* The sum of k for every element of C.
LEMMA SumCounts ==
    ASSUME NEW S, IsFiniteSet(S), NEW C \in SUBSET S, NEW k \in Int, NEW g,
           \A x \in S : g[x] = IF x \in C THEN k ELSE 0
    PROVE  SumFunctionOnSet(g, S) = k * Cardinality(C)
<1>1. IsFiniteSet(C)
  BY FS_Subset
<1>2. /\ \A x \in C : g[x] \in Int /\ g[x] = g[x]
      /\ \A x \in S \ C : g[x] = 0
      /\ \A x \in C : g[x] = k
  OBVIOUS
<1>3. SumFunctionOnSet(g, S) = SumFunctionOnSet(g, C)
  BY <1>2, SumSupport
<1> QED  BY <1>1, <1>2, <1>3, SumConstant
=============================================================================
