-------------------------- MODULE RecursionProofs --------------------------
(***************************************************************************)
(* Facts about numbers and recursive functions that the other proofs rest  *)
(* on.  A recursive function is, to the provers, one chosen among those    *)
(* that satisfy its equation: before anything can be said of it, there has *)
(* to be one.                                                              *)
(***************************************************************************)
EXTENDS Integers, Sequences, FiniteSets, Functions, SequencesExt, TLAPS,
        FiniteSetTheorems, SequenceTheorems, WellFoundedInduction

-----------------------------------------------------------------------------
(* Least and greatest numbers: how these proofs argue by induction. *)

LEMMA LeastNumber ==
    ASSUME NEW T \in SUBSET Nat, T # {}
    PROVE  \E x \in T : \A y \in T : x <= y
<1>1. IsWellFoundedOn(OpToRel(<, Nat), Nat)
  BY NatLessThanWellFounded
<1>2. \E x \in T : \A y \in T : ~(<<y, x>> \in OpToRel(<, Nat))
  BY <1>1, WFMin
<1>3. PICK x \in T : \A y \in T : ~(<<y, x>> \in OpToRel(<, Nat))
  BY <1>2
<1>4. ASSUME NEW y \in T
      PROVE  x <= y
  <2>1. ~(y < x)
    BY <1>3 DEF OpToRel
  <2> QED
    BY <2>1
<1> QED
  BY <1>4

LEMMA GreatestNumber ==
    ASSUME NEW T \in SUBSET Nat, T # {}, NEW n \in Nat, \A x \in T : x <= n
    PROVE  \E x \in T : \A y \in T : y <= x
<1> DEFINE Rest == {m \in Nat : n - m \in T}
<1>1. Rest # {}
  <2>1. PICK x \in T : TRUE
    OBVIOUS
  <2>2. n - x \in Nat /\ n - (n - x) = x
    BY <2>1
  <2>3. n - x \in Rest
    BY <2>1, <2>2
  <2> QED
    BY <2>3
<1>2. PICK m \in Rest : \A k \in Rest : m <= k
  BY <1>1, LeastNumber
<1>3. n - m \in T
  BY <1>2
<1>4. ASSUME NEW y \in T
      PROVE  y <= n - m
  <2>1. n - y \in Rest
    BY <1>4
  <2>2. m <= n - y
    BY <1>2, <2>1
  <2> QED
    BY <2>2
<1> QED
  BY <1>3, <1>4

\* What holds of 0 and, whenever it holds of a number, of the next, holds of
\* every number.
LEMMA EveryNumber ==
    ASSUME NEW T \in SUBSET Nat, 0 \in T, \A n \in T : n + 1 \in T
    PROVE  T = Nat
<1> SUFFICES ASSUME Nat \ T # {} PROVE FALSE
  OBVIOUS
<1>1. PICK x \in Nat \ T : \A y \in Nat \ T : x <= y
  BY LeastNumber
<1>2. x - 1 \in Nat /\ x - 1 + 1 = x
  BY <1>1
<1>3. x - 1 \in T
  BY <1>1, <1>2
<1> QED
  BY <1>1, <1>2, <1>3

-----------------------------------------------------------------------------
(* Sequences. *)

LEMMA RangeOfAppend ==
    ASSUME NEW S, NEW s \in Seq(S), NEW x \in S
    PROVE  /\ Range(Append(s, x)) = Range(s) \cup {x}
           /\ Range(s) \subseteq S
<1> DEFINE t == Append(s, x)
<1>1. /\ DOMAIN t = 1..(Len(s) + 1) /\ DOMAIN s = 1..Len(s)
      /\ Len(s) \in Nat /\ t[Len(s) + 1] = x
      /\ \A i \in DOMAIN s : t[i] = s[i] /\ s[i] \in S
  OBVIOUS
<1> HIDE DEF t
<1>2. ASSUME NEW y \in Range(t)
      PROVE  y \in Range(s) \cup {x}
  <2>1. PICK i \in DOMAIN t : t[i] = y
    BY DEF Range
  <2>2. CASE i = Len(s) + 1
    BY <1>1, <2>1, <2>2
  <2>3. CASE i # Len(s) + 1
    BY <1>1, <2>1, <2>3 DEF Range
  <2> QED
    BY <2>2, <2>3
<1>3. Range(s) \subseteq Range(t) /\ x \in Range(t)
  BY <1>1 DEF Range
<1>4. Range(s) \subseteq S
  BY <1>1 DEF Range
<1> QED
  BY <1>2, <1>3, <1>4 DEF t

-----------------------------------------------------------------------------
(* Recursive functions. *)

\* A function on D whose value at each argument depends on its values at the
\* arguments of lower rank only.
IsRecursion(D, V, N, rank, step) ==
    /\ V # {}
    /\ N \in Nat
    /\ rank \in [D -> 0..N]
    /\ step \in [D \X [D -> V] -> V]
    /\ \A d \in D : \A f, g \in [D -> V] :
          (\A e \in D : rank[e] < rank[d] => f[e] = g[e])
          => step[<<d, f>>] = step[<<d, g>>]

LEMMA RecursionExists ==
    ASSUME NEW D, NEW V, NEW N, NEW rank, NEW step,
           IsRecursion(D, V, N, rank, step)
    PROVE  \E f \in [D -> V] : \A d \in D : f[d] = step[<<d, f>>]
<1> USE DEF IsRecursion
<1> DEFINE Upto == {n \in Nat : \E f \in [D -> V] :
                        \A d \in D : rank[d] < n => f[d] = step[<<d, f>>]}
<1>1. 0 \in Upto
  <2>1. PICK v \in V : TRUE
    OBVIOUS
  <2>2. [d \in D |-> v] \in [D -> V]
    BY <2>1
  <2>3. \A d \in D : ~ rank[d] < 0
    OBVIOUS
  <2> QED
    BY <2>2, <2>3
<1>2. ASSUME NEW n \in Upto
      PROVE  n + 1 \in Upto
  <2>1. PICK f \in [D -> V] : \A d \in D : rank[d] < n => f[d] = step[<<d, f>>]
    OBVIOUS
  <2> DEFINE g == [d \in D |-> IF rank[d] = n THEN step[<<d, f>>] ELSE f[d]]
  <2>2. \A d \in D : step[<<d, f>>] \in V
    BY <2>1
  <2>3. g \in [D -> V]
    BY <2>1, <2>2
  <2>4. \A d \in D : rank[d] < n => f[d] = g[d]
    OBVIOUS
  <2>5. ASSUME NEW d \in D, rank[d] < n + 1
        PROVE  g[d] = step[<<d, g>>]
    <3>1. \A e \in D : rank[e] < rank[d] => f[e] = g[e]
      BY <2>4, <2>5
    <3>2. step[<<d, f>>] = step[<<d, g>>]
      BY <2>1, <2>3, <3>1
    <3>3. g[d] = step[<<d, f>>]
      <4>1. CASE rank[d] = n
        BY <4>1
      <4>2. CASE rank[d] # n
        <5>1. rank[d] < n
          BY <2>5, <4>2, rank[d] \in 0..N, n \in Nat
        <5> QED
          BY <2>1, <4>2, <5>1
      <4> QED
        BY <4>1, <4>2
    <3> QED
      BY <3>2, <3>3
  <2>6. n + 1 \in Nat
    OBVIOUS
  <2> QED
    BY <2>3, <2>5, <2>6
<1>3. N + 1 \in Upto
  <2> HIDE DEF Upto
  <2>1. Upto \in SUBSET Nat
    BY DEF Upto
  <2>2. Upto = Nat
    BY <1>1, <1>2, <2>1, EveryNumber
  <2> QED
    BY <2>2
<1>4. \A d \in D : rank[d] < N + 1
  OBVIOUS
<1> QED
  BY <1>3, <1>4

LEMMA MaxOfInterval ==
    ASSUME NEW n \in Nat, NEW T \in SUBSET (1..n), T # {}
    PROVE  Max(T) \in T /\ \A y \in T : y <= Max(T)
<1>0. T \in SUBSET Nat /\ \A x \in T : x <= n
  OBVIOUS
<1>1. PICK x \in T : \A y \in T : y <= x
  BY <1>0, GreatestNumber
<1>2. \E x2 \in T : \A y \in T : x2 >= y
  BY <1>1
<1> QED
  BY <1>2 DEF Max

LEMMA MaxOfRange ==
    ASSUME NEW n \in Nat, NEW k \in 1..n
    PROVE  /\ Max(1..k) = k
           /\ (1..k) \ {k} = 1..(k - 1)
           /\ 1..k # {}
<1>1. 1..k \in SUBSET (1..n) /\ 1..k # {} /\ k \in 1..k
  OBVIOUS
<1>2. Max(1..k) \in 1..k /\ k <= Max(1..k)
  BY <1>1, MaxOfInterval
<1> QED
  BY <1>1, <1>2

\* The recursion of a fold over a finite set D that takes the element `pick`
\* says first.
IsFold(D, V, base, step, pick) ==
    /\ IsFiniteSet(D)
    /\ base \in V
    /\ step \in [D \X V -> V]
    /\ \A T \in SUBSET D : T # {} => pick[T] \in T

\* What the fold of every set of elements comes to.
FoldsBy(D, V, base, step, pick, iter) ==
    /\ iter \in [SUBSET D -> V]
    /\ \A T \in SUBSET D :
          iter[T] = IF T = {} THEN base
                    ELSE step[<<pick[T], iter[T \ {pick[T]}]>>]

LEMMA FoldExists ==
    ASSUME NEW E, NEW V, NEW base, NEW step, NEW pick,
           IsFold(E, V, base, step, pick)
    PROVE  \E iter : FoldsBy(E, V, base, step, pick, iter)
<1> USE DEF IsFold, FoldsBy
<1> DEFINE D == SUBSET E
           n == Cardinality(E)
           rank == [T \in D |-> Cardinality(T)]
           Value(T, f) == IF T = {} THEN base
                          ELSE step[<<pick[T], f[T \ {pick[T]}]>>]
           next == [tf \in D \X [D -> V] |-> Value(tf[1], tf[2])]
<1>1. ASSUME NEW T \in D
      PROVE  /\ IsFiniteSet(T) /\ Cardinality(T) \in 0..n /\ n \in Nat
             /\ T # {} => /\ pick[T] \in E
                          /\ T \ {pick[T]} \in D
                          /\ Cardinality(T \ {pick[T]}) < Cardinality(T)
  <2>1. IsFiniteSet(E) /\ n \in Nat
    BY FS_CardinalityType
  <2>2. IsFiniteSet(T) /\ Cardinality(T) <= n
    BY <2>1, FS_Subset
  <2>3. Cardinality(T) \in Nat
    BY <2>2, FS_CardinalityType
  <2>4. T # {} => pick[T] \in T
    OBVIOUS
  <2>5. T # {} => Cardinality(T \ {pick[T]}) = Cardinality(T) - 1
    BY <2>2, <2>4, FS_RemoveElement
  <2>6. Cardinality(T) \in 0..n
    BY <2>1, <2>2, <2>3
  <2>7. T # {} => Cardinality(T \ {pick[T]}) < Cardinality(T)
    BY <2>3, <2>5
  <2> QED
    BY <2>1, <2>2, <2>4, <2>6, <2>7
<1>2. ASSUME NEW T \in D, NEW f \in [D -> V]
      PROVE  Value(T, f) \in V
  BY <1>1
<1>3. ASSUME NEW T \in D, NEW f \in [D -> V], NEW g \in [D -> V],
             \A e \in D : rank[e] < rank[T] => f[e] = g[e]
      PROVE  Value(T, f) = Value(T, g)
  BY <1>1, <1>3
<1>4. \A T \in D, f \in [D -> V] : next[<<T, f>>] = Value(T, f)
  <2> HIDE DEF Value, D
  <2> QED
    OBVIOUS
<1>5. /\ rank \in [D -> 0..n] /\ next \in [D \X [D -> V] -> V]
      /\ V # {} /\ n \in Nat
  <2>1. n \in Nat
    BY FS_CardinalityType
  <2> HIDE DEF Value, D, n
  <2> QED
    BY <1>1, <1>2, <2>1
<1>6. IsRecursion(D, V, n, rank, next)
  <2> HIDE DEF rank, next, D, Value, n
  <2>1. \A T \in D : \A f, g \in [D -> V] :
            (\A e \in D : rank[e] < rank[T] => f[e] = g[e])
            => next[<<T, f>>] = next[<<T, g>>]
    BY <1>3, <1>4
  <2> QED
    BY Zenon, <1>5, <2>1 DEF IsRecursion
<1>7. PICK f \in [D -> V] : \A T \in D : f[T] = next[<<T, f>>]
  <2> HIDE DEF rank, next, D, n
  <2> QED
    BY <1>6, RecursionExists
<1>8. \A T \in D : f[T] = Value(T, f)
  <2> HIDE DEF next, D, Value
  <2> QED
    BY <1>4, <1>7
<1>9. FoldsBy(E, V, base, step, pick, f)
  <2> HIDE DEF IsFold
  <2> QED
    BY <1>7, <1>8
<1> QED
  BY <1>9
-----------------------------------------------------------------------------
(* Sums. *)

\* What holds of a finite set whenever it holds of the smaller ones holds of
\* every subset of E.
LEMMA EverySubset ==
    ASSUME NEW E, IsFiniteSet(E), NEW Good \in SUBSET (SUBSET E),
           \A T \in SUBSET E :
               (\A R \in SUBSET E : Cardinality(R) < Cardinality(T) => R \in Good)
               => T \in Good
    PROVE  Good = SUBSET E
<1> DEFINE Upto == {k \in Nat : \A T \in SUBSET E : Cardinality(T) < k => T \in Good}
<1>1. ASSUME NEW T \in SUBSET E
      PROVE  IsFiniteSet(T) /\ Cardinality(T) \in Nat
  <2>1. IsFiniteSet(T)
    BY FS_Subset
  <2> QED
    BY <2>1, FS_CardinalityType
<1>2. 0 \in Upto
  BY <1>1
<1>3. ASSUME NEW k \in Upto
      PROVE  k + 1 \in Upto
  <2> SUFFICES ASSUME NEW T \in SUBSET E, Cardinality(T) < k + 1
               PROVE  T \in Good
    OBVIOUS
  <2>1. \A R \in SUBSET E : Cardinality(R) < Cardinality(T) => Cardinality(R) < k
    BY <1>1
  <2> QED
    BY <2>1
<1>4. Upto = Nat
  <2>1. Upto \in SUBSET Nat
    OBVIOUS
  <2> HIDE DEF Upto
  <2> QED
    BY <1>2, <1>3, <2>1, EveryNumber
<1>5. ASSUME NEW T \in SUBSET E
      PROVE  T \in Good
  <2>1. Cardinality(T) + 1 \in Upto /\ Cardinality(T) < Cardinality(T) + 1
    BY <1>1, <1>4
  <2> QED
    BY <2>1
<1> QED
  BY <1>5

\* The sum of f over every subset of E, by whatever element comes first.
Sums(E, f, h) ==
    /\ h \in [SUBSET E -> Nat]
    /\ \A T \in SUBSET E : h[T] = SumFunctionOnSet(f, T)
    /\ h[{}] = 0
    /\ \A T \in SUBSET E : T # {} =>
          \E x \in T : h[T] = f[x] + h[T \ {x}]

LEMMA SumExists ==
    ASSUME NEW E, IsFiniteSet(E), NEW f \in [E -> Nat]
    PROVE  \E h : Sums(E, f, h)
<1> DEFINE c(T) == CHOOSE x \in T : TRUE
           pick == [T \in SUBSET E |-> c(T)]
           step == [xv \in E \X Nat |-> f[xv[1]] + xv[2]]
           Value(T, g) == IF T = {} THEN 0 ELSE f[c(T)] + g[T \ {c(T)}]
           iter(S) == CHOOSE g : g = [T \in SUBSET S |-> Value(T, g)]
<1>1. \A T : SumFunctionOnSet(f, T) = iter(T)[T]
  BY Zenon DEF SumFunctionOnSet, FoldFunctionOnSet, MapThenFoldSet
<1>2. \A T \in SUBSET E : T # {} => c(T) \in T
  OBVIOUS
<1> HIDE DEF c
<1>3. PICK h : FoldsBy(E, Nat, 0, step, pick, h)
  <2>1. IsFold(E, Nat, 0, step, pick)
    BY <1>2 DEF IsFold
  <2> QED
    BY <2>1, FoldExists
<1>4. /\ h \in [SUBSET E -> Nat]
      /\ \A T \in SUBSET E : h[T] = Value(T, h)
  BY <1>2, <1>3 DEF FoldsBy
<1>5. ASSUME NEW S \in SUBSET E
      PROVE  \A T \in SUBSET S : iter(S)[T] = Value(T, iter(S))
  <2> DEFINE g == [T \in SUBSET S |-> h[T]]
  <2>1. \A T \in SUBSET S : T \ {c(T)} \in SUBSET S
    OBVIOUS
  <2>2. \A T \in SUBSET S : g[T] = Value(T, g)
    BY <1>4, <2>1
  <2>3. g = [T \in SUBSET S |-> Value(T, g)]
    <3> HIDE DEF Value
    <3> QED
      BY <2>2
  <2>4. iter(S) = [T \in SUBSET S |-> Value(T, iter(S))]
    <3> HIDE DEF Value, g
    <3> QED
      BY <2>3
  <2> HIDE DEF Value, iter
  <2> QED
    BY <2>4
<1> HIDE DEF iter
<1>6. ASSUME NEW S \in SUBSET E
      PROVE  iter(S)[S] = h[S]
  <2> DEFINE Good == {T \in SUBSET S : iter(S)[T] = h[T]}
  <2>1. IsFiniteSet(S)
    BY FS_Subset
  <2>2. ASSUME NEW T \in SUBSET S,
               \A R \in SUBSET S : Cardinality(R) < Cardinality(T) => R \in Good
        PROVE  T \in Good
    <3>1. CASE T = {}
      BY <1>4, <1>5, <3>1
    <3>2. CASE T # {}
      <4>1. IsFiniteSet(T)
        BY <2>1, FS_Subset
      <4>2. c(T) \in T /\ T \ {c(T)} \in SUBSET S
        <5>1. T \in SUBSET E
          OBVIOUS
        <5> QED
          BY <1>2, <3>2, <5>1
      <4>3. Cardinality(T \ {c(T)}) < Cardinality(T)
        <5>1. Cardinality(T) \in Nat
          BY <4>1, FS_CardinalityType
        <5>2. Cardinality(T \ {c(T)}) = Cardinality(T) - 1
          BY <4>1, <4>2, FS_RemoveElement
        <5> QED
          BY <5>1, <5>2
      <4>4. iter(S)[T \ {c(T)}] = h[T \ {c(T)}]
        BY <2>2, <4>2, <4>3
      <4>5. iter(S)[T] = f[c(T)] + iter(S)[T \ {c(T)}]
        BY <1>5, <3>2
      <4>6. h[T] = f[c(T)] + h[T \ {c(T)}]
        BY <1>4, <3>2
      <4> QED
        BY <4>4, <4>5, <4>6
    <3> QED
      BY <3>1, <3>2
  <2>3. Good = SUBSET S
    <3>1. Good \in SUBSET (SUBSET S)
      OBVIOUS
    <3> HIDE DEF Good
    <3> QED
      BY <2>1, <2>2, <3>1, EverySubset
  <2>4. S \in Good
    BY <2>3
  <2> QED
    BY <2>4
<1> QED
  BY <1>1, <1>2, <1>4, <1>6 DEF Sums

\* The order does not matter: any element may come first.
LEMMA SumStep ==
    ASSUME NEW E, IsFiniteSet(E), NEW f \in [E -> Nat]
    PROVE  /\ SumFunctionOnSet(f, {}) = 0
           /\ \A T \in SUBSET E : SumFunctionOnSet(f, T) \in Nat
           /\ \A T \in SUBSET E : \A x \in T :
                 SumFunctionOnSet(f, T) = f[x] + SumFunctionOnSet(f, T \ {x})
<1>1. PICK h : Sums(E, f, h)
  BY SumExists
<1>2. /\ h \in [SUBSET E -> Nat] /\ h[{}] = 0
      /\ \A T \in SUBSET E : h[T] = SumFunctionOnSet(f, T)
      /\ \A T \in SUBSET E : T # {} =>
            \E x \in T : h[T] = f[x] + h[T \ {x}]
  BY <1>1 DEF Sums
<1> DEFINE Good == {T \in SUBSET E : \A x \in T : h[T] = f[x] + h[T \ {x}]}
<1>3. ASSUME NEW T \in SUBSET E,
             \A R \in SUBSET E : Cardinality(R) < Cardinality(T) => R \in Good
      PROVE  T \in Good
  <2> SUFFICES ASSUME NEW x \in T PROVE h[T] = f[x] + h[T \ {x}]
    OBVIOUS
  <2>1. PICK y \in T : h[T] = f[y] + h[T \ {y}]
    BY <1>2
  <2>2. CASE x = y
    BY <2>1, <2>2
  <2>3. CASE x # y
    <3>1. IsFiniteSet(T)
      BY FS_Subset
    <3>2. Cardinality(T) \in Nat
      BY <3>1, FS_CardinalityType
    <3>3. /\ Cardinality(T \ {x}) = Cardinality(T) - 1
          /\ Cardinality(T \ {y}) = Cardinality(T) - 1
      BY <3>1, FS_RemoveElement
    <3>4. T \ {x} \in Good /\ T \ {y} \in Good
      <4>1. T \ {x} \in SUBSET E /\ T \ {y} \in SUBSET E
        OBVIOUS
      <4> HIDE DEF Good
      <4> QED
        BY <1>3, <3>2, <3>3, <4>1
    <3>5. (T \ {x}) \ {y} = (T \ {y}) \ {x}
      OBVIOUS
    <3>6. h[T \ {x}] = f[y] + h[(T \ {x}) \ {y}]
      BY <2>3, <3>4
    <3>7. h[T \ {y}] = f[x] + h[(T \ {y}) \ {x}]
      BY <2>3, <3>4
    <3> DEFINE rest == h[(T \ {y}) \ {x}]
    <3>8. rest \in Nat /\ f[x] \in Nat /\ f[y] \in Nat
      BY <1>2
    <3>9. h[T \ {x}] = f[y] + rest /\ h[T \ {y}] = f[x] + rest
      BY <3>5, <3>6, <3>7
    <3> HIDE DEF rest
    <3> QED
      BY <2>1, <3>8, <3>9
  <2> QED
    BY <2>2, <2>3
<1>4. Good = SUBSET E
  <2>1. Good \in SUBSET (SUBSET E)
    OBVIOUS
  <2> HIDE DEF Good
  <2> QED
    BY <1>3, <2>1, EverySubset
<1>5. {} \in SUBSET E
  OBVIOUS
<1>6. \A T \in SUBSET E : \A x \in T : T \ {x} \in SUBSET E
  OBVIOUS
<1>7. \A T \in SUBSET E : \A x \in T : h[T] = f[x] + h[T \ {x}]
  BY <1>4
<1> QED
  BY <1>2, <1>5, <1>6, <1>7

LEMMA SumOfOneMore ==
    ASSUME NEW E, IsFiniteSet(E), NEW f \in [E -> Nat],
           NEW T \in SUBSET E, NEW x \in T
    PROVE  SumFunctionOnSet(f, T) = f[x] + SumFunctionOnSet(f, T \ {x})
BY SumStep

\* A property of sums that adding an element preserves holds of every sum.
LEMMA SumInduction ==
    ASSUME NEW E, IsFiniteSet(E), NEW Good \in SUBSET (SUBSET E),
           {} \in Good,
           \A T \in SUBSET E : \A x \in T : T \ {x} \in Good => T \in Good
    PROVE  E \in Good
<1>1. ASSUME NEW T \in SUBSET E,
             \A R \in SUBSET E : Cardinality(R) < Cardinality(T) => R \in Good
      PROVE  T \in Good
  <2>1. CASE T = {}
    BY <2>1
  <2>2. CASE T # {}
    <3>1. PICK x \in T : TRUE
      BY <2>2
    <3>2. IsFiniteSet(T)
      BY FS_Subset
    <3>3. Cardinality(T) \in Nat /\ Cardinality(T \ {x}) = Cardinality(T) - 1
      BY <3>2, FS_CardinalityType, FS_RemoveElement
    <3>4. T \ {x} \in SUBSET E /\ Cardinality(T \ {x}) < Cardinality(T)
      BY <3>3
    <3> QED
      BY <1>1, <3>4
  <2> QED
    BY <2>1, <2>2
<1>2. Good = SUBSET E
  BY <1>1, EverySubset
<1> QED
  BY <1>2

\* A finite set of numbers has a greatest one.
LEMMA GreatestOfFinite ==
    ASSUME NEW T \in SUBSET Nat, T # {}, IsFiniteSet(T)
    PROVE  \E x \in T : \A y \in T : y <= x
<1> DEFINE Bounded == {R \in SUBSET T : \E n \in Nat : \A y \in R : y <= n}
<1>1. {} \in Bounded
  <2>1. 0 \in Nat /\ \A y \in {} : y <= 0
    OBVIOUS
  <2> QED
    BY <2>1
<1>2. ASSUME NEW R \in SUBSET T, NEW x \in R, R \ {x} \in Bounded
      PROVE  R \in Bounded
  <2>1. PICK n \in Nat : \A y \in R \ {x} : y <= n
    BY <1>2
  <2>2. x \in Nat /\ n + x \in Nat
    OBVIOUS
  <2>3. \A y \in R : y <= n + x
    BY <2>1, <2>2
  <2> QED
    BY <2>2, <2>3
<1>3. T \in Bounded
  <2>1. Bounded \in SUBSET (SUBSET T)
    OBVIOUS
  <2> HIDE DEF Bounded
  <2> QED
    BY <1>1, <1>2, <2>1, SumInduction
<1>4. PICK n \in Nat : \A y \in T : y <= n
  BY <1>3
<1> QED
  BY <1>4, GreatestNumber

\* A sum is a natural number; it grows with its terms, and multiplying or
\* adding terms multiplies or adds sums.
LEMMA SumType ==
    ASSUME NEW E, IsFiniteSet(E), NEW f \in [E -> Nat]
    PROVE  SumFunction(f) \in Nat
<1>1. DOMAIN f = E /\ E \in SUBSET E
  OBVIOUS
<1> QED
  BY <1>1, SumStep DEF SumFunction

LEMMA SumMonotone ==
    ASSUME NEW E, IsFiniteSet(E), NEW f \in [E -> Nat], NEW g \in [E -> Nat],
           \A x \in E : f[x] <= g[x]
    PROVE  SumFunction(f) <= SumFunction(g)
<1> DEFINE F(T) == SumFunctionOnSet(f, T)
           G(T) == SumFunctionOnSet(g, T)
           Good == {T \in SUBSET E : F(T) <= G(T)}
<1>1. /\ F({}) = 0 /\ G({}) = 0
      /\ \A T \in SUBSET E : F(T) \in Nat /\ G(T) \in Nat
      /\ \A T \in SUBSET E : \A x \in T :
            F(T) = f[x] + F(T \ {x}) /\ G(T) = g[x] + G(T \ {x})
  <2> HIDE DEF Good
  <2> QED
    BY SumStep
<1> HIDE DEF F, G
<1>2. {} \in Good
  BY <1>1
<1>3. ASSUME NEW T \in SUBSET E, NEW x \in T, T \ {x} \in Good
      PROVE  T \in Good
  <2> DEFINE a == F(T \ {x})
             b == G(T \ {x})
  <2>1. f[x] \in Nat /\ g[x] \in Nat /\ f[x] <= g[x] /\ T \ {x} \in SUBSET E
    OBVIOUS
  <2>2. /\ a \in Nat /\ b \in Nat /\ a <= b
        /\ F(T) = f[x] + a /\ G(T) = g[x] + b
    BY <1>1, <1>3, <2>1
  <2> HIDE DEF a, b
  <2>3. F(T) <= G(T)
    BY <2>1, <2>2
  <2> QED
    BY <2>3
<1>4. E \in Good
  <2>1. Good \in SUBSET (SUBSET E)
    OBVIOUS
  <2> HIDE DEF Good
  <2> QED
    BY <1>2, <1>3, <2>1, SumInduction
<1> QED
  BY <1>4 DEF SumFunction, F, G

LEMMA SumOfSums ==
    ASSUME NEW E, IsFiniteSet(E), NEW f \in [E -> Nat], NEW g \in [E -> Nat]
    PROVE  SumFunction([x \in E |-> f[x] + g[x]])
               = SumFunction(f) + SumFunction(g)
<1> DEFINE h == [x \in E |-> f[x] + g[x]]
           F(T) == SumFunctionOnSet(f, T)
           G(T) == SumFunctionOnSet(g, T)
           H(T) == SumFunctionOnSet(h, T)
           Good == {T \in SUBSET E : H(T) = F(T) + G(T)}
<1>0. h \in [E -> Nat] /\ \A x \in E : h[x] = f[x] + g[x]
  OBVIOUS
<1> HIDE DEF h
<1>1. /\ F({}) = 0 /\ G({}) = 0 /\ H({}) = 0
      /\ \A T \in SUBSET E : F(T) \in Nat /\ G(T) \in Nat /\ H(T) \in Nat
      /\ \A T \in SUBSET E : \A x \in T :
            /\ F(T) = f[x] + F(T \ {x})
            /\ G(T) = g[x] + G(T \ {x})
            /\ H(T) = h[x] + H(T \ {x})
  <2> HIDE DEF Good
  <2> QED
    BY <1>0, SumStep
<1> HIDE DEF F, G, H
<1>2. {} \in Good
  BY <1>1
<1>3. ASSUME NEW T \in SUBSET E, NEW x \in T, T \ {x} \in Good
      PROVE  T \in Good
  <2> DEFINE R == T \ {x}
  <2>1. f[x] \in Nat /\ g[x] \in Nat /\ x \in E /\ R \in SUBSET E
    OBVIOUS
  <2>2. h[x] = f[x] + g[x] /\ H(R) = F(R) + G(R)
    BY <1>0, <1>3, <2>1
  <2>3. F(T) = f[x] + F(R) /\ G(T) = g[x] + G(R) /\ H(T) = h[x] + H(R)
    BY <1>1
  <2>4. F(R) \in Nat /\ G(R) \in Nat
    BY <1>1, <2>1
  <2>5. H(T) = F(T) + G(T)
    <3> DEFINE a == F(R)
               b == G(R)
    <3>1. /\ a \in Nat /\ b \in Nat /\ F(T) = f[x] + a /\ G(T) = g[x] + b
          /\ H(T) = (f[x] + g[x]) + (a + b)
      BY <2>2, <2>3, <2>4
    <3> HIDE DEF a, b, R
    <3> QED
      BY <2>1, <3>1
  <2> QED
    BY <2>5
<1>4. E \in Good
  <2>1. Good \in SUBSET (SUBSET E)
    OBVIOUS
  <2> HIDE DEF Good
  <2> QED
    BY <1>2, <1>3, <2>1, SumInduction
<1>5. SumFunction(h) = SumFunction(f) + SumFunction(g)
  BY <1>0, <1>4 DEF SumFunction, F, G, H
<1> QED
  BY <1>5 DEF h

LEMMA SumOfMultiples ==
    ASSUME NEW E, IsFiniteSet(E), NEW f \in [E -> Nat], NEW c \in Nat
    PROVE  SumFunction([x \in E |-> f[x] * c]) = SumFunction(f) * c
<1> DEFINE h == [x \in E |-> f[x] * c]
           F(T) == SumFunctionOnSet(f, T)
           H(T) == SumFunctionOnSet(h, T)
           Good == {T \in SUBSET E : H(T) = F(T) * c}
<1>0. h \in [E -> Nat] /\ \A x \in E : h[x] = f[x] * c
  OBVIOUS
<1> HIDE DEF h
<1>1. /\ F({}) = 0 /\ H({}) = 0
      /\ \A T \in SUBSET E : F(T) \in Nat /\ H(T) \in Nat
      /\ \A T \in SUBSET E : \A x \in T :
            F(T) = f[x] + F(T \ {x}) /\ H(T) = h[x] + H(T \ {x})
  <2> HIDE DEF Good
  <2> QED
    BY <1>0, SumStep
<1> HIDE DEF F, H
<1>2. {} \in Good
  BY <1>1
<1>3. ASSUME NEW T \in SUBSET E, NEW x \in T, T \ {x} \in Good
      PROVE  T \in Good
  <2> DEFINE R == T \ {x}
             a == f[x]
             b == F(R)
  <2>1. a \in Nat /\ b \in Nat /\ x \in E /\ R \in SUBSET E
    BY <1>1
  <2>2. h[x] = a * c /\ H(R) = b * c
    BY <1>0, <1>3, <2>1
  <2>3. F(T) = a + b /\ H(T) = h[x] + H(R)
    BY <1>1
  <2> HIDE DEF a, b, R
  <2>4. a * c + b * c = (a + b) * c
    BY <2>1
  <2>5. H(T) = F(T) * c
    BY <2>2, <2>3, <2>4
  <2> QED
    BY <2>5
<1>4. E \in Good
  <2>1. Good \in SUBSET (SUBSET E)
    OBVIOUS
  <2> HIDE DEF Good
  <2> QED
    BY <1>2, <1>3, <2>1, SumInduction
<1>5. SumFunction(h) = SumFunction(f) * c
  BY <1>0, <1>4 DEF SumFunction, F, H
<1> QED
  BY <1>5 DEF h
-----------------------------------------------------------------------------
(* Folds of sequences. *)

\* What a left fold of each set of places of s comes to.
LeftFolds(s, V, base, step, g) ==
    /\ g \in [SUBSET DOMAIN s -> V]
    /\ \A T \in SUBSET DOMAIN s :
          g[T] = IF T = {} THEN base
                 ELSE step[<<g[T \ {Max(T)}], s[Max(T)]>>]

LEMMA LeftFoldExists ==
    ASSUME NEW S, NEW V, NEW s \in Seq(S), NEW base \in V,
           NEW step \in [V \X S -> V]
    PROVE  \E g : LeftFolds(s, V, base, step, g)
<1> DEFINE n == Len(s)
           pick == [T \in SUBSET (1..n) |-> Max(T)]
           next == [kv \in (1..n) \X V |-> step[<<kv[2], s[kv[1]]>>]]
<1>1. DOMAIN s = 1..n /\ n \in Nat /\ \A k \in 1..n : s[k] \in S
  BY LenProperties, ElementOfSeq
<1>2. \A k \in 1..n, v \in V :
          next[<<k, v>>] = step[<<v, s[k]>>] /\ next[<<k, v>>] \in V
  BY <1>1
<1>3. next \in [(1..n) \X V -> V]
  BY <1>1
<1> HIDE DEF next, n
<1>4. IsFiniteSet(1..n) /\ \A T \in SUBSET (1..n) : T # {} => pick[T] \in T
  <2>1. IsFiniteSet(1..n)
    BY <1>1, FS_Interval
  <2>2. \A T \in SUBSET (1..n) : T # {} => Max(T) \in T
    BY <1>1, MaxOfInterval
  <2> QED
    BY <2>1, <2>2
<1>5. PICK g : FoldsBy(1..n, V, base, next, pick, g)
  <2>1. IsFold(1..n, V, base, next, pick)
    BY <1>3, <1>4 DEF IsFold
  <2> QED
    BY <2>1, FoldExists
<1>6. /\ g \in [SUBSET (1..n) -> V] /\ g[{}] = base
      /\ \A T \in SUBSET (1..n) : T # {} =>
            g[T] = next[<<Max(T), g[T \ {Max(T)}]>>]
  BY <1>5 DEF FoldsBy
<1>7. \A T \in SUBSET (1..n) :
          g[T] = IF T = {} THEN base ELSE step[<<g[T \ {Max(T)}], s[Max(T)]>>]
  <2> SUFFICES ASSUME NEW T \in SUBSET (1..n), T # {}
               PROVE  g[T] = step[<<g[T \ {Max(T)}], s[Max(T)]>>]
    BY <1>6
  <2>1. Max(T) \in 1..n /\ T \ {Max(T)} \in SUBSET (1..n)
    BY <1>1, MaxOfInterval
  <2>2. g[T \ {Max(T)}] \in V
    BY <1>6, <2>1
  <2> QED
    BY <1>2, <1>6, <2>1, <2>2
<1>8. LeftFolds(s, V, base, step, g)
  BY <1>1, <1>6, <1>7 DEF LeftFolds
<1> QED
  BY <1>8

-----------------------------------------------------------------------------
(* Sequences of sequences, one after the other. *)

\* What the first k of them come to.
Flattens(q, S, f) ==
    /\ f \in [0..Len(q) -> Seq(S)]
    /\ f[0] = << >>
    /\ \A k \in 1..Len(q) : f[k] = f[k - 1] \o q[k]

LEMMA FlattenIs ==
    ASSUME NEW S, NEW q \in Seq(Seq(S))
    PROVE  \E f : Flattens(q, S, f) /\ FlattenSeq(q) = f[Len(q)]
<1> DEFINE n == Len(q)
           V == Seq(S)
           Value(i, f) == IF i = 1 THEN q[i] ELSE f[i - 1] \o q[i]
           flatten == CHOOSE flatten : flatten = [i \in 1..n |-> Value(i, flatten)]
           E == 1..n
           rank == [i \in E |-> i]
           step == [kf \in E \X [E -> V] |-> Value(kf[1], kf[2])]
<1>1. n \in Nat /\ DOMAIN q = 1..n /\ \A k \in 1..n : q[k] \in V
  BY LenProperties, ElementOfSeq
<1>2. CASE n = 0
  <2> DEFINE f == [k \in 0..n |-> << >>]
  <2>1. q = << >> /\ FlattenSeq(q) = q
    BY <1>2, EmptySeq DEF FlattenSeq
  <2>2. Flattens(q, S, f) /\ f[n] = << >>
    BY <1>2, EmptySeq DEF Flattens
  <2> QED
    BY <2>1, <2>2
<1>3. CASE n # 0
  <2>1. FlattenSeq(q) = flatten[n]
    BY Zenon, <1>3 DEF FlattenSeq
  <2> HIDE DEF V
  <2>2. ASSUME NEW i \in E, NEW f \in [E -> V]
        PROVE  Value(i, f) \in V
    <3>1. CASE i = 1
      BY <1>1, <3>1
    <3>2. CASE i # 1
      <4>1. i - 1 \in 1..n
        BY <1>1, <3>2
      <4>2. f[i - 1] \in V /\ q[i] \in V
        BY <1>1, <4>1
      <4>3. f[i - 1] \o q[i] \in V
        BY <4>2, ConcatProperties DEF V
      <4> QED
        BY <3>2, <4>3
    <3> QED
      BY <3>1, <3>2
  <2>3. ASSUME NEW i \in E, NEW f \in [E -> V], NEW g \in [E -> V],
               \A j \in E : rank[j] < rank[i] => f[j] = g[j]
        PROVE  Value(i, f) = Value(i, g)
    <3>1. CASE i = 1
      BY <3>1
    <3>2. CASE i # 1
      <4>1. i - 1 \in 1..n /\ i - 1 < i
        BY <1>1, <3>2
      <4> QED
        BY <2>3, <3>2, <4>1
    <3> QED
      BY <3>1, <3>2
  <2>4. \A i \in E, f \in [E -> V] : step[<<i, f>>] = Value(i, f)
    <3> HIDE DEF Value, E
    <3> QED
      OBVIOUS
  <2>5. /\ rank \in [E -> 0..n] /\ step \in [E \X [E -> V] -> V]
        /\ V # {}
    <3>1. V # {}
      BY EmptySeq DEF V
    <3>2. rank \in [E -> 0..n]
      BY <1>1
    <3> HIDE DEF Value, E, n
    <3> QED
      BY <2>2, <3>1, <3>2
  <2>6. IsRecursion(E, V, n, rank, step)
    <3> HIDE DEF rank, step, Value, n, E
    <3>1. \A i \in E : \A f, g \in [E -> V] :
              (\A j \in E : rank[j] < rank[i] => f[j] = g[j])
              => step[<<i, f>>] = step[<<i, g>>]
      BY <2>3, <2>4
    <3> QED
      BY Zenon, <1>1, <2>5, <3>1 DEF IsRecursion
  <2>7. PICK g \in [E -> V] : \A i \in E : g[i] = step[<<i, g>>]
    <3> HIDE DEF rank, step, n, E
    <3> QED
      BY <2>6, RecursionExists
  <2>8. g = [i \in 1..n |-> Value(i, g)]
    <3>1. g = [i \in E |-> Value(i, g)]
      <4> HIDE DEF step, Value, E
      <4> QED
        BY <2>4, <2>7
    <3> QED
      BY <3>1
  <2>9. flatten = [i \in 1..n |-> Value(i, flatten)]
    <3> HIDE DEF Value, n
    <3> QED
      BY <2>8
  <2> HIDE DEF flatten
  <2>10. \A i \in 1..n : flatten[i] = IF i = 1 THEN q[1] ELSE flatten[i - 1] \o q[i]
    BY <2>9
  <2> DEFINE f == [k \in 0..n |-> IF k = 0 THEN << >> ELSE flatten[k]]
  <2>11. f[0] = << >> /\ 0 \in 0..n /\ \A k \in 1..n : k \in 0..n /\ f[k] = flatten[k]
    BY <1>1
  <2>12. f[n] = flatten[n] /\ DOMAIN f = 0..n
    BY <1>1, <1>3
  <2> HIDE DEF f
  <2>13. ASSUME NEW k \in 1..n
         PROVE  f[k] = f[k - 1] \o q[k]
    <3>1. CASE k = 1
      <4>1. f[k] = q[k] /\ f[k - 1] = << >> /\ q[k] \in Seq(S)
        BY <1>1, <2>10, <2>11, <3>1 DEF V
      <4>2. << >> \o q[k] = q[k]
        BY <4>1, ConcatEmptySeq
      <4> QED
        BY <4>1, <4>2
    <3>2. CASE k # 1
      <4>1. k - 1 \in 1..n
        BY <1>1, <3>2
      <4> QED
        BY <2>10, <2>11, <3>2, <4>1
    <3> QED
      BY <3>1, <3>2
  <2>14. \A k \in 0..n : f[k] \in V
    <3> DEFINE Typed == {k \in Nat : k <= n => f[k] \in V}
    <3>1. 0 \in Typed
      BY <2>11, EmptySeq DEF V
    <3>2. ASSUME NEW k \in Typed
          PROVE  k + 1 \in Typed
      <4> SUFFICES ASSUME k + 1 <= n PROVE f[k + 1] \in V
        OBVIOUS
      <4>1. k + 1 \in 1..n /\ k + 1 - 1 = k /\ k <= n
        BY <1>1
      <4>2. f[k] \in V /\ q[k + 1] \in V
        BY <1>1, <4>1
      <4>3. f[k + 1] = f[k] \o q[k + 1]
        <5>1. PICK i \in 1..n : i = k + 1
          BY <4>1
        <5>2. f[i] = f[i - 1] \o q[i]
          BY <2>13
        <5>3. i - 1 = k
          BY <5>1
        <5> QED
          BY <5>1, <5>2, <5>3
      <4> QED
        BY <4>1, <4>2, <4>3, ConcatProperties DEF V
    <3>3. Typed = Nat
      <4>1. Typed \in SUBSET Nat
        OBVIOUS
      <4> HIDE DEF Typed
      <4> QED
        BY <3>1, <3>2, <4>1, EveryNumber
    <3> QED
      BY <1>1, <3>3
  <2>15. f = [k \in 0..n |-> f[k]]
    BY <2>12 DEF f
  <2>16. f \in [0..n -> V]
    <3> HIDE DEF n
    <3> QED
      BY <2>14, <2>15
  <2>17. Flattens(q, S, f)
    BY <2>11, <2>13, <2>16 DEF Flattens, V
  <2> QED
    BY <2>1, <2>12, <2>17
<1> QED
  BY <1>2, <1>3
-----------------------------------------------------------------------------
\* What holds of the empty sequence and, whenever it holds of a sequence, of
\* those one element longer, holds of every sequence.
LEMMA EverySequence ==
    ASSUME NEW S, NEW Good \in SUBSET Seq(S), << >> \in Good,
           \A s \in Good, x \in S : Append(s, x) \in Good
    PROVE  Good = Seq(S)
<1> DEFINE Long == {n \in Nat : \A s \in Seq(S) : Len(s) = n => s \in Good}
<1>1. 0 \in Long
  BY EmptySeq
<1>2. ASSUME NEW n \in Long
      PROVE  n + 1 \in Long
  <2> SUFFICES ASSUME NEW s \in Seq(S), Len(s) = n + 1 PROVE s \in Good
    OBVIOUS
  <2>1. s # << >>
    <3>1. Len(<< >>) = 0 /\ n \in Nat
      BY EmptySeq
    <3> QED
      BY <3>1
  <2>2. PICK t \in Seq(S), x \in S : s = Append(t, x)
    BY <2>1, SequenceEmptyOrAppend
  <2>3. Len(t) = n
    <3>1. Len(s) = Len(t) + 1 /\ Len(t) \in Nat /\ n \in Nat
      BY <2>2, AppendProperties, LenProperties
    <3> QED
      BY <3>1
  <2>4. t \in Good
    BY <2>3
  <2> QED
    BY <2>2, <2>4
<1>3. Long = Nat
  <2>1. Long \in SUBSET Nat
    OBVIOUS
  <2> HIDE DEF Long
  <2> QED
    BY <1>1, <1>2, <2>1, EveryNumber
<1>4. ASSUME NEW s \in Seq(S)
      PROVE  s \in Good
  <2>1. Len(s) \in Long
    BY <1>3, LenProperties
  <2> QED
    BY <2>1
<1> QED
  BY <1>4

\* The first k sequences come to the same whatever follows them.
LEMMA FlattenPrefix ==
    ASSUME NEW S, NEW p \in Seq(Seq(S)), NEW q \in Seq(Seq(S)),
           NEW f, Flattens(p, S, f), NEW g, Flattens(q, S, g),
           NEW m \in Nat, m <= Len(p), m <= Len(q),
           \A i \in 1..m : p[i] = q[i]
    PROVE  f[m] = g[m]
<1> DEFINE Same == {k \in Nat : k <= m => f[k] = g[k]}
<1>0. Len(p) \in Nat /\ Len(q) \in Nat
  BY LenProperties
<1>1. 0 \in Same
  BY DEF Flattens
<1>2. ASSUME NEW k \in Same
      PROVE  k + 1 \in Same
  <2> SUFFICES ASSUME k + 1 <= m PROVE f[k + 1] = g[k + 1]
    OBVIOUS
  <2>1. PICK i \in 1..m : i = k + 1
    OBVIOUS
  <2>2. i \in 1..Len(p) /\ i \in 1..Len(q) /\ i - 1 = k /\ k <= m
    BY <1>0, <2>1
  <2>3. f[i] = f[i - 1] \o p[i] /\ g[i] = g[i - 1] \o q[i]
    BY <2>2 DEF Flattens
  <2> QED
    BY <2>1, <2>2, <2>3
<1>3. Same = Nat
  <2>1. Same \in SUBSET Nat
    OBVIOUS
  <2> HIDE DEF Same
  <2> QED
    BY <1>1, <1>2, <2>1, EveryNumber
<1> QED
  BY <1>3

LEMMA FlattenEmpty == FlattenSeq(<< >>) = << >>
BY EmptySeq DEF FlattenSeq

LEMMA FlattenAppend ==
    ASSUME NEW S, NEW q \in Seq(Seq(S)), NEW x \in Seq(S)
    PROVE  /\ FlattenSeq(q) \in Seq(S)
           /\ FlattenSeq(Append(q, x)) = FlattenSeq(q) \o x
<1> DEFINE r == Append(q, x)
           n == Len(q)
<1>1. n \in Nat /\ r \in Seq(Seq(S)) /\ Len(r) = n + 1 /\ r[n + 1] = x
      /\ \A i \in 1..n : r[i] = q[i]
  BY AppendProperties, LenProperties
<1> HIDE DEF r
<1>2. PICK f : Flattens(q, S, f) /\ FlattenSeq(q) = f[n]
  BY FlattenIs
<1>3. PICK g : Flattens(r, S, g) /\ FlattenSeq(r) = g[Len(r)]
  BY <1>1, FlattenIs
<1>4. f[n] = g[n]
  <2>1. n <= Len(q) /\ n <= Len(r) /\ \A i \in 1..n : q[i] = r[i]
    BY <1>1
  <2> HIDE DEF n
  <2> QED
    BY <1>1, <1>2, <1>3, <2>1, FlattenPrefix
<1>5. g[Len(r)] = g[n] \o x
  <2>1. PICK k \in 1..Len(r) : k = n + 1 /\ k = Len(r) /\ k - 1 = n
    BY <1>1
  <2>2. g[k] = g[k - 1] \o r[k]
    BY <1>3 DEF Flattens
  <2> QED
    BY <1>1, <2>1, <2>2
<1>6. f[n] \in Seq(S)
  <2>1. n \in 0..n
    BY <1>1
  <2>2. f \in [0..n -> Seq(S)]
    BY <1>2 DEF Flattens
  <2> HIDE DEF n
  <2> QED
    BY <2>1, <2>2
<1> QED
  BY <1>2, <1>3, <1>4, <1>5, <1>6 DEF r

-----------------------------------------------------------------------------
(* Texts whose every piece is replaced by a text. *)

\* w says what each piece of a text over P is replaced by.
Replacement(P, w) == w \in [P -> Seq(P)]

Expand(text, w) == FlattenSeq([i \in DOMAIN text |-> w[text[i]]])

LEMMA ExpandEmpty ==
    ASSUME NEW w
    PROVE  Expand(<< >>, w) = << >>
<1> DEFINE e == << >>
           q == [i \in DOMAIN e |-> w[e[i]]]
<1>1. DOMAIN e = {}
  BY EmptySeq
<1> HIDE DEF e
<1>2. q = << >>
  BY <1>1, EmptySeq
<1> HIDE DEF q
<1>3. FlattenSeq(q) = << >>
  BY <1>2, FlattenEmpty
<1> QED
  BY <1>3 DEF Expand, q, e

LEMMA ExpandAppend ==
    ASSUME NEW P, NEW w, Replacement(P, w), NEW t \in Seq(P), NEW x \in P
    PROVE  /\ Expand(t, w) \in Seq(P)
           /\ Expand(Append(t, x), w) = Expand(t, w) \o w[x]
<1> DEFINE q == [i \in DOMAIN t |-> w[t[i]]]
           u == Append(t, x)
           r == [i \in DOMAIN u |-> w[u[i]]]
           n == Len(t)
           Q == Seq(P)
<1>1. n \in Nat /\ DOMAIN t = 1..n /\ \A i \in 1..n : t[i] \in P
  BY LenProperties, ElementOfSeq
<1>2. u \in Seq(P) /\ Len(u) = n + 1 /\ DOMAIN u = 1..(n + 1) /\ u[n + 1] = x
      /\ \A i \in 1..n : u[i] = t[i]
  BY AppendProperties, LenProperties
<1>3. w[x] \in Q /\ \A i \in 1..n : w[t[i]] \in Q
  BY <1>1 DEF Replacement
<1> HIDE DEF u, Q, n
<1>4. q \in Seq(Q) /\ Len(q) = n /\ \A i \in 1..n : q[i] = w[t[i]]
  <2>1. q = [i \in 1..n |-> w[t[i]]]
    BY <1>1
  <2> QED
    BY <1>1, <1>3, <2>1
<1>5. r = Append(q, w[x])
  <2> DEFINE a == Append(q, w[x])
  <2>1. r = [i \in 1..(n + 1) |-> w[u[i]]]
    BY <1>2
  <2>2. a \in Seq(Q) /\ Len(a) = n + 1 /\ a[n + 1] = w[x]
        /\ \A i \in 1..n : a[i] = w[t[i]]
    BY <1>3, <1>4, AppendProperties
  <2>3. \A i \in 1..(n + 1) : w[u[i]] = a[i] /\ w[u[i]] \in Q
    <3> TAKE i \in 1..(n + 1)
    <3>1. CASE i = n + 1
      BY <1>2, <1>3, <2>2, <3>1
    <3>2. CASE i # n + 1
      <4>1. i \in 1..n
        BY <1>1, <3>2
      <4> QED
        BY <1>2, <1>3, <2>2, <4>1
    <3> QED
      BY <3>1, <3>2
  <2>4. r \in Seq(Q) /\ Len(r) = n + 1 /\ \A i \in 1..(n + 1) : r[i] = w[u[i]]
    <3> HIDE DEF a
    <3> QED
      BY <1>1, <2>1, <2>3
  <2> HIDE DEF a, r
  <2>5. \A i \in 1..Len(r) : r[i] = a[i]
    BY <2>3, <2>4
  <2>6. r = a
    BY <2>2, <2>4, <2>5, SeqEqual
  <2> QED
    BY <2>6 DEF a
<1> HIDE DEF q, r
<1>6. FlattenSeq(q) \in Q /\ FlattenSeq(r) = FlattenSeq(q) \o w[x]
  BY <1>3, <1>4, <1>5, FlattenAppend DEF Q
<1> QED
  BY <1>6 DEF Expand, q, r, u, Q

LEMMA ExpandConcat ==
    ASSUME NEW P, NEW w, Replacement(P, w), NEW t \in Seq(P), NEW u \in Seq(P)
    PROVE  Expand(t \o u, w) = Expand(t, w) \o Expand(u, w)
<1> DEFINE Good == {s \in Seq(P) : Expand(t \o s, w) = Expand(t, w) \o Expand(s, w)}
<1>0. Expand(t, w) \in Seq(P)
  <2>1. CASE t = << >>
    BY <2>1, ExpandEmpty, EmptySeq
  <2>2. CASE t # << >>
    <3>1. PICK x \in P : TRUE
      BY <2>2, SequenceEmptyOrAppend
    <3> QED
      BY <3>1, ExpandAppend
  <2> QED
    BY <2>1, <2>2
<1>a. \A a, b, c \in Seq(P) : (a \o b) \o c = a \o (b \o c)
  BY ConcatAssociative
<1>1. << >> \in Good
  <2>1. t \o << >> = t /\ Expand(t, w) \o << >> = Expand(t, w)
    BY <1>0, ConcatEmptySeq
  <2> QED
    BY <2>1, ExpandEmpty, EmptySeq
<1>2. ASSUME NEW s \in Good, NEW x \in P
      PROVE  Append(s, x) \in Good
  <2>1. /\ Append(s, x) \in Seq(P) /\ t \o s \in Seq(P)
        /\ Expand(s, w) \in Seq(P) /\ w[x] \in Seq(P)
    BY AppendProperties, ConcatProperties, ExpandAppend DEF Replacement
  <2>2. t \o Append(s, x) = Append(t \o s, x)
    <3>1. <<x>> \in Seq(P)
      OBVIOUS
    <3>2. Append(s, x) = s \o <<x>> /\ Append(t \o s, x) = (t \o s) \o <<x>>
      BY <2>1, AppendIsConcat
    <3> QED
      BY <3>1, <3>2, ConcatAssociative
  <2>3. Expand(Append(t \o s, x), w) = Expand(t \o s, w) \o w[x]
    <3> DEFINE a == t \o s
    <3>1. a \in Seq(P)
      BY <2>1
    <3> HIDE DEF a, Good
    <3>2. Expand(Append(a, x), w) = Expand(a, w) \o w[x]
      BY <3>1, ExpandAppend
    <3> QED
      BY <3>2 DEF a
  <2>4. Expand(t \o s, w) \o w[x] = (Expand(t, w) \o Expand(s, w)) \o w[x]
    OBVIOUS
  <2>5. (Expand(t, w) \o Expand(s, w)) \o w[x] = Expand(t, w) \o (Expand(s, w) \o w[x])
    <3> DEFINE a == Expand(t, w)
               b == Expand(s, w)
               c == w[x]
    <3>1. a \in Seq(P) /\ b \in Seq(P) /\ c \in Seq(P)
      BY <1>0, <2>1
    <3> HIDE DEF a, b, c
    <3>2. (a \o b) \o c = a \o (b \o c)
      BY <3>1, <1>a
    <3> QED
      BY <3>2 DEF a, b, c
  <2>6. Expand(Append(s, x), w) = Expand(s, w) \o w[x]
    BY ExpandAppend
  <2> QED
    BY <2>1, <2>2, <2>3, <2>4, <2>5, <2>6
<1>3. Good = Seq(P)
  <2>1. Good \in SUBSET Seq(P)
    OBVIOUS
  <2> HIDE DEF Good
  <2> QED
    BY <1>1, <1>2, <2>1, EverySequence
<1> QED
  BY <1>3

LEMMA ExpandType ==
    ASSUME NEW P, NEW w, Replacement(P, w), NEW t \in Seq(P)
    PROVE  Expand(t, w) \in Seq(P)
<1>1. CASE t = << >>
  BY <1>1, ExpandEmpty, EmptySeq
<1>2. CASE t # << >>
  <2>1. PICK x \in P : TRUE
    BY <1>2, SequenceEmptyOrAppend
  <2> QED
    BY <2>1, ExpandAppend
<1> QED
  BY <1>1, <1>2

LEMMA ExpandSingle ==
    ASSUME NEW P, NEW w, Replacement(P, w), NEW x \in P
    PROVE  Expand(<<x>>, w) = w[x]
<1>1. << >> \in Seq(P) /\ Append(<< >>, x) = <<x>>
  BY EmptySeq
<1>2. Expand(Append(<< >>, x), w) = Expand(<< >>, w) \o w[x]
  <2> DEFINE e == << >>
  <2>1. e \in Seq(P)
    BY <1>1
  <2> HIDE DEF e
  <2>2. Expand(Append(e, x), w) = Expand(e, w) \o w[x]
    BY <2>1, ExpandAppend
  <2> QED
    BY <2>2 DEF e
<1>3. Expand(<< >>, w) = << >> /\ << >> \o w[x] = w[x]
  <2>1. w[x] \in Seq(P)
    BY DEF Replacement
  <2> QED
    BY <2>1, ExpandEmpty, ConcatEmptySeq
<1> QED
  BY <1>1, <1>2, <1>3

\* Two replacements after one another are one.
LEMMA ExpandTwice ==
    ASSUME NEW P, NEW w, Replacement(P, w), NEW v, Replacement(P, v),
           NEW t \in Seq(P)
    PROVE  Expand(Expand(t, w), v) = Expand(t, [x \in P |-> Expand(w[x], v)])
<1> DEFINE z == [x \in P |-> Expand(w[x], v)]
           Good == {s \in Seq(P) : Expand(Expand(s, w), v) = Expand(s, z)}
<1>0. Replacement(P, z) /\ \A x \in P : z[x] = Expand(w[x], v)
  <2>1. \A x \in P : w[x] \in Seq(P)
    BY DEF Replacement
  <2>2. \A x \in P : Expand(w[x], v) \in Seq(P)
    BY <2>1, ExpandType
  <2> QED
    BY <2>2 DEF Replacement
<1> HIDE DEF z, Good
<1>a. \A s \in Seq(P), x \in P :
          /\ Expand(Append(s, x), w) = Expand(s, w) \o w[x]
          /\ Expand(Append(s, x), z) = Expand(s, z) \o z[x]
  BY <1>0, ExpandAppend
<1> USE DEF Good
<1>1. << >> \in Good
  BY ExpandEmpty, EmptySeq
<1>2. ASSUME NEW s \in Good, NEW x \in P
      PROVE  Append(s, x) \in Good
  <2>1. /\ Append(s, x) \in Seq(P) /\ Expand(s, w) \in Seq(P)
        /\ w[x] \in Seq(P)
    BY AppendProperties, ExpandType DEF Replacement
  <2>5. s \in Seq(P) /\ Expand(Expand(s, w), v) = Expand(s, z)
    OBVIOUS
  <2> HIDE DEF Good
  <2>2. Expand(Append(s, x), w) = Expand(s, w) \o w[x]
    BY <2>5, <1>a
  <2>3. Expand(Expand(s, w) \o w[x], v) = Expand(Expand(s, w), v) \o Expand(w[x], v)
    BY <2>1, ExpandConcat
  <2>4. Expand(Append(s, x), z) = Expand(s, z) \o z[x]
    BY <2>5, <1>a
  <2> QED
    BY <1>0, <2>1, <2>2, <2>3, <2>4, <2>5 DEF Good
<1>3. Good = Seq(P)
  <2>1. Good \in SUBSET Seq(P)
    OBVIOUS
  <2> HIDE DEF Good
  <2> QED
    BY <1>1, <1>2, <2>1, EverySequence
<1>4. Expand(Expand(t, w), v) = Expand(t, z)
  BY <1>3
<1> QED
  BY <1>4 DEF z

\* What none of its pieces is replaced in stays as it is.
LEMMA ExpandSame ==
    ASSUME NEW P, NEW w, Replacement(P, w), NEW t \in Seq(P),
           \A x \in Range(t) : w[x] = <<x>>
    PROVE  Expand(t, w) = t
<1> DEFINE Good == {s \in Seq(P) :
                       (\A x \in Range(s) : w[x] = <<x>>) => Expand(s, w) = s}
<1>1. << >> \in Good
  BY ExpandEmpty, EmptySeq
<1>2. ASSUME NEW s \in Good, NEW x \in P
      PROVE  Append(s, x) \in Good
  <2>1. Append(s, x) \in Seq(P)
    BY AppendProperties
  <2>2. ASSUME \A y \in Range(Append(s, x)) : w[y] = <<y>>
        PROVE  Expand(Append(s, x), w) = Append(s, x)
    <3>1. Range(Append(s, x)) = Range(s) \cup {x}
      BY RangeOfAppend
    <3>2. (\A y \in Range(s) : w[y] = <<y>>) /\ w[x] = <<x>>
      BY <2>2, <3>1
    <3>3. Expand(s, w) = s
      BY <3>2
    <3>4. Expand(Append(s, x), w) = Expand(s, w) \o w[x]
      BY ExpandAppend
    <3>5. Append(s, x) = s \o <<x>>
      BY AppendIsConcat
    <3> QED
      BY <3>2, <3>3, <3>4, <3>5
  <2> QED
    BY <2>1, <2>2
<1>3. Good = Seq(P)
  <2>1. Good \in SUBSET Seq(P)
    OBVIOUS
  <2> HIDE DEF Good
  <2> QED
    BY <1>1, <1>2, <2>1, EverySequence
<1> QED
  BY <1>3

\* A piece that no replacement brings in comes from the text.
LEMMA RangeOfExpand ==
    ASSUME NEW P, NEW w, Replacement(P, w), NEW t \in Seq(P)
    PROVE  Range(Expand(t, w)) = UNION {Range(w[x]) : x \in Range(t)}
<1> DEFINE Parts(s) == UNION {Range(w[x]) : x \in Range(s)}
           Good == {s \in Seq(P) : Range(Expand(s, w)) = Parts(s)}
<1>0. Range(<< >>) = {}
  BY EmptySeq DEF Range
<1>1. << >> \in Good
  BY <1>0, ExpandEmpty, EmptySeq
<1>2. ASSUME NEW s \in Good, NEW x \in P
      PROVE  Append(s, x) \in Good
  <2>1. /\ Append(s, x) \in Seq(P) /\ Expand(s, w) \in Seq(P)
        /\ w[x] \in Seq(P)
    BY AppendProperties, ExpandType DEF Replacement
  <2>2. Expand(Append(s, x), w) = Expand(s, w) \o w[x]
    BY ExpandAppend
  <2>3. Range(Expand(s, w) \o w[x]) = Range(Expand(s, w)) \cup Range(w[x])
    BY <2>1, RangeConcatenation
  <2>4. Range(Append(s, x)) = Range(s) \cup {x}
    BY RangeOfAppend
  <2>5. Parts(Append(s, x)) = Parts(s) \cup Range(w[x])
    BY <2>4
  <2>6. Range(Expand(s, w)) = Parts(s)
    OBVIOUS
  <2> HIDE DEF Parts
  <2> QED
    BY <2>1, <2>2, <2>3, <2>5, <2>6
<1>3. Good = Seq(P)
  <2>1. Good \in SUBSET Seq(P)
    OBVIOUS
  <2> HIDE DEF Good
  <2> QED
    BY <1>1, <1>2, <2>1, EverySequence
<1> QED
  BY <1>3
-----------------------------------------------------------------------------
(* Sequences, as functions of their places. *)

\* The least element of a non-empty set of numbers.
LEMMA MinIs ==
    ASSUME NEW S \in SUBSET Nat, S # {}
    PROVE  Min(S) \in S /\ \A n \in S : Min(S) <= n
<1>1. \E x \in S : \A y \in S : x =< y
  BY LeastNumber
<1> QED
  BY <1>1, Zenon DEF Min

\* 1..n has n elements.
LEMMA IntervalIsFinite == \A n \in Nat : IsFiniteSet(1..n) /\ Cardinality(1..n) = n
BY FS_Interval

\* What a function given step by step keeps, it keeps to the end.
LEMMA EveryStep ==
    ASSUME NEW n \in Nat, NEW Good \in SUBSET (0..n), 0 \in Good,
           \A k \in 1..n : k - 1 \in Good => k \in Good
    PROVE  Good = 0..n
<1> DEFINE T == {k \in Nat : k <= n => k \in Good}
<1>1. ASSUME NEW k \in T
      PROVE  k + 1 \in T
  <2> SUFFICES ASSUME k + 1 <= n PROVE k + 1 \in Good
    OBVIOUS
  <2>1. k + 1 \in 1..n /\ (k + 1) - 1 = k /\ k <= n
    OBVIOUS
  <2>2. k \in Good
    BY <2>1
  <2> QED
    BY <2>1, <2>2
<1>2. T = Nat
  <2>1. T \in SUBSET Nat /\ 0 \in T
    OBVIOUS
  <2> HIDE DEF T
  <2> QED
    BY <1>1, <2>1, EveryNumber
<1>3. \A k \in 0..n : k \in T /\ k <= n
  <2> HIDE DEF T
  <2> QED
    BY <1>2
<1>4. \A k \in 0..n : k \in Good
  BY <1>3
<1> QED
  BY <1>4

\* A sequence of some elements is one of any set that holds them.
LEMMA SeqOfMore ==
    ASSUME NEW S, NEW T, S \subseteq T, NEW s \in Seq(S)
    PROVE  /\ s \in Seq(T) /\ DOMAIN s = 1..Len(s) /\ Len(s) \in Nat
           /\ \A k \in DOMAIN s : s[k] \in S
<1> DEFINE n == Len(s)
<1>1. n \in Nat /\ DOMAIN s = 1..n /\ s \in [1..n -> S]
  BY LenProperties
<1> HIDE DEF n
<1>2. s \in [1..n -> T]
  BY <1>1
<1>3. s \in Seq(T)
  BY <1>1, <1>2, SeqDef
<1> QED
  BY <1>1, <1>3 DEF n

\* The length of a function on 1..n.
LEMMA LenOfFunction ==
    ASSUME NEW n \in Nat, NEW f, f = [i \in 1..n |-> f[i]]
    PROVE  Len(f) = n /\ DOMAIN f = 1..n
<1>1. f \in [1..n -> Range(f)]
  BY DEF Range
<1>2. f \in Seq(Range(f))
  BY <1>1, SeqDef
<1> QED
  BY <1>1, <1>2, LenProperties

\* A sequence whose last element is replaced.
LEMMA ReplaceLast ==
    ASSUME NEW S, NEW s \in Seq(S), s # << >>, NEW x \in S
    PROVE  [s EXCEPT ![Len(s)] = x] \in Seq(S)
<1> DEFINE n == Len(s)
<1>1. n \in Nat /\ s \in [1..n -> S]
  BY LenProperties
<1> HIDE DEF n
<1>2. [s EXCEPT ![n] = x] \in [1..n -> S]
  BY <1>1
<1> QED
  BY <1>1, <1>2, SeqDef DEF n

-----------------------------------------------------------------------------
(* What sequences of sequences hold, one after the other. *)

\* The sequences of a sequence hold, one after the other, what each of them holds.
LEMMA RangeOfFlatten ==
    ASSUME NEW S, NEW q \in Seq(Seq(S))
    PROVE  /\ FlattenSeq(q) \in Seq(S)
           /\ Range(FlattenSeq(q)) = UNION {Range(x) : x \in Range(q)}
<1> DEFINE Parts(p) == UNION {Range(x) : x \in Range(p)}
           Good == {p \in Seq(Seq(S)) :
                       FlattenSeq(p) \in Seq(S) /\ Range(FlattenSeq(p)) = Parts(p)}
<1>1. << >> \in Good
  <2>1. Range(<< >>) = {}
    BY EmptySeq DEF Range
  <2> QED
    BY <2>1, FlattenEmpty, EmptySeq
<1>2. ASSUME NEW p \in Good, NEW x \in Seq(S)
      PROVE  Append(p, x) \in Good
  <2>1. Append(p, x) \in Seq(Seq(S)) /\ FlattenSeq(p) \in Seq(S)
    BY AppendProperties
  <2>2. FlattenSeq(Append(p, x)) = FlattenSeq(p) \o x
    BY FlattenAppend
  <2>3. /\ FlattenSeq(p) \o x \in Seq(S)
        /\ Range(FlattenSeq(p) \o x) = Range(FlattenSeq(p)) \cup Range(x)
    BY <2>1, RangeConcatenation, ConcatProperties
  <2>4. Range(Append(p, x)) = Range(p) \cup {x}
    BY RangeOfAppend
  <2>5. Parts(Append(p, x)) = Parts(p) \cup Range(x)
    BY <2>4
  <2>6. Range(FlattenSeq(p)) = Parts(p)
    OBVIOUS
  <2> HIDE DEF Parts
  <2> QED
    BY <2>1, <2>2, <2>3, <2>5, <2>6
<1>3. Good = Seq(Seq(S))
  <2>1. Good \in SUBSET Seq(Seq(S))
    OBVIOUS
  <2> HIDE DEF Good
  <2> QED
    BY <1>1, <1>2, <2>1, EverySequence
<1> QED
  BY <1>3

\* No element twice in one of the sequences, nor in two of them.
Disjoint(q) ==
    /\ \A i \in DOMAIN q : IsInjective(q[i])
    /\ \A i, j \in DOMAIN q : i # j => Range(q[i]) \cap Range(q[j]) = {}

\* Two sequences with nothing in common repeat nothing one after the other.
LEMMA InjectiveConcat ==
    ASSUME NEW S, NEW s \in Seq(S), NEW t \in Seq(S),
           IsInjective(s), IsInjective(t), Range(s) \cap Range(t) = {}
    PROVE  IsInjective(s \o t)
<1> DEFINE u == s \o t
           m == Len(s)
           n == Len(t)
<1>1. /\ m \in Nat /\ n \in Nat /\ DOMAIN s = 1..m /\ DOMAIN t = 1..n
      /\ DOMAIN u = 1..(m + n)
      /\ \A k \in 1..(m + n) : u[k] = IF k <= m THEN s[k] ELSE t[k - m]
  <2>1. /\ u \in Seq(S) /\ Len(u) = m + n
        /\ \A k \in 1..(m + n) : u[k] = IF k <= m THEN s[k] ELSE t[k - m]
    BY ConcatProperties
  <2> QED
    BY <2>1, LenProperties
<1> HIDE DEF u, m, n
<1>2. ASSUME NEW i \in 1..(m + n), NEW j \in 1..(m + n), u[i] = u[j], i <= m
      PROVE  i = j
  <2>1. i \in 1..m /\ u[i] = s[i]
    BY <1>1, <1>2
  <2>2. CASE j <= m
    <3>1. j \in 1..m /\ u[j] = s[j]
      BY <1>1, <2>2
    <3> QED
      BY <1>1, <1>2, <2>1, <3>1 DEF IsInjective
  <2>3. CASE ~ j <= m
    <3>1. j - m \in 1..n /\ u[j] = t[j - m]
      BY <1>1, <2>3
    <3>2. u[i] \in Range(s) /\ u[j] \in Range(t)
      BY <1>1, <2>1, <3>1 DEF Range
    <3> QED
      BY <1>2, <3>2
  <2> QED
    BY <2>2, <2>3
<1>3. ASSUME NEW i \in 1..(m + n), NEW j \in 1..(m + n), u[i] = u[j],
             ~ i <= m, ~ j <= m
      PROVE  i = j
  <2>1. /\ i - m \in 1..n /\ u[i] = t[i - m]
        /\ j - m \in 1..n /\ u[j] = t[j - m]
    BY <1>1, <1>3
  <2>2. i - m = j - m
    BY <1>1, <1>3, <2>1 DEF IsInjective
  <2> QED
    BY <1>1, <2>2
<1>4. ASSUME NEW i \in 1..(m + n), NEW j \in 1..(m + n), u[i] = u[j]
      PROVE  i = j
  BY <1>2, <1>3, <1>4
<1> QED
  BY <1>1, <1>4 DEF IsInjective, u

\* Nor do any number of them.
LEMMA InjectiveFlatten ==
    ASSUME NEW S, NEW q \in Seq(Seq(S)), Disjoint(q)
    PROVE  IsInjective(FlattenSeq(q))
<1> DEFINE Good == {p \in Seq(Seq(S)) : Disjoint(p) => IsInjective(FlattenSeq(p))}
<1>1. << >> \in Good
  <2>1. DOMAIN << >> = {}
    OBVIOUS
  <2> QED
    BY <2>1, FlattenEmpty, EmptySeq DEF IsInjective
<1>2. ASSUME NEW p \in Good, NEW x \in Seq(S)
      PROVE  Append(p, x) \in Good
  <2> DEFINE r == Append(p, x)
             n == Len(p)
  <2>1. /\ r \in Seq(Seq(S)) /\ p \in Seq(Seq(S)) /\ n \in Nat
        /\ DOMAIN p = 1..n /\ DOMAIN r = 1..(n + 1)
        /\ r[n + 1] = x /\ \A i \in 1..n : r[i] = p[i]
    BY AppendProperties, LenProperties
  <2>2. FlattenSeq(r) = FlattenSeq(p) \o x /\ FlattenSeq(p) \in Seq(S)
    BY <2>1, FlattenAppend
  <2>3. Range(FlattenSeq(p)) = UNION {Range(y) : y \in Range(p)}
    BY <2>1, RangeOfFlatten
  <2> HIDE DEF r, n
  <2> SUFFICES ASSUME Disjoint(r) PROVE IsInjective(FlattenSeq(r))
    BY <2>1 DEF r
  <2>4. \A i \in 1..n : i \in 1..(n + 1) /\ i # n + 1 /\ n + 1 \in 1..(n + 1)
    BY <2>1
  <2>5. Disjoint(p) /\ IsInjective(x) /\ \A i \in 1..n : Range(p[i]) \cap Range(x) = {}
    <3>1. \A i \in 1..(n + 1) : IsInjective(r[i])
      BY <2>1 DEF Disjoint
    <3>2. \A i, j \in 1..(n + 1) : i # j => Range(r[i]) \cap Range(r[j]) = {}
      BY <2>1 DEF Disjoint
    <3>3. \A i \in 1..n : IsInjective(p[i])
      BY <2>1, <2>4, <3>1
    <3>4. \A i, j \in 1..n : i # j => Range(p[i]) \cap Range(p[j]) = {}
      BY <2>1, <2>4, <3>2
    <3>5. \A i \in 1..n : Range(p[i]) \cap Range(x) = {}
      BY <2>1, <2>4, <3>2
    <3>6. IsInjective(x)
      <4>1. n + 1 \in 1..(n + 1)
        BY <2>1
      <4> QED
        BY <2>1, <3>1, <4>1
    <3>7. Disjoint(p)
      BY <2>1, <3>3, <3>4 DEF Disjoint
    <3> QED
      BY <3>5, <3>6, <3>7
  <2>6. Range(FlattenSeq(p)) \cap Range(x) = {}
    <3>1. \A y \in Range(p) : \E i \in 1..n : y = p[i]
      BY <2>1 DEF Range
    <3>2. \A y \in Range(p) : Range(y) \cap Range(x) = {}
      BY <2>5, <3>1
    <3> QED
      BY <2>3, <3>2
  <2>7. IsInjective(FlattenSeq(p))
    BY <2>5
  <2> QED
    BY <2>2, <2>5, <2>6, <2>7, InjectiveConcat
<1>3. Good = Seq(Seq(S))
  <2>1. Good \in SUBSET Seq(Seq(S))
    OBVIOUS
  <2> HIDE DEF Good
  <2> QED
    BY <1>1, <1>2, <2>1, EverySequence
<1> QED
  BY <1>3

-----------------------------------------------------------------------------
(* Sums over the parts of a set, and how many elements they have. *)

\* The sum over two sets that have nothing in common.
LEMMA SumOfTwoSets ==
    ASSUME NEW E, IsFiniteSet(E), NEW f \in [E -> Nat],
           NEW S \in SUBSET E, NEW T \in SUBSET E, S \cap T = {}
    PROVE  SumFunctionOnSet(f, S \cup T)
               = SumFunctionOnSet(f, S) + SumFunctionOnSet(f, T)
<1> DEFINE F(R) == SumFunctionOnSet(f, R)
           Good == {R \in SUBSET T : F(S \cup R) = F(S) + F(R)}
<1>1. /\ F({}) = 0
      /\ \A R \in SUBSET E : F(R) \in Nat
      /\ \A R \in SUBSET E : \A x \in R : F(R) = f[x] + F(R \ {x})
  <2> HIDE DEF Good
  <2> QED
    BY SumStep
<1> HIDE DEF F
<1>2. {} \in Good
  <2>1. S \cup {} = S
    OBVIOUS
  <2> QED
    BY <1>1, <2>1
<1>3. ASSUME NEW R \in SUBSET T, NEW x \in R, R \ {x} \in Good
      PROVE  R \in Good
  <2> DEFINE U == S \cup R
             V == S \cup (R \ {x})
             Q == R \ {x}
  <2>1. U \ {x} = V /\ U \in SUBSET E /\ x \in U /\ Q \in SUBSET E /\ R \in SUBSET E
    OBVIOUS
  <2>2. F(V) = F(S) + F(Q)
    BY <1>3
  <2> HIDE DEF U, V, Q
  <2>3. F(U) = f[x] + F(V)
    BY <1>1, <2>1
  <2>4. F(R) = f[x] + F(Q)
    BY <1>1, <2>1 DEF Q
  <2>5. f[x] \in Nat /\ F(S) \in Nat /\ F(Q) \in Nat
    BY <1>1, <2>1
  <2> DEFINE y == f[x]
             a == F(S)
             b == F(Q)
             c == F(V)
  <2>6. F(U) = y + c /\ c = a + b /\ F(R) = y + b /\ y \in Nat /\ a \in Nat /\ b \in Nat
    BY <2>2, <2>3, <2>4, <2>5
  <2>7. F(U) = F(S) + F(R)
    <3>1. F(S) = a
      OBVIOUS
    <3> HIDE DEF y, a, b, c
    <3> QED
      BY <2>6, <3>1
  <2> QED
    BY <2>7 DEF U
<1>4. T \in Good
  <2>1. Good \in SUBSET (SUBSET T) /\ IsFiniteSet(T)
    BY FS_Subset
  <2> HIDE DEF Good
  <2> QED
    BY <1>2, <1>3, <2>1, SumInduction
<1> QED
  BY <1>4 DEF F

\* The sum over a set is that over its parts.
LEMMA SumOfParts ==
    ASSUME NEW E, IsFiniteSet(E), NEW f \in [E -> Nat],
           NEW K, IsFiniteSet(K), NEW P \in [K -> SUBSET E],
           \A j, k \in K : j # k => P[j] \cap P[k] = {}
    PROVE  SumFunctionOnSet(f, UNION {P[k] : k \in K})
               = SumFunction([k \in K |-> SumFunctionOnSet(f, P[k])])
<1> DEFINE F(R) == SumFunctionOnSet(f, R)
           g == [k \in K |-> F(P[k])]
           G(R) == SumFunctionOnSet(g, R)
           All(R) == UNION {P[k] : k \in R}
           Good == {R \in SUBSET K : F(All(R)) = G(R)}
<1>1. F({}) = 0 /\ \A R \in SUBSET E : F(R) \in Nat
  <2> HIDE DEF Good, g
  <2> QED
    BY SumStep
<1>2. /\ G({}) = 0
      /\ \A R \in SUBSET K : G(R) \in Nat
      /\ \A R \in SUBSET K : \A x \in R : G(R) = g[x] + G(R \ {x})
  <2>1. g \in [K -> Nat]
    BY <1>1
  <2> HIDE DEF Good, g
  <2> QED
    BY <2>1, SumStep
<1>3. {} \in Good
  <2>1. All({}) = {}
    OBVIOUS
  <2> HIDE DEF F, G, All
  <2> QED
    BY <1>1, <1>2, <2>1
<1>4. ASSUME NEW R \in SUBSET K, NEW x \in R, R \ {x} \in Good
      PROVE  R \in Good
  <2> DEFINE Q == R \ {x}
             A == All(Q)
             B == P[x]
  <2>1. All(R) = A \cup B
    OBVIOUS
  <2>2. A \cap B = {} /\ A \in SUBSET E /\ B \in SUBSET E
    OBVIOUS
  <2>3. F(A) = G(Q)
    BY <1>4
  <2>4. g[x] = F(B)
    OBVIOUS
  <2> HIDE DEF A, B, All, g, Good
  <2>5. F(A \cup B) = F(A) + F(B)
    BY <2>2, SumOfTwoSets
  <2>6. F(A) \in Nat /\ F(B) \in Nat
    BY <1>1, <2>2
  <2>7. G(R) = g[x] + G(Q)
    BY <1>2
  <2> HIDE DEF F, G
  <2>8. F(All(R)) = G(R)
    BY <2>1, <2>3, <2>4, <2>5, <2>6, <2>7
  <2> QED
    BY <2>8 DEF Good
<1>5. K \in Good
  <2>1. Good \in SUBSET (SUBSET K)
    OBVIOUS
  <2> HIDE DEF Good
  <2> QED
    BY <1>3, <1>4, <2>1, SumInduction
<1>6. F(All(K)) = G(K)
  BY <1>5
<1>7. DOMAIN g = K
  OBVIOUS
<1> HIDE DEF g
<1>8. G(K) = SumFunction(g)
  BY <1>7 DEF SumFunction
<1> QED
  BY <1>6, <1>8 DEF g

\* A sum of some of the terms, as a function of those only.
LEMMA SumOfSome ==
    ASSUME NEW E, IsFiniteSet(E), NEW f \in [E -> Nat], NEW T \in SUBSET E
    PROVE  SumFunction([x \in T |-> f[x]]) = SumFunctionOnSet(f, T)
<1> DEFINE h == [x \in T |-> f[x]]
           F(R) == SumFunctionOnSet(f, R)
           H(R) == SumFunctionOnSet(h, R)
           Good == {R \in SUBSET T : H(R) = F(R)}
<1>0. h \in [T -> Nat] /\ IsFiniteSet(T) /\ \A x \in T : h[x] = f[x]
  BY FS_Subset
<1> HIDE DEF h
<1>1. /\ F({}) = 0
      /\ \A R \in SUBSET E : F(R) \in Nat
      /\ \A R \in SUBSET E : \A x \in R : F(R) = f[x] + F(R \ {x})
  <2> HIDE DEF Good
  <2> QED
    BY SumStep
<1>2. /\ H({}) = 0
      /\ \A R \in SUBSET T : \A x \in R : H(R) = h[x] + H(R \ {x})
  <2> HIDE DEF Good
  <2> QED
    BY <1>0, SumStep
<1> HIDE DEF F, H
<1>3. {} \in Good
  BY <1>1, <1>2
<1>4. ASSUME NEW R \in SUBSET T, NEW x \in R, R \ {x} \in Good
      PROVE  R \in Good
  <2>1. H(R \ {x}) = F(R \ {x})
    BY <1>4
  <2>2. H(R) = h[x] + H(R \ {x}) /\ F(R) = f[x] + F(R \ {x}) /\ h[x] = f[x]
    BY <1>0, <1>1, <1>2
  <2> QED
    BY <2>1, <2>2
<1>5. T \in Good
  <2>1. Good \in SUBSET (SUBSET T)
    OBVIOUS
  <2> HIDE DEF Good
  <2> QED
    BY <1>0, <1>3, <1>4, <2>1, SumInduction
<1>6. F(T) = H(T)
  BY <1>5
<1> QED
  BY <1>0, <1>6 DEF SumFunction, F, H, h

\* Adding one for each element counts the elements.
LEMMA SumOfOnes ==
    ASSUME NEW E, IsFiniteSet(E)
    PROVE  \A T \in SUBSET E : SumFunctionOnSet([x \in E |-> 1], T) = Cardinality(T)
<1> DEFINE f == [x \in E |-> 1]
           F(R) == SumFunctionOnSet(f, R)
<1>0. f \in [E -> Nat] /\ \A x \in E : f[x] = 1
  OBVIOUS
<1> HIDE DEF f
<1>1. /\ F({}) = 0
      /\ \A R \in SUBSET E : \A x \in R : F(R) = f[x] + F(R \ {x})
  BY <1>0, SumStep
<1> HIDE DEF F
<1>2. ASSUME NEW T \in SUBSET E
      PROVE  F(T) = Cardinality(T)
  <2> DEFINE Good == {R \in SUBSET T : F(R) = Cardinality(R)}
  <2>1. {} \in Good
    BY <1>1, FS_EmptySet
  <2>2. ASSUME NEW R \in SUBSET T, NEW x \in R, R \ {x} \in Good
        PROVE  R \in Good
    <3>1. F(R) = 1 + F(R \ {x})
      BY <1>0, <1>1
    <3>2. F(R \ {x}) = Cardinality(R \ {x})
      BY <2>2
    <3>3. IsFiniteSet(R)
      BY FS_Subset
    <3>4. Cardinality(R \ {x}) = Cardinality(R) - 1 /\ Cardinality(R) \in Nat
      BY <3>3, FS_RemoveElement, FS_CardinalityType
    <3> QED
      BY <3>1, <3>2, <3>4
  <2>3. Good \in SUBSET (SUBSET T) /\ IsFiniteSet(T)
    BY FS_Subset
  <2>4. T \in Good
    <3> HIDE DEF Good
    <3> QED
      BY <2>1, <2>2, <2>3, SumInduction
  <2> QED
    BY <2>4
<1> QED
  BY <1>2 DEF F, f

\* The elements of a set are those of its parts.
LEMMA CountOfParts ==
    ASSUME NEW E, IsFiniteSet(E),
           NEW K, IsFiniteSet(K), NEW P \in [K -> SUBSET E],
           \A j, k \in K : j # k => P[j] \cap P[k] = {}
    PROVE  SumFunction([k \in K |-> Cardinality(P[k])])
               = Cardinality(UNION {P[k] : k \in K})
<1> DEFINE f == [x \in E |-> 1]
           U == UNION {P[k] : k \in K}
<1>1. \A T \in SUBSET E : SumFunctionOnSet(f, T) = Cardinality(T)
  BY SumOfOnes
<1>2. f \in [E -> Nat] /\ U \in SUBSET E
  OBVIOUS
<1> HIDE DEF f
<1>3. SumFunctionOnSet(f, U) = SumFunction([k \in K |-> SumFunctionOnSet(f, P[k])])
  BY <1>2, SumOfParts
<1>4. [k \in K |-> SumFunctionOnSet(f, P[k])] = [k \in K |-> Cardinality(P[k])]
  BY <1>1
<1>5. SumFunctionOnSet(f, U) = Cardinality(U)
  BY <1>1, <1>2
<1> QED
  BY <1>3, <1>4, <1>5

\* Two parts of a finite set, counted.
Sized(E, A, B) ==
    /\ Cardinality(B \ A) = Cardinality(B) - Cardinality(A \cap B)
    /\ Cardinality(A \ B) = Cardinality(A) - Cardinality(A \cap B)
    /\ Cardinality(E \ (A \cup B)) =
          Cardinality(E) - Cardinality(B) - Cardinality(A) + Cardinality(A \cap B)
    /\ Cardinality(A \cap B) \in Nat /\ Cardinality(B \ A) \in Nat
    /\ Cardinality(A \ B) \in Nat /\ Cardinality(E \ (A \cup B)) \in Nat
    /\ Cardinality(E) \in Nat

\* The parts of a finite set that are in both of two sets, in one or in none.
LEMMA FourKinds ==
    ASSUME NEW E, IsFiniteSet(E), NEW A \in SUBSET E, NEW B \in SUBSET E
    PROVE  Sized(E, A, B)
<1> DEFINE c(S) == Cardinality(S)
           U == A \cup B
           I == A \cap B
<1>1. \A S \in SUBSET E : IsFiniteSet(S) /\ c(S) \in Nat
  BY FS_Subset, FS_CardinalityType
<1>2. U \in SUBSET E /\ I \in SUBSET E /\ B \cap A = I /\ A \cap B = I /\ E \cap U = U
      /\ B \ A \in SUBSET E /\ A \ B \in SUBSET E /\ E \ U \in SUBSET E /\ E \in SUBSET E
  OBVIOUS
<1>3. c(B \ A) = c(B) - c(B \cap A)
  BY <1>1, FS_Difference
<1>4. c(A \ B) = c(A) - c(A \cap B)
  BY <1>1, FS_Difference
<1>5. c(E \ U) = c(E) - c(E \cap U)
  <2> HIDE DEF U
  <2> QED
    BY FS_Difference
<1>6. c(A \cup B) = c(A) + c(B) - c(A \cap B)
  BY <1>1, FS_Union
<1>7. c(U) = c(A) + c(B) - c(I)
  BY <1>6
<1>8. c(B \ A) = c(B) - c(I) /\ c(A \ B) = c(A) - c(I) /\ c(E \ U) = c(E) - c(U)
  BY <1>2, <1>3, <1>4, <1>5
<1>9. /\ c(I) \in Nat /\ c(A) \in Nat /\ c(B) \in Nat /\ c(E) \in Nat
      /\ c(B \ A) \in Nat /\ c(A \ B) \in Nat /\ c(E \ U) \in Nat
  BY <1>1, <1>2
<1>10. c(E \ U) = c(E) - c(B) - c(A) + c(I)
  <2> DEFINE a == c(A)
             b == c(B)
             i == c(I)
             e == c(E)
             u == c(U)
             d == c(E \ U)
  <2>1. d = e - u /\ u = a + b - i /\ a \in Nat /\ b \in Nat /\ i \in Nat /\ e \in Nat
    BY <1>7, <1>8, <1>9
  <2>2. d = e - b - a + i
    <3> HIDE DEF a, b, i, e, u, d
    <3> QED
      BY <2>1
  <2> QED
    BY <2>2
<1> QED
  BY <1>8, <1>9, <1>10 DEF Sized

-----------------------------------------------------------------------------
(* Sums key by key. *)

\* The elements that have a key.
WithKey(E, key, k) == {i \in E : key[i] = k}

\* The keys there are.
Keys(E, key) == {key[i] : i \in E}

\* Every element has one key.
LEMMA KeysPartition ==
    ASSUME NEW E, IsFiniteSet(E), NEW key
    PROVE  LET P == [k \in Keys(E, key) |-> WithKey(E, key, k)] IN
           /\ IsFiniteSet(Keys(E, key))
           /\ P \in [Keys(E, key) -> SUBSET E]
           /\ \A j, k \in Keys(E, key) : j # k => P[j] \cap P[k] = {}
           /\ UNION {P[k] : k \in Keys(E, key)} = E
<1>1. IsFiniteSet(Keys(E, key))
  <2> DEFINE f == [i \in E |-> key[i]]
             K == Keys(E, key)
  <2>1. f \in Surjection(E, K)
    BY DEF Surjection, Keys
  <2> HIDE DEF f, K
  <2>2. IsFiniteSet(K)
    BY <2>1, FS_Surjection
  <2> QED
    BY <2>2 DEF K
<1> DEFINE K == Keys(E, key)
           P == [k \in K |-> WithKey(E, key, k)]
<1>2. \A k \in K : P[k] = WithKey(E, key, k)
  OBVIOUS
<1>3. \A k \in K : \A i : i \in P[k] <=> i \in E /\ key[i] = k
  BY <1>2 DEF WithKey
<1>4. \A i \in E : key[i] \in K
  BY DEF Keys
<1>5. P = [k \in K |-> P[k]]
  OBVIOUS
<1> HIDE DEF P, K
<1>6. P \in [K -> SUBSET E]
  BY <1>3, <1>5
<1>7. \A j, k \in K : j # k => P[j] \cap P[k] = {}
  BY <1>3
<1>8. UNION {P[k] : k \in K} = E
  <2>1. \A i \in E : i \in P[key[i]]
    BY <1>3, <1>4
  <2> QED
    BY <1>3, <1>4, <2>1
<1> QED
  BY <1>1, <1>6, <1>7, <1>8 DEF P, K

\* The sum of the sums over the elements of each key.
KeySum(E, key, f) ==
    SumFunction([k \in Keys(E, key) |->
                    SumFunction([i \in WithKey(E, key, k) |-> f[i]])])

\* Sums over the elements of each key add up to the sum over all.
LEMMA KeysAddUp ==
    ASSUME NEW E, IsFiniteSet(E), NEW key, NEW f \in [E -> Nat]
    PROVE  KeySum(E, key, f) = SumFunction([i \in E |-> f[i]])
<1> DEFINE K == Keys(E, key)
           P == [k \in K |-> WithKey(E, key, k)]
           F(S) == SumFunctionOnSet(f, S)
           part(k) == SumFunction([i \in WithKey(E, key, k) |-> f[i]])
<1>1. /\ IsFiniteSet(K) /\ P \in [K -> SUBSET E]
      /\ \A j, k \in K : j # k => P[j] \cap P[k] = {}
      /\ UNION {P[k] : k \in K} = E
  BY KeysPartition
<1>2. \A k \in K : part(k) = F(P[k])
  <2> TAKE k \in K
  <2> DEFINE T == WithKey(E, key, k)
  <2>1. T \in SUBSET E
    BY DEF WithKey
  <2> HIDE DEF T
  <2>2. SumFunction([i \in T |-> f[i]]) = SumFunctionOnSet(f, T)
    BY <2>1, SumOfSome
  <2> QED
    BY <2>2 DEF T
<1>3. SumFunction([i \in E |-> f[i]]) = F(E)
  BY SumOfSome
<1> HIDE DEF P, K
<1>4. F(UNION {P[k] : k \in K}) = SumFunction([k \in K |-> F(P[k])])
  BY <1>1, SumOfParts
<1> HIDE DEF F, part
<1>5. [k \in K |-> part(k)] = [k \in K |-> F(P[k])]
  BY <1>2
<1>6. SumFunction([k \in K |-> part(k)]) = SumFunction([i \in E |-> f[i]])
  BY <1>1, <1>3, <1>4, <1>5
<1> QED
  BY <1>6 DEF part, K, KeySum

\* The elements of a set, counted key by key.
LEMMA KeysCount ==
    ASSUME NEW E, IsFiniteSet(E), NEW key, NEW S \in SUBSET E
    PROVE  SumFunction([k \in Keys(E, key) |-> Cardinality(WithKey(E, key, k) \cap S)])
               = Cardinality(S)
<1> DEFINE K == Keys(E, key)
           P == [k \in K |-> WithKey(E, key, k)]
           Q == [k \in K |-> P[k] \cap S]
<1>1. /\ IsFiniteSet(K) /\ P \in [K -> SUBSET E]
      /\ \A j, k \in K : j # k => P[j] \cap P[k] = {}
      /\ UNION {P[k] : k \in K} = E
  BY KeysPartition
<1>2. \A k \in K : P[k] = WithKey(E, key, k)
  OBVIOUS
<1> HIDE DEF P, K
<1>3. /\ Q \in [K -> SUBSET E]
      /\ \A j, k \in K : j # k => Q[j] \cap Q[k] = {}
      /\ UNION {Q[k] : k \in K} = S
  <2>1. Q \in [K -> SUBSET E]
    BY <1>1
  <2>2. \A j, k \in K : j # k => Q[j] \cap Q[k] = {}
    BY <1>1
  <2>3. ASSUME NEW i \in S
        PROVE  \E k \in K : i \in Q[k]
    <3>1. PICK k \in K : i \in P[k]
      BY <1>1
    <3> QED
      BY <3>1
  <2>4. \A k \in K : Q[k] \subseteq S
    OBVIOUS
  <2> HIDE DEF Q
  <2> QED
    BY <2>1, <2>2, <2>3, <2>4
<1>4. [k \in K |-> Cardinality(Q[k])] = [k \in K |-> Cardinality(WithKey(E, key, k) \cap S)]
  BY <1>2
<1> HIDE DEF Q
<1>5. SumFunction([k \in K |-> Cardinality(Q[k])]) = Cardinality(UNION {Q[k] : k \in K})
  BY <1>1, <1>3, CountOfParts
<1> QED
  BY <1>3, <1>4, <1>5 DEF K
=============================================================================
