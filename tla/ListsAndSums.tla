---------------------------- MODULE ListsAndSums ----------------------------
(***************************************************************************)
(* What the proofs share: what unlinking and appending do to a list, and   *)
(* sums over finite sets, the MapThenSumSet that the ledgers count with.   *)
(* Induction is by a least counterexample, over sets instead of over       *)
(* predicates.                                                             *)
(***************************************************************************)
EXTENDS Integers, Sequences, Lists, FiniteSetsExt, FiniteSetTheorems,
        WellFoundedInduction, TLAPS

(* A nonempty set of naturals has a least element.                         *)
LEMMA LeastNatural ==
    ASSUME NEW S \in SUBSET Nat, S # {}
    PROVE  \E x \in S : \A y \in S : x <= y
  <1> DEFINE T == {0 .. x : x \in S}
  <1>1. T \subseteq FiniteSubsetsOf(Nat) /\ T # {}
    <2>1. \A x \in S : 0 .. x \subseteq Nat /\ IsFiniteSet(0 .. x)
      BY FS_Interval
    <2> QED
      BY <2>1 DEF FiniteSubsetsOf
  <1>2. PICK X \in T : \A Y \in T : ~(<<Y, X>> \in StrictSubsetOrdering(Nat))
    BY <1>1, FS_StrictSubsetOrderingWellFounded, WFMin
  <1>3. PICK x \in S : X = 0 .. x
    OBVIOUS
  <1>4. ASSUME NEW y \in S, y < x PROVE FALSE
    <2>1. x \in 0 .. x /\ x \notin 0 .. y /\ 0 .. y \subseteq 0 .. x
      BY <1>4
    <2>2. 0 .. y \in T
      OBVIOUS
    <2>3. <<0 .. y, X>> \in StrictSubsetOrdering(Nat)
      BY <1>1, <1>3, <2>1, <2>2 DEF StrictSubsetOrdering, FiniteSubsetsOf
    <2> QED
      BY <1>2, <2>2, <2>3
  <1> QED
    BY <1>4

(* Induction over the naturals, for a set.                                 *)
LEMMA NaturalsBySet ==
    ASSUME NEW Q, 0 \in Q, \A n \in Nat : n \in Q => n + 1 \in Q
    PROVE  Nat \subseteq Q
  <1> SUFFICES ASSUME Nat \ Q # {} PROVE FALSE
    OBVIOUS
  <1>1. PICK n \in Nat \ Q : \A y \in Nat \ Q : n <= y
    BY LeastNatural
  <1>2. n # 0 /\ n - 1 \in Nat
    BY <1>1
  <1>3. n - 1 \in Q
    BY <1>1, <1>2
  <1> QED
    BY <1>2, <1>3

(* Induction over the subsets of a finite set.                             *)
LEMMA SubsetsBySet ==
    ASSUME NEW S, IsFiniteSet(S), NEW Q, {} \in Q,
           \A T \in SUBSET S : \A x \in S \ T : T \in Q => T \union {x} \in Q
    PROVE  \A T \in SUBSET S : T \in Q
  <1> DEFINE N == {n \in Nat : \A T \in SUBSET S : Cardinality(T) = n => T \in Q}
  <1>0. \A T \in SUBSET S : IsFiniteSet(T)
    BY FS_Subset
  <1>1. 0 \in N
    BY <1>0, FS_EmptySet
  <1>2. ASSUME NEW n \in Nat, n \in N PROVE n + 1 \in N
    <2> SUFFICES ASSUME NEW T \in SUBSET S, Cardinality(T) = n + 1 PROVE T \in Q
      OBVIOUS
    <2>1. T # {}
      BY <1>0, FS_EmptySet
    <2>2. PICK x \in T : TRUE
      BY <2>1
    <2>3. Cardinality(T \ {x}) = n
      <3>1. Cardinality(T \ {x}) = Cardinality(T) - 1
        BY <1>0, FS_RemoveElement
      <3> QED
        BY <3>1
    <2>4. T \ {x} \in Q /\ T = (T \ {x}) \union {x}
      BY <1>2, <2>3
    <2> QED
      BY <2>4
  <1>3. Nat \subseteq N
    <2> HIDE DEF N
    <2> QED
      BY <1>1, <1>2, NaturalsBySet
  <1> SUFFICES ASSUME NEW T \in SUBSET S PROVE T \in Q
    OBVIOUS
  <1>4. Cardinality(T) \in Nat
    BY <1>0, FS_CardinalityType
  <1> QED
    BY <1>3, <1>4

-----------------------------------------------------------------------------
(* The sum of a function over a set of its arguments.                      *)
Sum(f, S) == MapThenSumSet(LAMBDA x : f[x], S)

(* The function that MapThenSumSet defines recursively, and its equation.  *)
AnyOf(s) == CHOOSE x \in s : TRUE
Unfold(f, S, g) ==
    [s \in SUBSET S |-> IF s = {} THEN 0 ELSE f[AnyOf(s)] + g[s \ {AnyOf(s)}]]
Partial(f, S) == CHOOSE g : g = Unfold(f, S, g)

(* A sum is that function's value at the whole set.                        *)
LEMMA SumIsPartial ==
    ASSUME NEW f, NEW S PROVE Sum(f, S) = Partial(f, S)[S]
  BY DEF Sum, MapThenSumSet, MapThenFoldSet, Partial, Unfold, AnyOf

(* The recursive equation has a solution over a finite set.                *)
LEMMA PartialExists ==
    ASSUME NEW f, NEW S, IsFiniteSet(S)
    PROVE  Partial(f, S) = Unfold(f, S, Partial(f, S))
  <1> DEFINE Right(h, s) ==
               h[s] = IF s = {} THEN 0 ELSE f[AnyOf(s)] + h[s \ {AnyOf(s)}]
             Upto(h, n) == \A s \in SUBSET S : Cardinality(s) <= n => Right(h, s)
             Q == {n \in Nat : \E h : DOMAIN h = SUBSET S /\ h = [s \in SUBSET S |-> h[s]]
                                      /\ Upto(h, n)}
  <1>0. \A s \in SUBSET S : IsFiniteSet(s) /\ Cardinality(s) \in Nat
    BY FS_Subset, FS_CardinalityType
  <1>1. 0 \in Q
    <2> DEFINE h == [s \in SUBSET S |-> 0]
    <2>1. \A s \in SUBSET S : Cardinality(s) <= 0 => s = {}
      BY <1>0, FS_EmptySet
    <2>2. Upto(h, 0)
      BY <2>1
    <2>3. DOMAIN h = SUBSET S /\ h = [s \in SUBSET S |-> h[s]]
      OBVIOUS
    <2> HIDE DEF h, Upto
    <2> QED
      BY <2>2, <2>3
  <1>2. ASSUME NEW n \in Nat, n \in Q PROVE n + 1 \in Q
    <2>1. PICK h : DOMAIN h = SUBSET S /\ h = [s \in SUBSET S |-> h[s]] /\ Upto(h, n)
      BY <1>2
    <2> DEFINE k == [s \in SUBSET S |->
                       IF Cardinality(s) <= n THEN h[s]
                       ELSE f[AnyOf(s)] + h[s \ {AnyOf(s)}]]
    <2>2. ASSUME NEW s \in SUBSET S, Cardinality(s) <= n + 1 PROVE Right(k, s)
      <3>1. CASE s = {}
        <4>1. Cardinality(s) = 0
          BY <3>1, FS_EmptySet
        <4>2. k[s] = h[s]
          BY <4>1
        <4>3. Upto(h, n)
          BY <2>1
        <4>4. Right(h, s)
          BY ONLY <4>1, <4>3, n \in Nat, s \in SUBSET S
        <4> HIDE DEF k
        <4> QED
          BY ONLY <3>1, <4>2, <4>4
      <3>2. CASE s # {}
        <4>1. AnyOf(s) \in s
          BY <3>2 DEF AnyOf
        <4>2. Cardinality(s \ {AnyOf(s)}) = Cardinality(s) - 1
          BY <1>0, <4>1, FS_RemoveElement
        <4>3. k[s \ {AnyOf(s)}] = h[s \ {AnyOf(s)}]
          BY <1>0, <2>2, <4>2
        <4>4. k[s] = f[AnyOf(s)] + h[s \ {AnyOf(s)}]
          <5>1. CASE Cardinality(s) <= n
            BY <2>1, <3>2, <5>1
          <5>2. CASE ~(Cardinality(s) <= n)
            BY <5>2
          <5> QED
            BY <5>1, <5>2
        <4> QED
          BY <3>2, <4>3, <4>4
      <3> QED
        BY <3>1, <3>2
    <2>3. Upto(k, n + 1)
      BY <2>2
    <2>4. DOMAIN k = SUBSET S /\ k = [s \in SUBSET S |-> k[s]]
      OBVIOUS
    <2> HIDE DEF k, Upto
    <2> QED
      BY <2>3, <2>4
  <1>3. Cardinality(S) \in Q
    <2> HIDE DEF Q
    <2>1. Nat \subseteq Q
      BY <1>1, <1>2, NaturalsBySet
    <2> QED
      BY <1>0, <2>1
  <1>4. PICK h : h = [s \in SUBSET S |-> h[s]] /\ Upto(h, Cardinality(S))
    BY <1>3
  <1>5. \A s \in SUBSET S : Right(h, s)
    BY <1>0, <1>4, FS_Subset
  <1>6. h = Unfold(f, S, h)
    BY <1>4, <1>5 DEF Unfold
  <1> QED
    BY <1>6 DEF Partial

(* The partial sums do not depend on the set they are computed for.        *)
LEMMA PartialAgrees ==
    ASSUME NEW f, NEW S, IsFiniteSet(S), NEW T \in SUBSET S
    PROVE  Partial(f, T)[T] = Partial(f, S)[T]
  <1> DEFINE P == Partial(f, S)
             R == Partial(f, T)
             N == {n \in Nat : \A s \in SUBSET T : Cardinality(s) = n => R[s] = P[s]}
  <1>0. \A s \in SUBSET S : IsFiniteSet(s) /\ Cardinality(s) \in Nat
    BY FS_Subset, FS_CardinalityType
  <1>1. P = Unfold(f, S, P) /\ R = Unfold(f, T, R)
    BY <1>0, PartialExists
  <1> HIDE DEF P, R
  <1>2. /\ \A s \in SUBSET S : P[s] = IF s = {} THEN 0 ELSE f[AnyOf(s)] + P[s \ {AnyOf(s)}]
        /\ \A s \in SUBSET T : R[s] = IF s = {} THEN 0 ELSE f[AnyOf(s)] + R[s \ {AnyOf(s)}]
    BY <1>1 DEF Unfold
  <1>3. 0 \in N
    <2>1. \A s \in SUBSET T : Cardinality(s) = 0 => s = {}
      BY <1>0, FS_EmptySet
    <2>2. P[{}] = 0 /\ R[{}] = 0
      BY <1>2
    <2> QED
      BY <2>1, <2>2
  <1>4. ASSUME NEW n \in Nat, n \in N PROVE n + 1 \in N
    <2> SUFFICES ASSUME NEW s \in SUBSET T, Cardinality(s) = n + 1 PROVE R[s] = P[s]
      OBVIOUS
    <2>1. s # {} /\ AnyOf(s) \in s
      BY <1>0, FS_EmptySet DEF AnyOf
    <2>2. Cardinality(s \ {AnyOf(s)}) = Cardinality(s) - 1
      BY <1>0, <2>1, FS_RemoveElement
    <2>3. R[s \ {AnyOf(s)}] = P[s \ {AnyOf(s)}]
      BY <1>4, <2>2
    <2> QED
      BY <1>2, <2>1, <2>3
  <1>5. Nat \subseteq N
    <2> HIDE DEF N
    <2> QED
      BY <1>3, <1>4, NaturalsBySet
  <1>6. R[T] = P[T]
    BY <1>0, <1>5
  <1> QED
    BY <1>6 DEF P, R

(* The sum of nothing.                                                     *)
LEMMA SumEmpty ==
    ASSUME NEW f PROVE Sum(f, {}) = 0
  <1>1. Partial(f, {}) = Unfold(f, {}, Partial(f, {}))
    BY PartialExists, FS_EmptySet
  <1>2. Partial(f, {})[{}] = 0
    BY <1>1 DEF Unfold
  <1> QED
    BY <1>2, SumIsPartial

(* The sum in the order in which MapThenSumSet takes the elements.         *)
LEMMA SumUnfold ==
    ASSUME NEW f, NEW S, IsFiniteSet(S), S # {}
    PROVE  AnyOf(S) \in S /\ Sum(f, S) = f[AnyOf(S)] + Sum(f, S \ {AnyOf(S)})
  <1>1. AnyOf(S) \in S
    BY DEF AnyOf
  <1>2. Partial(f, S) = Unfold(f, S, Partial(f, S))
    BY PartialExists
  <1>3. Partial(f, S)[S] = f[AnyOf(S)] + Partial(f, S)[S \ {AnyOf(S)}]
    BY <1>2 DEF Unfold
  <1>4. Partial(f, S \ {AnyOf(S)})[S \ {AnyOf(S)}] = Partial(f, S)[S \ {AnyOf(S)}]
    BY PartialAgrees
  <1> QED
    BY <1>1, <1>3, <1>4, SumIsPartial

(* A sum of naturals is a natural.                                         *)
LEMMA SumIsNat ==
    ASSUME NEW S, IsFiniteSet(S), NEW f, \A x \in S : f[x] \in Nat
    PROVE  Sum(f, S) \in Nat
  <1> DEFINE N == {n \in Nat : \A s \in SUBSET S : Cardinality(s) = n => Sum(f, s) \in Nat}
  <1>0. \A s \in SUBSET S : IsFiniteSet(s) /\ Cardinality(s) \in Nat
    BY FS_Subset, FS_CardinalityType
  <1>1. 0 \in N
    <2>1. \A s \in SUBSET S : Cardinality(s) = 0 => s = {}
      BY <1>0, FS_EmptySet
    <2> QED
      BY <2>1, SumEmpty
  <1>2. ASSUME NEW n \in Nat, n \in N PROVE n + 1 \in N
    <2> SUFFICES ASSUME NEW s \in SUBSET S, Cardinality(s) = n + 1 PROVE Sum(f, s) \in Nat
      OBVIOUS
    <2>1. s # {}
      BY <1>0, FS_EmptySet
    <2>2. AnyOf(s) \in s /\ Sum(f, s) = f[AnyOf(s)] + Sum(f, s \ {AnyOf(s)})
      BY <1>0, <2>1, SumUnfold
    <2>3. Cardinality(s \ {AnyOf(s)}) = Cardinality(s) - 1
      BY <1>0, <2>2, FS_RemoveElement
    <2>4. Sum(f, s \ {AnyOf(s)}) \in Nat
      BY <1>2, <2>3
    <2> QED
      BY <2>2, <2>4
  <1>3. Nat \subseteq N
    <2> HIDE DEF N
    <2> QED
      BY <1>1, <1>2, NaturalsBySet
  <1> QED
    BY <1>0, <1>3

(* Any one element can be taken out first.                                 *)
LEMMA SumRemove ==
    ASSUME NEW S, IsFiniteSet(S), NEW f, \A x \in S : f[x] \in Nat, NEW x \in S
    PROVE  Sum(f, S) = f[x] + Sum(f, S \ {x})
  <1> DEFINE N == {n \in Nat : \A s \in SUBSET S : Cardinality(s) = n =>
                                 \A y \in s : Sum(f, s) = f[y] + Sum(f, s \ {y})}
  <1>0. \A s \in SUBSET S : IsFiniteSet(s) /\ Cardinality(s) \in Nat /\ Sum(f, s) \in Nat
    BY FS_Subset, FS_CardinalityType, SumIsNat
  <1>1. 0 \in N
    <2>1. \A s \in SUBSET S : Cardinality(s) = 0 => s = {}
      BY <1>0, FS_EmptySet
    <2> QED
      BY <2>1
  <1>2. ASSUME NEW n \in Nat, n \in N PROVE n + 1 \in N
    <2> SUFFICES ASSUME NEW s \in SUBSET S, Cardinality(s) = n + 1, NEW y \in s
                 PROVE  Sum(f, s) = f[y] + Sum(f, s \ {y})
      OBVIOUS
    <2> DEFINE a == AnyOf(s)
    <2>1. a \in s /\ Sum(f, s) = f[a] + Sum(f, s \ {a})
      BY <1>0, SumUnfold
    <2> HIDE DEF a
    <2>2. CASE a = y
      BY <2>1, <2>2
    <2>3. CASE a # y
      <3>1. Cardinality(s \ {a}) = n /\ Cardinality(s \ {y}) = n
        <4>1. /\ Cardinality(s \ {a}) = Cardinality(s) - 1
              /\ Cardinality(s \ {y}) = Cardinality(s) - 1
          BY <1>0, <2>1, FS_RemoveElement
        <4> QED
          BY <4>1
      <3>2. Sum(f, s \ {a}) = f[y] + Sum(f, (s \ {a}) \ {y})
        BY <1>2, <2>3, <3>1
      <3>3. Sum(f, s \ {y}) = f[a] + Sum(f, (s \ {y}) \ {a})
        BY <1>2, <2>1, <2>3, <3>1
      <3>4. (s \ {a}) \ {y} = (s \ {y}) \ {a}
        OBVIOUS
      <3>5. f[a] \in Nat /\ f[y] \in Nat /\ Sum(f, (s \ {y}) \ {a}) \in Nat
        BY <1>0, <2>1
      <3> QED
        BY <2>1, <3>2, <3>3, <3>4, <3>5
    <2> QED
      BY <2>2, <2>3
  <1>3. Nat \subseteq N
    <2> HIDE DEF N
    <2> QED
      BY <1>1, <1>2, NaturalsBySet
  <1>4. Cardinality(S) \in N
    BY <1>0, <1>3
  <1> QED
    BY <1>4

(* One element more.                                                       *)
LEMMA SumAdd ==
    ASSUME NEW S, IsFiniteSet(S), NEW x, x \notin S,
           NEW f, \A y \in S \union {x} : f[y] \in Nat
    PROVE  Sum(f, S \union {x}) = Sum(f, S) + f[x]
  <1>1. IsFiniteSet(S \union {x}) /\ (S \union {x}) \ {x} = S
    BY FS_AddElement
  <1>2. Sum(f, S \union {x}) = f[x] + Sum(f, (S \union {x}) \ {x})
    BY <1>1, SumRemove
  <1>3. Sum(f, S) \in Nat /\ f[x] \in Nat
    BY SumIsNat
  <1> QED
    BY <1>1, <1>2, <1>3

(* Functions that agree on the set have the same sum.                      *)
LEMMA SumSame ==
    ASSUME NEW S, IsFiniteSet(S), NEW f, NEW g, \A x \in S : f[x] = g[x]
    PROVE  Sum(f, S) = Sum(g, S)
  <1> DEFINE N == {n \in Nat : \A s \in SUBSET S : Cardinality(s) = n =>
                                 Sum(f, s) = Sum(g, s)}
  <1>0. \A s \in SUBSET S : IsFiniteSet(s) /\ Cardinality(s) \in Nat
    BY FS_Subset, FS_CardinalityType
  <1>1. 0 \in N
    <2>1. \A s \in SUBSET S : Cardinality(s) = 0 => s = {}
      BY <1>0, FS_EmptySet
    <2>2. Sum(f, {}) = 0 /\ Sum(g, {}) = 0
      BY SumEmpty
    <2> QED
      BY <2>1, <2>2
  <1>2. ASSUME NEW n \in Nat, n \in N PROVE n + 1 \in N
    <2> SUFFICES ASSUME NEW s \in SUBSET S, Cardinality(s) = n + 1
                 PROVE  Sum(f, s) = Sum(g, s)
      OBVIOUS
    <2> DEFINE a == AnyOf(s)
    <2>1. s # {}
      BY <1>0, FS_EmptySet
    <2>2. /\ a \in s /\ Sum(f, s) = f[a] + Sum(f, s \ {a})
          /\ Sum(g, s) = g[a] + Sum(g, s \ {a})
      BY <1>0, <2>1, SumUnfold
    <2> HIDE DEF a
    <2>3. Cardinality(s \ {a}) = Cardinality(s) - 1
      BY <1>0, <2>2, FS_RemoveElement
    <2>4. Sum(f, s \ {a}) = Sum(g, s \ {a})
      BY <1>2, <2>3
    <2> QED
      BY <2>2, <2>4
  <1>3. Nat \subseteq N
    <2> HIDE DEF N
    <2> QED
      BY <1>1, <1>2, NaturalsBySet
  <1> QED
    BY <1>0, <1>3

(* Two parts.                                                              *)
LEMMA SumUnion ==
    ASSUME NEW S, IsFiniteSet(S), NEW f, \A x \in S : f[x] \in Nat,
           NEW A \in SUBSET S
    PROVE  Sum(f, S) = Sum(f, A) + Sum(f, S \ A)
  <1> DEFINE Q == {T \in SUBSET S : Sum(f, S) = Sum(f, T) + Sum(f, S \ T)}
  <1>0. \A s \in SUBSET S : IsFiniteSet(s) /\ Sum(f, s) \in Nat
    BY FS_Subset, SumIsNat
  <1>1. {} \in Q
    <2>1. S \ {} = S /\ Sum(f, {}) = 0 /\ Sum(f, S) \in Nat
      BY <1>0, SumEmpty
    <2> QED
      BY <2>1
  <1>2. ASSUME NEW T \in SUBSET S, NEW x \in S \ T, T \in Q
        PROVE  T \union {x} \in Q
    <2>1. Sum(f, T \union {x}) = Sum(f, T) + f[x]
      BY <1>0, SumAdd
    <2>2. Sum(f, S \ T) = f[x] + Sum(f, (S \ T) \ {x})
      BY <1>0, SumRemove
    <2>3. Sum(f, S \ T) = f[x] + Sum(f, S \ (T \union {x}))
      <3>1. (S \ T) \ {x} = S \ (T \union {x})
        OBVIOUS
      <3> QED
        BY <2>2, <3>1
    <2>4. /\ f[x] \in Nat /\ Sum(f, T) \in Nat
          /\ Sum(f, S \ (T \union {x})) \in Nat
      BY <1>0
    <2>5. Sum(f, S) = Sum(f, T) + Sum(f, S \ T)
      BY <1>2
    <2>6. Sum(f, S) = Sum(f, T \union {x}) + Sum(f, S \ (T \union {x}))
      BY ONLY <2>1, <2>3, <2>4, <2>5
    <2> QED
      BY <2>6
  <1> HIDE DEF Q
  <1>3. A \in Q
    BY <1>1, <1>2, SubsetsBySet
  <1> QED
    BY <1>3 DEF Q

(* Renaming the elements.                                                  *)
LEMMA SumRename ==
    ASSUME NEW S, IsFiniteSet(S), NEW f, NEW b,
           \A x, y \in S : b[x] = b[y] => x = y,
           \A x \in S : f[b[x]] \in Nat
    PROVE  Sum(f, {b[x] : x \in S}) = Sum([x \in S |-> f[b[x]]], S)
  <1> DEFINE g == [x \in S |-> f[b[x]]]
             Im(T) == {b[x] : x \in T}
             Q == {T \in SUBSET S : IsFiniteSet(Im(T)) /\ Sum(f, Im(T)) = Sum(g, T)}
  <1>0. \A s \in SUBSET S : IsFiniteSet(s)
    BY FS_Subset
  <1>1. {} \in Q
    <2>1. Im({}) = {}
      OBVIOUS
    <2>2. Sum(f, {}) = 0 /\ Sum(g, {}) = 0 /\ IsFiniteSet({})
      BY SumEmpty, FS_EmptySet
    <2> HIDE DEF Im, g
    <2>3. IsFiniteSet(Im({})) /\ Sum(f, Im({})) = Sum(g, {})
      BY <2>1, <2>2
    <2> QED
      BY <2>3
  <1>2. ASSUME NEW T \in SUBSET S, NEW x \in S \ T, T \in Q
        PROVE  T \union {x} \in Q
    <2>1. Im(T \union {x}) = Im(T) \union {b[x]} /\ b[x] \notin Im(T)
      OBVIOUS
    <2>2. IsFiniteSet(Im(T)) /\ Sum(f, Im(T)) = Sum(g, T)
      BY <1>2
    <2>3. \A y \in T \union {x} : g[y] = f[b[y]] /\ g[y] \in Nat
      OBVIOUS
    <2>4. \A z \in Im(T) \union {b[x]} : f[z] \in Nat
      OBVIOUS
    <2> HIDE DEF Im, g
    <2>5. IsFiniteSet(Im(T \union {x}))
      <3>1. IsFiniteSet(Im(T) \union {b[x]})
        BY <2>2, FS_AddElement
      <3> QED
        BY <2>1, <3>1
    <2>6. Sum(f, Im(T) \union {b[x]}) = Sum(f, Im(T)) + f[b[x]]
      BY <2>1, <2>2, <2>4, SumAdd
    <2>7. Sum(g, T \union {x}) = Sum(g, T) + g[x]
      BY <1>0, <2>3, SumAdd
    <2>8. Sum(f, Im(T \union {x})) = Sum(g, T \union {x})
      BY <2>1, <2>2, <2>3, <2>6, <2>7
    <2> QED
      BY <2>5, <2>8
  <1> HIDE DEF Q
  <1>3. S \in Q
    BY <1>1, <1>2, SubsetsBySet
  <1> QED
    BY <1>3 DEF Q

-----------------------------------------------------------------------------
(* A set that is mapped one to one into a finite set is no larger.         *)
LEMMA InjectionBound ==
    ASSUME NEW S, NEW T, IsFiniteSet(T), NEW f, \A x \in S : f[x] \in T,
           \A x, y \in S : f[x] = f[y] => x = y
    PROVE  IsFiniteSet(S) /\ Cardinality(S) <= Cardinality(T)
  <1> DEFINE g == [x \in S |-> f[x]]
  <1>1. g \in Injection(S, T)
    BY DEF Injection, IsInjective
  <1> HIDE DEF g
  <1> QED
    BY <1>1, FS_Injection

(* The image of a finite set is no larger.                                 *)
LEMMA ImageBound ==
    ASSUME NEW S, IsFiniteSet(S), NEW f
    PROVE  LET T == {f[x] : x \in S}
           IN  IsFiniteSet(T) /\ Cardinality(T) <= Cardinality(S)
  <1> DEFINE T == {f[x] : x \in S}
             g == [x \in S |-> f[x]]
  <1>1. g \in Surjection(S, T)
    BY DEF Surjection
  <1> HIDE DEF g, T
  <1>2. IsFiniteSet(T) /\ Cardinality(T) <= Cardinality(S)
    BY <1>1, FS_Surjection
  <1> QED
    BY <1>2 DEF T
-----------------------------------------------------------------------------
(* The nodes of a list, and a list that has each of them once.             *)
Elems(s) == {s[i] : i \in DOMAIN s}
OnceEach(s) == \A i, j \in DOMAIN s : s[i] = s[j] => i = j

(* The recursive equation of Without, and its solution.                    *)
Kept(s, S, g) ==
    [i \in 0 .. Len(s) |->
       IF i = 0 THEN <<>>
       ELSE IF s[i] \in S THEN g[i - 1] ELSE Append(g[i - 1], s[i])]

(* The recursive definition of Without has a solution on every list.       *)
LEMMA KeptExists ==
    ASSUME NEW X, NEW s \in Seq(X), NEW S
    PROVE  \E g : g = Kept(s, S, g)
<1> DEFINE Rhs(g, i) == IF i = 0 THEN <<>>
                        ELSE IF s[i] \in S THEN g[i - 1] ELSE Append(g[i - 1], s[i])
           Good(g, n) == /\ DOMAIN g = 0 .. Len(s) /\ g = [i \in 0 .. Len(s) |-> g[i]]
                         /\ \A i \in 0 .. Len(s) : i <= n => g[i] = Rhs(g, i)
           Q == {n \in Nat : \E g : Good(g, n)}
<1>1. 0 \in Q
  <2> DEFINE g == [i \in 0 .. Len(s) |-> <<>>]
  <2>1. Good(g, 0)
    OBVIOUS
  <2> QED
    BY <2>1
<1>2. \A n \in Nat : n \in Q => n + 1 \in Q
  <2> SUFFICES ASSUME NEW n \in Nat, n \in Q PROVE n + 1 \in Q
    OBVIOUS
  <2>1. PICK g : Good(g, n)
    OBVIOUS
  <2> DEFINE h == [i \in 0 .. Len(s) |-> IF i = n + 1 THEN Rhs(g, i) ELSE g[i]]
  <2> HIDE DEF Rhs
  <2>2. DOMAIN h = 0 .. Len(s) /\ h = [i \in 0 .. Len(s) |-> h[i]]
    OBVIOUS
  <2>3. ASSUME NEW i \in 0 .. Len(s), i <= n + 1 PROVE h[i] = Rhs(h, i)
    <3>1. i # 0 => h[i - 1] = g[i - 1]
      BY <2>3
    <3>2. Rhs(h, i) = Rhs(g, i)
      BY <3>1 DEF Rhs
    <3>3. i # n + 1 => g[i] = Rhs(g, i)
      BY <2>1, <2>3
    <3> QED
      BY <3>2, <3>3
  <2>4. Good(h, n + 1)
    BY <2>2, <2>3
  <2> QED
    BY <2>4
<1>3. Len(s) \in Q
  <2>1. Nat \subseteq Q
    BY <1>1, <1>2, NaturalsBySet
  <2> QED
    BY <2>1
<1>4. PICK g : Good(g, Len(s))
  BY <1>3
<1> HIDE DEF Rhs
<1>5. \A i \in 0 .. Len(s) : g[i] = Rhs(g, i)
  BY <1>4
<1>6. g = [i \in 0 .. Len(s) |-> Rhs(g, i)]
  BY <1>4, <1>5
<1> QED
  BY <1>6 DEF Kept, Rhs

(* w is what is left of the first n elements of s without S: f gives the   *)
(* place in s of each element of w, in order.                              *)
Embeds(w, f, s, n, S) ==
    /\ f \in [1 .. Len(w) -> 1 .. n]
    /\ \A i \in 1 .. Len(w) : w[i] = s[f[i]] /\ s[f[i]] \notin S
    /\ \A i, j \in 1 .. Len(w) : i < j => f[i] < f[j]
    /\ \A j \in 1 .. n : s[j] \notin S => \E i \in 1 .. Len(w) : f[i] = j

(* What unlinking the nodes of S leaves of a list.                         *)
LEMMA WithoutEmbeds ==
    ASSUME NEW X, NEW s \in Seq(X), NEW S
    PROVE  /\ Without(s, S) \in Seq(X)
           /\ \E f : Embeds(Without(s, S), f, s, Len(s), S)
<1> DEFINE g == CHOOSE g : g = Kept(s, S, g)
           Fine(n) == g[n] \in Seq(X) /\ \E f : Embeds(g[n], f, s, n, S)
           Q == {n \in Nat : n <= Len(s) => Fine(n)}
<1>1. Without(s, S) = g[Len(s)]
  BY DEF Without, Kept
<1>2. g = Kept(s, S, g)
  BY KeptExists
<1> HIDE DEF g
<1>3. \A i \in 0 .. Len(s) :
        g[i] = IF i = 0 THEN <<>>
               ELSE IF s[i] \in S THEN g[i - 1] ELSE Append(g[i - 1], s[i])
  BY <1>2 DEF Kept
<1> HIDE DEF Fine
<1>4. 0 \in Q
  <2>1. g[0] = <<>>
    BY <1>3
  <2>2. Embeds(<<>>, [i \in 1 .. 0 |-> 1], s, 0, S)
    BY DEF Embeds
  <2>3. Fine(0)
    BY <2>1, <2>2 DEF Fine
  <2> QED
    BY <2>3
<1>5. \A n \in Nat : n \in Q => n + 1 \in Q
  <2> SUFFICES ASSUME NEW n \in Nat, n \in Q, n + 1 <= Len(s)
               PROVE  Fine(n + 1)
    OBVIOUS
  <2>1. g[n] \in Seq(X) /\ \E f : Embeds(g[n], f, s, n, S)
    BY DEF Fine
  <2>2. PICK f : Embeds(g[n], f, s, n, S)
    BY <2>1
  <2>3. g[n + 1] = IF s[n + 1] \in S THEN g[n] ELSE Append(g[n], s[n + 1])
    BY <1>3
  <2>4. s[n + 1] \in X
    OBVIOUS
  <2>5. CASE s[n + 1] \in S
    <3>1. Embeds(g[n], f, s, n + 1, S)
      BY ONLY <2>2, <2>5, n \in Nat DEF Embeds
    <3> QED
      BY ONLY <2>1, <2>3, <2>5, <3>1 DEF Fine
  <2>6. CASE s[n + 1] \notin S
    <3> DEFINE w == g[n]
               e == [i \in 1 .. Len(w) + 1 |-> IF i = Len(w) + 1 THEN n + 1 ELSE f[i]]
               v == Append(w, s[n + 1])
    <3>1. w \in Seq(X) /\ Len(w) \in Nat
      BY <2>1
    <3>2. v \in Seq(X) /\ Len(v) = Len(w) + 1 /\ v[Len(w) + 1] = s[n + 1]
          /\ \A i \in 1 .. Len(w) : v[i] = w[i]
      BY <2>1, <2>4
    <3>3. Embeds(w, f, s, n, S)
      BY <2>2
    <3> HIDE DEF w, v
    <3>4. e \in [1 .. Len(v) -> 1 .. n + 1]
      BY ONLY <3>1, <3>2, <3>3, n \in Nat DEF Embeds
    <3>5. \A i \in 1 .. Len(v) : v[i] = s[e[i]] /\ s[e[i]] \notin S
      BY ONLY <3>1, <3>2, <3>3, <2>6, n \in Nat DEF Embeds
    <3>6. \A i, j \in 1 .. Len(v) : i < j => e[i] < e[j]
      <4>1. \A i \in 1 .. Len(w) : f[i] < n + 1
        BY ONLY <3>3, n \in Nat DEF Embeds
      <4>2. \A i, j \in 1 .. Len(w) : i < j => f[i] < f[j]
        BY ONLY <3>3 DEF Embeds
      <4> QED
        BY ONLY <3>1, <3>2, <4>1, <4>2
    <3>7. ASSUME NEW j \in 1 .. n + 1, s[j] \notin S
          PROVE  \E i \in 1 .. Len(v) : e[i] = j
      <4>1. CASE j = n + 1
        BY ONLY <3>1, <3>2, <4>1
      <4>2. CASE j # n + 1
        <5>1. PICK i \in 1 .. Len(w) : f[i] = j
          BY ONLY <3>3, <3>7, <4>2, n \in Nat DEF Embeds
        <5> QED
          BY ONLY <5>1, <3>1, <3>2
      <4> QED
        BY <4>1, <4>2
    <3>8. Embeds(v, e, s, n + 1, S)
      BY ONLY <3>4, <3>5, <3>6, <3>7 DEF Embeds
    <3>9. g[n + 1] = v
      BY <2>3, <2>6 DEF v, w
    <3> QED
      BY ONLY <3>2, <3>8, <3>9 DEF Fine
  <2> QED
    BY <2>5, <2>6
<1>6. Len(s) \in Q
  <2>1. Nat \subseteq Q
    BY ONLY <1>4, <1>5, NaturalsBySet
  <2> QED
    BY <2>1
<1> QED
  BY <1>1, <1>6 DEF Fine

-----------------------------------------------------------------------------
(* Unlinking from a list without duplicates.                               *)
LEMMA WithoutOnce ==
    ASSUME NEW X, NEW s \in Seq(X), NEW S, OnceEach(s)
    PROVE  /\ Without(s, S) \in Seq(X) /\ OnceEach(Without(s, S))
           /\ \A i \in DOMAIN Without(s, S) :
                Without(s, S)[i] \notin S /\ \E j \in DOMAIN s : s[j] = Without(s, S)[i]
           /\ \A j \in DOMAIN s : s[j] \notin S =>
                \E i \in DOMAIN Without(s, S) : Without(s, S)[i] = s[j]
<1> DEFINE w == Without(s, S)
<1>1. w \in Seq(X) /\ \E f : Embeds(w, f, s, Len(s), S)
  BY WithoutEmbeds
<1> HIDE DEF w
<1>2. PICK f : Embeds(w, f, s, Len(s), S)
  BY <1>1
<1>3. DOMAIN w = 1 .. Len(w) /\ DOMAIN s = 1 .. Len(s) /\ Len(w) \in Nat /\ Len(s) \in Nat
  BY <1>1
<1>4. \A i \in DOMAIN w : f[i] \in 1 .. Len(s) /\ w[i] = s[f[i]] /\ w[i] \notin S
  BY <1>2, <1>3 DEF Embeds
<1>5. ASSUME NEW i \in DOMAIN w, NEW j \in DOMAIN w, w[i] = w[j] PROVE i = j
  <2>1. f[i] = f[j]
    BY <1>3, <1>4, <1>5 DEF OnceEach
  <2>2. i < j => f[i] < f[j]
    BY <1>2, <1>3 DEF Embeds
  <2>3. j < i => f[j] < f[i]
    BY <1>2, <1>3 DEF Embeds
  <2>4. i \in Nat /\ j \in Nat /\ f[i] \in Nat
    BY <1>3, <1>4
  <2> QED
    BY <2>1, <2>2, <2>3, <2>4
<1>6. ASSUME NEW j \in DOMAIN s, s[j] \notin S PROVE \E i \in DOMAIN w : w[i] = s[j]
  BY <1>2, <1>3, <1>4, <1>6 DEF Embeds
<1>7. OnceEach(w)
  BY <1>5 DEF OnceEach
<1> QED
  BY <1>1, <1>3, <1>4, <1>6, <1>7 DEF w

(* A list with one more element at its end.                                *)
LEMMA AppendFacts ==
    ASSUME NEW X, NEW s \in Seq(X), NEW x \in X
    PROVE  /\ Append(s, x) \in Seq(X) /\ Append(s, x) # <<>>
           /\ Len(Append(s, x)) = Len(s) + 1 /\ DOMAIN Append(s, x) = 1 .. Len(s) + 1
           /\ \A i \in 1 .. Len(s) : Append(s, x)[i] = s[i]
           /\ Append(s, x)[Len(s) + 1] = x
           /\ Head(Append(s, x)) = IF s = <<>> THEN x ELSE Head(s)
<1>1. Len(s) \in Nat /\ DOMAIN s = 1 .. Len(s)
  OBVIOUS
<1>2. s = <<>> <=> Len(s) = 0
  OBVIOUS
<1> QED
  BY <1>1, <1>2

(* Linking a node that is not in the list.                                 *)
LEMMA AppendOnce ==
    ASSUME NEW X, NEW s \in Seq(X), OnceEach(s), NEW x \in X,
           \A i \in DOMAIN s : s[i] # x
    PROVE  /\ OnceEach(Append(s, x))
           /\ Elems(Append(s, x)) = Elems(s) \union {x}
<1> DEFINE t == Append(s, x)
<1>1. Len(s) \in Nat /\ DOMAIN s = 1 .. Len(s)
  OBVIOUS
<1>2. DOMAIN t = 1 .. Len(s) + 1 /\ t[Len(s) + 1] = x /\ \A i \in 1 .. Len(s) : t[i] = s[i]
  BY AppendFacts
<1> HIDE DEF t
<1>3. OnceEach(t)
  <2> SUFFICES ASSUME NEW i \in DOMAIN t, NEW j \in DOMAIN t, t[i] = t[j] PROVE i = j
    BY DEF OnceEach
  <2>1. (i \in 1 .. Len(s) \/ i = Len(s) + 1) /\ (j \in 1 .. Len(s) \/ j = Len(s) + 1)
    BY ONLY <1>1, <1>2, i \in DOMAIN t, j \in DOMAIN t
  <2> QED
    BY <1>1, <1>2, <2>1 DEF OnceEach
<1>4. ASSUME NEW y \in {t[i] : i \in DOMAIN t} PROVE y \in {s[i] : i \in DOMAIN s} \union {x}
  <2>1. PICK i \in DOMAIN t : t[i] = y
    BY <1>4
  <2>2. i \in 1 .. Len(s) \/ i = Len(s) + 1
    BY ONLY <1>1, <1>2, i \in DOMAIN t
  <2> QED
    BY <1>1, <1>2, <2>1, <2>2
<1>5. ASSUME NEW y \in {s[i] : i \in DOMAIN s} \union {x} PROVE y \in {t[i] : i \in DOMAIN t}
  <2>1. 1 .. Len(s) \subseteq DOMAIN t /\ Len(s) + 1 \in DOMAIN t
    BY ONLY <1>1, <1>2
  <2> QED
    BY <1>1, <1>2, <1>5, <2>1
<1> QED
  BY <1>3, <1>4, <1>5 DEF t, Elems

(* A list whose new last node has the latest deadline stays in order.      *)
LEMMA TailKeepsOrder ==
    ASSUME NEW X, NEW s \in Seq(X), NEW x \in X, \A i \in DOMAIN s : s[i] # x,
           NEW dl \in [X -> Nat], NEW late \in Nat,
           \A i, j \in DOMAIN s : i < j => dl[s[i]] <= dl[s[j]],
           \A i \in DOMAIN s : dl[s[i]] <= late
    PROVE  LET e == [dl EXCEPT ![x] = late]
               t == Append(s, x)
           IN  /\ \A i, j \in DOMAIN t : i < j => e[t[i]] <= e[t[j]]
               /\ \A i \in DOMAIN t : e[t[i]] <= late
<1> DEFINE e == [dl EXCEPT ![x] = late]
           t == Append(s, x)
<1>1. Len(s) \in Nat /\ DOMAIN s = 1 .. Len(s)
  OBVIOUS
<1>2. DOMAIN t = 1 .. Len(s) + 1 /\ t[Len(s) + 1] = x /\ \A i \in 1 .. Len(s) : t[i] = s[i]
  BY AppendFacts
<1>3. e[x] = late /\ \A y \in X \ {x} : e[y] = dl[y]
  OBVIOUS
<1>4. \A i \in 1 .. Len(s) : s[i] \in X \ {x}
  BY <1>1
<1> HIDE DEF e, t
<1>5. \A i \in 1 .. Len(s) : e[t[i]] = dl[s[i]]
  BY <1>2, <1>3, <1>4
<1>6. e[t[Len(s) + 1]] = late
  BY <1>2, <1>3
<1>7. \A i \in DOMAIN t : e[t[i]] <= late
  <2> SUFFICES ASSUME NEW i \in DOMAIN t PROVE e[t[i]] <= late
    OBVIOUS
  <2>1. i \in 1 .. Len(s) \/ i = Len(s) + 1
    BY ONLY <1>1, <1>2, i \in DOMAIN t
  <2> QED
    BY <1>1, <1>5, <1>6, <2>1
<1>8. \A i, j \in DOMAIN t : i < j => e[t[i]] <= e[t[j]]
  <2> SUFFICES ASSUME NEW i \in DOMAIN t, NEW j \in DOMAIN t, i < j PROVE e[t[i]] <= e[t[j]]
    OBVIOUS
  <2>1. i \in 1 .. Len(s) /\ (j \in 1 .. Len(s) \/ j = Len(s) + 1)
    BY ONLY <1>1, <1>2, i \in DOMAIN t, j \in DOMAIN t, i < j
  <2>2. CASE j = Len(s) + 1
    BY <1>6, <1>7, <2>2
  <2>3. CASE j \in 1 .. Len(s)
    BY <1>1, <1>5, <2>1, <2>3
  <2> QED
    BY <2>1, <2>2, <2>3
<1> QED
  BY <1>7, <1>8 DEF e, t
=============================================================================
