----------------------------- MODULE Recursion ------------------------------
(***************************************************************************)
(* Induction and recursion over the natural numbers and over finite sets,  *)
(* stated with sets and functions in place of predicates and operators, so *)
(* that the provers can use them.                                          *)
(***************************************************************************)
EXTENDS Integers, FiniteSets, TLAPS, FiniteSetTheorems, WellFoundedInduction

(* A set of natural numbers that is not empty has a least element.         *)
LEMMA LeastNumber ==
  ASSUME NEW S \in SUBSET Nat, S # {}
  PROVE  \E m \in S : \A n \in S : m <= n
<1>1. PICK m \in S : \A n \in S : <<n, m>> \notin OpToRel(<, Nat)
  BY NatLessThanWellFounded, WFMin
<1>2. \A n \in S : ~(n < m)
  BY <1>1 DEF OpToRel
<1> QED
  BY <1>2

(* Induction.                                                              *)
LEMMA InductiveSet ==
  ASSUME NEW S, 0 \in S, \A n \in Nat : n \in S => n + 1 \in S
  PROVE  Nat \subseteq S
<1> SUFFICES ASSUME Nat \ S # {}
             PROVE  FALSE
  OBVIOUS
<1>1. PICK m \in Nat \ S : \A n \in Nat \ S : m <= n
  BY LeastNumber
<1>2. m - 1 \in Nat /\ m - 1 \in S
  BY <1>1
<1> QED
  BY <1>1, <1>2

(* Induction up to a bound.                                                *)
LEMMA InductiveInterval ==
  ASSUME NEW S, NEW b \in Nat, 0 \in S, \A n \in 0..(b - 1) : n \in S => n + 1 \in S
  PROVE  0..b \subseteq S
<1> DEFINE T == {n \in Nat : n <= b => n \in S}
<1>1. 0 \in T
  OBVIOUS
<1>2. ASSUME NEW n \in Nat, n \in T
      PROVE  n + 1 \in T
  BY <1>2
<1>3. Nat \subseteq T
  <2> HIDE DEF T
  <2> QED
    BY <1>1, <1>2, InductiveSet
<1> QED
  BY <1>3

(* f is defined on D by recursion, from a first value and a step function. *)
Recursive(f, D, c, step) ==
  f = [n \in D |-> IF n = 0 THEN c ELSE step[n - 1][f[n - 1]]]

(* Recursion: a first value and a step function determine a function.      *)
LEMMA RecursionOverNat ==
  ASSUME NEW V, NEW c \in V, NEW step \in [Nat -> [V -> V]]
  PROVE  \E f \in [Nat -> V] : Recursive(f, Nat, c, step)
<1> DEFINE Upto(g, n) == /\ g \in [0..n -> V]
                         /\ g[0] = c
                         /\ \A k \in 0..(n - 1) : g[k + 1] = step[k][g[k]]
           Reached == {n \in Nat : \E g \in [0..n -> V] : Upto(g, n)}
<1>1. Nat \subseteq Reached
  <2>1. 0 \in Reached
    <3>1. Upto([k \in 0..0 |-> c], 0)
      OBVIOUS
    <3> QED
      BY <3>1
  <2>2. ASSUME NEW n \in Nat, n \in Reached
        PROVE  n + 1 \in Reached
    <3>1. PICK g \in [0..n -> V] : Upto(g, n)
      BY <2>2
    <3> DEFINE h == [k \in 0..(n + 1) |-> IF k = n + 1 THEN step[n][g[n]] ELSE g[k]]
    <3>2. h \in [0..(n + 1) -> V]
      <4>1. g[n] \in V /\ step[n][g[n]] \in V
        OBVIOUS
      <4>2. \A k \in 0..(n + 1) : k # n + 1 => k \in 0..n
        OBVIOUS
      <4> QED
        BY <4>1, <4>2
    <3>3. h[0] = c
      BY <3>1
    <3>4. ASSUME NEW k \in 0..n
          PROVE  h[k + 1] = step[k][h[k]]
      <4>1. CASE k = n
        <5>1. n \in 0..(n + 1) /\ n + 1 \in 0..(n + 1) /\ n # n + 1
          OBVIOUS
        <5>2. h[n + 1] = step[n][g[n]] /\ h[n] = g[n]
          BY <5>1
        <5> QED
          BY <4>1, <5>2
      <4>2. CASE k # n
        <5>1. k \in 0..(n - 1) /\ k + 1 \in 0..(n + 1) /\ k + 1 # n + 1 /\ k # n + 1
          BY <4>2
        <5>2. h[k + 1] = g[k + 1] /\ h[k] = g[k]
          BY <5>1
        <5>3. g[k + 1] = step[k][g[k]]
          BY <3>1, <5>1
        <5> QED
          BY <5>2, <5>3
      <4> QED
        BY <4>1, <4>2
    <3> HIDE DEF h
    <3>5. Upto(h, n + 1)
      BY <3>2, <3>3, <3>4
    <3> QED
      BY <3>2, <3>5
  <2> HIDE DEF Reached
  <2> QED
    BY <2>1, <2>2, InductiveSet
<1>2. ASSUME NEW m \in Nat, NEW n \in Nat, m <= n, NEW g, NEW h, Upto(g, m), Upto(h, n)
      PROVE  g[m] = h[m]
  <2> DEFINE Same == {k \in Nat : k <= m => g[k] = h[k]}
  <2>1. 0 \in Same
    BY <1>2
  <2>2. ASSUME NEW k \in Nat, k \in Same
        PROVE  k + 1 \in Same
    <3> SUFFICES ASSUME k + 1 <= m
                 PROVE  g[k + 1] = h[k + 1]
      OBVIOUS
    <3>1. k \in 0..(m - 1) /\ k \in 0..(n - 1)
      BY <1>2
    <3>2. g[k] = h[k]
      BY <2>2, <3>1
    <3> QED
      BY <1>2, <3>1, <3>2
  <2>3. Nat \subseteq Same
    <3> HIDE DEF Same
    <3> QED
      BY <2>1, <2>2, InductiveSet
  <2> QED
    BY <2>3
<1> DEFINE upto(n) == CHOOSE g : Upto(g, n)
           f == [n \in Nat |-> upto(n)[n]]
<1>3. \A n \in Nat : Upto(upto(n), n)
  <2> SUFFICES ASSUME NEW n \in Nat
               PROVE  Upto(upto(n), n)
    OBVIOUS
  <2>1. \E g : Upto(g, n)
    BY <1>1
  <2> HIDE DEF Upto
  <2> QED
    BY <2>1
<1>4. \A n \in Nat : upto(n)[n] \in V
  <2> HIDE DEF upto
  <2> QED
    BY <1>3
<1>5. upto(0)[0] = c
  <2> HIDE DEF upto
  <2> QED
    BY <1>3
<1> HIDE DEF upto
<1>6. ASSUME NEW n \in Nat
      PROVE  upto(n + 1)[n + 1] = step[n][upto(n)[n]]
  <2>1. Upto(upto(n), n) /\ Upto(upto(n + 1), n + 1)
    BY <1>3
  <2>2. upto(n + 1)[n + 1] = step[n][upto(n + 1)[n]]
    BY <2>1
  <2>3. upto(n)[n] = upto(n + 1)[n]
    <3> HIDE DEF Upto
    <3> QED
      BY <1>2, <2>1
  <2> QED
    BY <2>2, <2>3
<1>7. f \in [Nat -> V] /\ f[0] = c /\ \A n \in Nat : f[n + 1] = step[n][f[n]]
  BY <1>4, <1>5, <1>6
<1> HIDE DEF f
<1>8. ASSUME NEW n \in Nat
      PROVE  f[n] = IF n = 0 THEN c ELSE step[n - 1][f[n - 1]]
  <2>1. CASE n = 0
    BY <1>7, <2>1
  <2>2. CASE n # 0
    <3>1. n - 1 \in Nat /\ (n - 1) + 1 = n
      BY <2>2
    <3>2. f[(n - 1) + 1] = step[n - 1][f[n - 1]]
      BY <1>7, <3>1
    <3> QED
      BY <2>2, <3>1, <3>2
  <2> QED
    BY <2>1, <2>2
<1> DEFINE g == [n \in Nat |-> IF n = 0 THEN c ELSE step[n - 1][f[n - 1]]]
<1>9. \A n \in Nat : f[n] = g[n]
  BY <1>8
<1>10. f = [n \in Nat |-> f[n]] /\ g = [n \in Nat |-> g[n]]
  BY <1>7
<1>11. f = g
  <2> HIDE DEF g
  <2> QED
    BY <1>9, <1>10
<1> QED
  BY <1>7, <1>11 DEF Recursive

LEMMA RecursionUpTo ==
  ASSUME NEW V, NEW c \in V, NEW step \in [Nat -> [V -> V]], NEW b \in Nat
  PROVE  \E f \in [0..b -> V] : Recursive(f, 0..b, c, step)
<1>1. PICK g \in [Nat -> V] : Recursive(g, Nat, c, step)
  BY RecursionOverNat
<1> DEFINE f == [n \in 0..b |-> g[n]]
<1>2. f \in [0..b -> V]
  OBVIOUS
<1>3. ASSUME NEW n \in 0..b
      PROVE  f[n] = IF n = 0 THEN c ELSE step[n - 1][f[n - 1]]
  <2>1. CASE n = 0
    BY <1>1, <2>1 DEF Recursive
  <2>2. CASE n # 0
    <3>1. n - 1 \in 0..b /\ n \in Nat
      BY <2>2
    <3>2. g[n] = step[n - 1][g[n - 1]]
      BY <1>1, <2>2, <3>1 DEF Recursive
    <3> QED
      BY <2>2, <3>1, <3>2
  <2> QED
    BY <2>1, <2>2
<1> DEFINE h == [n \in 0..b |-> IF n = 0 THEN c ELSE step[n - 1][f[n - 1]]]
<1>4. \A n \in 0..b : f[n] = h[n]
  BY <1>3
<1>5. f = [n \in 0..b |-> f[n]] /\ h = [n \in 0..b |-> h[n]]
  OBVIOUS
<1>6. f = h
  <2> HIDE DEF f, h
  <2> QED
    BY <1>4, <1>5
<1> QED
  BY <1>2, <1>6 DEF Recursive

-----------------------------------------------------------------------------
(* Sums over the finite sets, which are folds.                             *)

(* sum[T] adds f up over the subset T of S, taking one element after the   *)
(* other out of T.                                                         *)
Sums(sum, S, f) ==
  sum = [T \in SUBSET S |-> IF T = {} THEN 0
                            ELSE LET x == CHOOSE x \in T : TRUE
                                 IN  f[x] + sum[T \ {x}]]

(* What holds for the empty set, and for a set if it holds for one that    *)
(* has an element less, holds for all finite ones.                         *)
LEMMA InductiveSubsets ==
  ASSUME NEW S, IsFiniteSet(S), NEW Q, {} \in Q,
         \A T \in SUBSET S : T # {} /\ T \ {CHOOSE x \in T : TRUE} \in Q => T \in Q
  PROVE  SUBSET S \subseteq Q
<1> DEFINE Sizes == {n \in Nat : \A T \in SUBSET S : Cardinality(T) = n => T \in Q}
<1>1. ASSUME NEW T \in SUBSET S
      PROVE  /\ IsFiniteSet(T) /\ Cardinality(T) \in Nat
             /\ Cardinality(T) = 0 <=> T = {}
  BY FS_Subset, FS_CardinalityType, FS_EmptySet
<1>2. 0 \in Sizes
  BY <1>1
<1>3. ASSUME NEW n \in Nat, n \in Sizes
      PROVE  n + 1 \in Sizes
  <2> SUFFICES ASSUME NEW T \in SUBSET S, Cardinality(T) = n + 1
               PROVE  T \in Q
    OBVIOUS
  <2> DEFINE x == CHOOSE x \in T : TRUE
  <2>1. T # {} /\ x \in T
    <3>1. T # {}
      BY <1>1
    <3> QED
      BY <3>1
  <2> HIDE DEF x
  <2>2. T \ {x} \in SUBSET S /\ Cardinality(T \ {x}) = n
    BY <1>1, <2>1, FS_RemoveElement
  <2>3. T \ {x} \in Q
    BY <1>3, <2>2
  <2> QED
    BY <2>1, <2>3 DEF x
<1>4. Nat \subseteq Sizes
  <2> HIDE DEF Sizes
  <2> QED
    BY <1>2, <1>3, InductiveSet
<1> QED
  BY <1>1, <1>4

(* There is such a function: by recursion over the size of the sets.       *)
LEMMA SumsExist ==
  ASSUME NEW S, IsFiniteSet(S), NEW f \in [S -> Nat]
  PROVE  \E sum : Sums(sum, S, f)
<1> DEFINE V == [SUBSET S -> Nat]
           ch(T) == CHOOSE x \in T : TRUE
           next(g) == [T \in SUBSET S |-> IF T = {} THEN 0 ELSE f[ch(T)] + g[T \ {ch(T)}]]
           step == [n \in Nat |-> [g \in V |-> next(g)]]
           zero == [T \in SUBSET S |-> 0]
<1>1. ASSUME NEW T \in SUBSET S, T # {}
      PROVE  ch(T) \in T /\ ch(T) \in S /\ T \ {ch(T)} \in SUBSET S /\ f[ch(T)] \in Nat
  <2>1. ch(T) \in T
    BY <1>1
  <2> HIDE DEF ch
  <2> QED
    BY <2>1
<1> HIDE DEF ch
<1>2. step \in [Nat -> [V -> V]] /\ zero \in V
  <2>1. \A g \in V : next(g) \in V
    BY <1>1
  <2> HIDE DEF next, V
  <2>2. step \in [Nat -> [V -> V]]
    BY <2>1
  <2> QED
    BY <2>2 DEF V
<1>3. PICK h \in [Nat -> V] : Recursive(h, Nat, zero, step)
  <2> HIDE DEF step, V, zero
  <2> QED
    BY <1>2, RecursionOverNat
<1>4. h[0] = zero /\ \A n \in Nat : h[n + 1] = next(h[n])
  <2>1. h = [n \in Nat |-> IF n = 0 THEN zero ELSE step[n - 1][h[n - 1]]]
    BY <1>3 DEF Recursive
  <2>2. h[0] = zero
    <3> HIDE DEF step, zero
    <3> QED
      BY <2>1
  <2>3. ASSUME NEW n \in Nat
        PROVE  h[n + 1] = next(h[n])
    <3>0. n + 1 \in Nat /\ n + 1 # 0 /\ (n + 1) - 1 = n
      <4> HIDE DEF V, step, zero, next
      <4> QED
        OBVIOUS
    <3>1. n + 1 \in Nat /\ n + 1 # 0 /\ (n + 1) - 1 = n /\ h[n] \in V
      <4> HIDE DEF V, step, zero, next
      <4> QED
        BY <3>0
    <3>2. h[n + 1] = step[n][h[n]]
      <4> HIDE DEF step, zero, V
      <4> QED
        BY <2>1, <3>1
    <3>3. step[n][h[n]] = next(h[n])
      <4> HIDE DEF next, V
      <4> QED
        BY <3>1
    <3> QED
      BY <3>2, <3>3
  <2> QED
    BY <2>2, <2>3
<1> DEFINE sum == [T \in SUBSET S |-> h[Cardinality(T)][T]]
<1>5. ASSUME NEW T \in SUBSET S
      PROVE  sum[T] = IF T = {} THEN 0 ELSE f[ch(T)] + sum[T \ {ch(T)}]
  <2>1. IsFiniteSet(T) /\ Cardinality(T) \in Nat
    BY FS_Subset, FS_CardinalityType
  <2>2. CASE T = {}
    <3>1. sum[T] = h[0][T]
      BY <2>2, FS_EmptySet
    <3> QED
      BY <1>4, <2>2, <3>1
  <2>3. CASE T # {}
    <3> DEFINE U == T \ {ch(T)}
               n == Cardinality(U)
    <3>1. U \in SUBSET S /\ n \in Nat /\ Cardinality(T) = n + 1
      <4>1. ch(T) \in T /\ U \in SUBSET S
        BY <1>1, <2>3
      <4>2. n = Cardinality(T) - 1
        BY <2>1, <4>1, FS_RemoveElement
      <4>3. n \in Nat
        BY <4>1, FS_Subset, FS_CardinalityType
      <4> QED
        BY <2>1, <4>1, <4>2, <4>3
    <3>2. sum[T] = h[n + 1][T] /\ sum[U] = h[n][U]
      <4> HIDE DEF U, n
      <4>1. sum[T] = h[n + 1][T]
        BY <3>1
      <4>2. sum[U] = h[n][U]
        BY <3>1 DEF n
      <4> QED
        BY <4>1, <4>2
    <3>3. h[n + 1][T] = f[ch(T)] + h[n][U]
      <4>1. h[n + 1] = next(h[n])
        BY <1>4, <3>1
      <4> HIDE DEF n
      <4>2. next(h[n])[T] = f[ch(T)] + h[n][U]
        BY <2>3
      <4> QED
        BY <4>1, <4>2
    <3> QED
      BY <2>3, <3>2, <3>3
  <2> QED
    BY <2>2, <2>3
<1> HIDE DEF sum
<1>6. DOMAIN sum = SUBSET S /\ sum = [T \in SUBSET S |-> sum[T]]
  BY DEF sum
<1>7. sum = [T \in SUBSET S |-> IF T = {} THEN 0 ELSE f[ch(T)] + sum[T \ {ch(T)}]]
  BY <1>5, <1>6
<1> QED
  BY <1>7 DEF Sums, ch

(* g has d more than f at a, and nothing more elsewhere.                   *)
DiffersAt(f, g, S, a, d) == \A x \in S : g[x] = f[x] + (IF x = a THEN d ELSE 0)

(* One more in one place is one more in the sum.                           *)
LEMMA SumsDiffer ==
  ASSUME NEW S, IsFiniteSet(S), NEW f \in [S -> Nat], NEW g \in [S -> Nat],
         NEW a \in S, NEW d \in Nat, DiffersAt(f, g, S, a, d),
         NEW sum, Sums(sum, S, f), NEW more, Sums(more, S, g)
  PROVE  sum[S] \in Nat /\ more[S] = sum[S] + d
<1> DEFINE Q == {T \in SUBSET S : /\ sum[T] \in Nat
                                  /\ more[T] = sum[T] + (IF a \in T THEN d ELSE 0)}
<1>1. {} \in Q
  <2>1. sum[{}] = 0 /\ more[{}] = 0
    BY DEF Sums
  <2> QED
    BY <2>1
<1>2. ASSUME NEW T \in SUBSET S, T # {}, T \ {CHOOSE x \in T : TRUE} \in Q
      PROVE  T \in Q
  <2> DEFINE x == CHOOSE x \in T : TRUE
             U == T \ {x}
  <2>1. x \in T
    BY <1>2
  <2>2. sum[T] = f[x] + sum[U] /\ more[T] = g[x] + more[U]
    BY <1>2 DEF Sums
  <2> HIDE DEF x
  <2>3. U \in Q
    BY <1>2 DEF x
  <2>4. g[x] = f[x] + (IF x = a THEN d ELSE 0) /\ f[x] \in Nat
    BY <2>1 DEF DiffersAt
  <2>5. sum[U] \in Nat /\ more[U] = sum[U] + (IF a \in U THEN d ELSE 0)
    BY <2>3
  <2>6. a \in T <=> a \in U \/ x = a
    BY <2>1
  <2>7. ~(a \in U /\ x = a)
    OBVIOUS
  <2> HIDE DEF U
  <2>8. sum[T] \in Nat /\ more[T] = sum[T] + (IF a \in T THEN d ELSE 0)
    BY <2>2, <2>4, <2>5, <2>6, <2>7
  <2> QED
    BY <2>8
<1>3. SUBSET S \subseteq Q
  <2> HIDE DEF Q
  <2> QED
    BY <1>1, <1>2, InductiveSubsets
<1> QED
  BY <1>3

(* The sum of nothing but zeros.                                           *)
LEMMA SumOfZeros ==
  ASSUME NEW S, IsFiniteSet(S), NEW f, \A x \in S : f[x] = 0, NEW sum, Sums(sum, S, f)
  PROVE  sum[S] = 0
<1> DEFINE Q == {T \in SUBSET S : sum[T] = 0}
<1>1. {} \in Q
  BY DEF Sums
<1>2. ASSUME NEW T \in SUBSET S, T # {}, T \ {CHOOSE x \in T : TRUE} \in Q
      PROVE  T \in Q
  <2> DEFINE x == CHOOSE x \in T : TRUE
  <2>1. x \in T
    BY <1>2
  <2>2. sum[T] = f[x] + sum[T \ {x}]
    BY <1>2 DEF Sums
  <2> HIDE DEF x
  <2>3. sum[T \ {x}] = 0
    BY <1>2 DEF x
  <2> QED
    BY <2>1, <2>2, <2>3
<1>3. SUBSET S \subseteq Q
  <2> HIDE DEF Q
  <2> QED
    BY <1>1, <1>2, InductiveSubsets
<1> QED
  BY <1>3
=============================================================================
