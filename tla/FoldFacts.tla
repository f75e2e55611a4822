----------------------------- MODULE FoldFacts ------------------------------
(***************************************************************************)
(* What a fold over a sequence comes to, step by step.                     *)
(*                                                                         *)
(* FoldLeft is defined by some function of sets of positions that calls    *)
(* itself for the set without the largest one.  There is such a function,  *)
(* and its values for the first k positions, k = 0, 1, ..., are the way    *)
(* which the fold takes.                                                   *)
(***************************************************************************)
EXTENDS Integers, FiniteSetsExt, WellFoundedInduction, TLAPS

\* A set of numbers to which 0 belongs, and with each number the next one, is all of them.
LEMMA AllNumbers ==
  ASSUME NEW n \in Nat, NEW Good, 0 \in Good,
         \A k \in 0..(n - 1) : k \in Good => k + 1 \in Good
  PROVE  \A k \in 0..n : k \in Good
<1> DEFINE Bad == {k \in 0..n : k \notin Good}
           R == OpToRel(<, Nat)
<1> SUFFICES ASSUME Bad # {} PROVE FALSE
  OBVIOUS
<1>1. Bad \subseteq Nat
  OBVIOUS
<1>2. \A x, y \in Nat : <<y, x>> \in R <=> y < x
  BY DEF OpToRel
<1>3. IsWellFoundedOn(R, Nat)
  BY NatLessThanWellFounded
<1> HIDE DEF R
<1>4. PICK x \in Bad : \A y \in Bad : ~(<<y, x>> \in R)
  BY <1>1, <1>3, WFMin
<1>5. x \in 0..n /\ x \notin Good /\ x # 0
  OBVIOUS
<1>6. x - 1 \in 0..(n - 1) /\ x - 1 < x /\ (x - 1) + 1 = x
  BY <1>5
<1>7. x - 1 \notin Good
  BY <1>5, <1>6
<1>8. x - 1 \in Bad
  BY <1>6, <1>7
<1> QED BY <1>1, <1>2, <1>4, <1>6, <1>8

\* The largest number of a set of some of the first ones.
LEMMA MaxFacts ==
  ASSUME NEW n \in Nat, NEW T \in SUBSET (1..n)
  PROVE  /\ n \in T => Max(T) = n
         /\ T # {} => Max(T) \in T /\ \A y \in T : Max(T) >= y
<1>1. ASSUME NEW k \in T, \A y \in T : k >= y PROVE Max(T) = k
  <2>1. Max(T) \in T /\ \A y \in T : Max(T) >= y
    BY <1>1 DEF Max
  <2>2. \A y \in T : y \in Nat
    OBVIOUS
  <2>3. ASSUME NEW m \in T, \A y \in T : m >= y PROVE m = k
    <3>1. m \in Nat /\ k \in Nat /\ m >= k /\ k >= m
      BY <1>1, <2>2, <2>3
    <3> QED BY <3>1
  <2> QED BY <2>1, <2>3
<1> DEFINE Good == {k \in 0..n : \A U \in SUBSET (1..k) : U # {} => \E x \in U : \A y \in U : x >= y}
<1>2. 0 \in Good
  <2>1. ASSUME NEW U \in SUBSET (1..0), U # {} PROVE \E x \in U : \A y \in U : x >= y
    <3>1. PICK x \in U : x \in 1..0
      BY <2>1
    <3> QED BY <3>1
  <2>2. 0 \in 0..n
    OBVIOUS
  <2> QED BY <2>1, <2>2
<1>3. ASSUME NEW k \in 0..(n - 1), k \in Good PROVE k + 1 \in Good
  <2> SUFFICES ASSUME NEW U \in SUBSET (1..(k + 1)), U # {} PROVE \E x \in U : \A y \in U : x >= y
    OBVIOUS
  <2>1. CASE k + 1 \in U
    <3>1. \A y \in U : k + 1 >= y
      OBVIOUS
    <3> QED BY <2>1, <3>1
  <2>2. CASE k + 1 \notin U
    <3>1. \A y \in U : y \in 1..k
      BY <2>2
    <3> QED BY <1>3, <3>1
  <2> QED BY <2>1, <2>2
<1>4. n \in Good
  <2> HIDE DEF Good
  <2>1. \A k \in 0..n : k \in Good
    BY <1>2, <1>3, AllNumbers
  <2> QED BY <2>1
<1>5. ASSUME T # {} PROVE Max(T) \in T /\ \A y \in T : Max(T) >= y
  <2>1. \E x \in T : \A y \in T : x >= y
    BY <1>4, <1>5
  <2> QED BY <2>1 DEF Max
<1>6. n \in T => Max(T) = n
  BY <1>1
<1> QED BY <1>5, <1>6

\* The smallest one.
LEMMA MinFacts ==
  ASSUME NEW n \in Nat, NEW T \in SUBSET (1..n), T # {}
  PROVE  Min(T) \in T /\ \A y \in T : Min(T) <= y
<1> DEFINE Good == {k \in 0..n : (\E y \in T : y <= k) => \E x \in T : \A y \in T : x <= y}
<1>1. 0 \in Good
  <2>1. \A y \in T : y >= 1 /\ y \in Int
    OBVIOUS
  <2>2. 0 \in 0..n /\ ~\E y \in T : y <= 0
    BY <2>1
  <2> QED BY <2>2
<1>2. ASSUME NEW k \in 0..(n - 1), k \in Good PROVE k + 1 \in Good
  <2> SUFFICES ASSUME NEW z \in T, z <= k + 1 PROVE \E x \in T : \A y \in T : x <= y
    OBVIOUS
  <2>1. CASE \E y \in T : y <= k
    BY <1>2, <2>1
  <2>2. CASE ~\E y \in T : y <= k
    <3>1. \A y \in T : y \in Int /\ y > k
      BY <2>2
    <3>2. \A y \in T : z <= y
      BY <3>1
    <3> QED BY <3>2
  <2> QED BY <2>1, <2>2
<1>3. \A k \in 0..n : k \in Good
  <2> HIDE DEF Good
  <2> QED BY <1>1, <1>2, AllNumbers
<1>4. n \in Good /\ \A y \in T : y <= n
  BY <1>3
<1>5. \E x \in T : \A y \in T : x <= y
  BY <1>4
<1> QED BY <1>5 DEF Min

\* What defines a fold over the first n numbers: a function of their sets.
IsFold(iter, n, base, step) ==
  \A T \in SUBSET (1..n) :
    iter[T] = IF T = {} THEN base ELSE step[<<iter[T \ {Max(T)}], Max(T)>>]

\* There is such a function.
LEMMA FoldExists ==
  ASSUME NEW n \in Nat, NEW A, NEW base \in A, NEW step \in [A \X (1..n) -> A]
  PROVE  \E iter \in [SUBSET (1..n) -> A] : IsFold(iter, n, base, step)
<1> DEFINE Folds(k, iter) == IsFold(iter, k, base, step)
           Good == {k \in 0..n : \E iter \in [SUBSET (1..k) -> A] : Folds(k, iter)}
<1>1. 0 \in Good
  <2> DEFINE iter == [T \in SUBSET (1..0) |-> base]
  <2>1. iter \in [SUBSET (1..0) -> A]
    OBVIOUS
  <2>2. \A T \in SUBSET (1..0) : T = {} /\ iter[T] = base
    OBVIOUS
  <2>3. Folds(0, iter)
    BY <2>2 DEF IsFold
  <2>4. 0 \in 0..n
    OBVIOUS
  <2> HIDE DEF iter, Folds
  <2>5. \E f \in [SUBSET (1..0) -> A] : Folds(0, f)
    BY <2>1, <2>3
  <2> QED BY <2>4, <2>5
<1>2. ASSUME NEW k \in 0..(n - 1), k \in Good PROVE k + 1 \in Good
  <2>1. PICK iter \in [SUBSET (1..k) -> A] : Folds(k, iter)
    BY <1>2
  <2> DEFINE new == [T \in SUBSET (1..(k + 1)) |->
                       IF k + 1 \in T THEN step[<<iter[T \ {k + 1}], k + 1>>] ELSE iter[T]]
  <2>2. \A T \in SUBSET (1..(k + 1)) : T \ {k + 1} \in SUBSET (1..k) /\ (k + 1 \notin T => T \in SUBSET (1..k))
    OBVIOUS
  <2>3. k + 1 \in 1..n /\ k \in Nat
    OBVIOUS
  <2>4. \A T \in SUBSET (1..(k + 1)) :
          new[T] = IF k + 1 \in T THEN step[<<iter[T \ {k + 1}], k + 1>>] ELSE iter[T]
    OBVIOUS
  <2>5. new \in [SUBSET (1..(k + 1)) -> A]
    BY <2>2, <2>3
  <2> HIDE DEF new
  <2>6. ASSUME NEW T \in SUBSET (1..(k + 1))
        PROVE  new[T] = IF T = {} THEN base ELSE step[<<new[T \ {Max(T)}], Max(T)>>]
    <3>1. CASE k + 1 \in T
      <4>1. Max(T) = k + 1
        BY <2>3, <3>1, MaxFacts
      <4>2. new[T \ {k + 1}] = iter[T \ {k + 1}]
        BY <2>2, <2>4
      <4> QED BY <2>4, <3>1, <4>1, <4>2
    <3>2. CASE k + 1 \notin T
      <4>1. T \in SUBSET (1..k) /\ T \ {Max(T)} \in SUBSET (1..k) /\ k + 1 \notin T \ {Max(T)}
        BY <2>2, <3>2
      <4>2. new[T] = iter[T] /\ new[T \ {Max(T)}] = iter[T \ {Max(T)}]
        BY <2>2, <2>4, <3>2, <4>1
      <4>3. iter[T] = IF T = {} THEN base ELSE step[<<iter[T \ {Max(T)}], Max(T)>>]
        BY <2>1, <4>1 DEF IsFold
      <4> QED BY <4>2, <4>3
    <3> QED BY <3>1, <3>2
  <2>7. Folds(k + 1, new) /\ k + 1 \in 0..n
    BY <2>3, <2>6 DEF IsFold
  <2> HIDE DEF Folds
  <2> QED BY <2>5, <2>7
<1>3. n \in Good
  <2> HIDE DEF Good
  <2>1. \A k \in 0..n : k \in Good
    BY <1>1, <1>2, AllNumbers
  <2> QED BY <2>1
<1> QED BY <1>3

\* What is known of the function that a fold chooses: it follows the steps as long as
\* it stays in A.
Follows(iter, n, A, base, step) ==
  \A T \in SUBSET (1..n) :
    /\ T = {} => iter[T] = base
    /\ T # {} /\ iter[T \ {Max(T)}] \in A => iter[T] = step[<<iter[T \ {Max(T)}], Max(T)>>]

\* The values after each of the first n steps.
IsWay(way, n, base, step, last) ==
  /\ way[0] = base /\ way[n] = last
  /\ \A k \in 0..(n - 1) : way[k + 1] = step[<<way[k], k + 1>>]

\* It never leaves A.
LEMMA WayOfFold ==
  ASSUME NEW n \in Nat, NEW A, NEW base \in A, NEW step \in [A \X (1..n) -> A],
         NEW iter, Follows(iter, n, A, base, step)
  PROVE  \E way \in [0..n -> A] : IsWay(way, n, base, step, iter[1..n])
<1> DEFINE way == [k \in 0..n |-> iter[1..k]]
<1>1. way[0] = base
  <2>1. 1..0 = {} /\ 0 \in 0..n /\ {} \in SUBSET (1..n)
    OBVIOUS
  <2>2. iter[{}] = base
    BY <2>1 DEF Follows
  <2> QED BY <2>1, <2>2
<1>2. ASSUME NEW k \in 0..(n - 1), way[k] \in A PROVE way[k + 1] = step[<<way[k], k + 1>>]
  <2>1. /\ k \in Nat /\ k + 1 \in Nat /\ k \in 0..n /\ k + 1 \in 0..n
        /\ k + 1 \in 1..(k + 1) /\ 1..(k + 1) \subseteq 1..n
    OBVIOUS
  <2>2. (1..(k + 1)) \ {k + 1} = 1..k /\ 1..(k + 1) \in SUBSET (1..n) /\ 1..(k + 1) # {}
    BY <2>1
  <2>3. Max(1..(k + 1)) = k + 1
    BY <2>1, MaxFacts
  <2>4. iter[1..k] \in A
    BY <1>2, <2>1
  <2>5. iter[1..(k + 1)] = step[<<iter[1..k], k + 1>>]
    BY <2>2, <2>3, <2>4 DEF Follows
  <2> QED BY <2>1, <2>5
<1>3. \A k \in 0..n : way[k] \in A
  <2> DEFINE Good == {k \in 0..n : way[k] \in A}
  <2>1. 0 \in Good
    BY <1>1
  <2>2. ASSUME NEW k \in 0..(n - 1), k \in Good PROVE k + 1 \in Good
    <3>1. k + 1 \in 1..n /\ k + 1 \in 0..n
      OBVIOUS
    <3> HIDE DEF way
    <3>2. way[k + 1] = step[<<way[k], k + 1>>]
      BY <1>2, <2>2
    <3> QED BY <2>2, <3>1, <3>2
  <2> HIDE DEF Good
  <2>3. \A k \in 0..n : k \in Good
    BY <2>1, <2>2, AllNumbers
  <2> QED BY <2>3 DEF Good
<1>4. way \in [0..n -> A] /\ way[n] = iter[1..n]
  BY <1>3
<1>5. \A k \in 0..(n - 1) : way[k] \in A
  BY <1>3
<1> HIDE DEF way
<1> QED BY <1>1, <1>2, <1>4, <1>5 DEF IsWay
=============================================================================
