----------------------------- MODULE FoldFacts -----------------------------
(***************************************************************************)
(* What FoldLeft computes, proved for any loop body: an instance gives the *)
(* body Op and the loop invariant Inv, and has the rule of the loop.       *)
(***************************************************************************)
EXTENDS Integers, SequencesExt, WellFoundedInduction, TLAPS

CONSTANTS Value,       \* what the loop computes
          Item,        \* the elements of the sequence
          Op(_, _, _), \* the body: of the sequence, the value so far and the next element
          Inv(_, _, _) \* of the sequence, how many elements are done, and the value

\* Every set of natural numbers that has an element has a least one.
LEMMA LeastNatural ==
  ASSUME NEW T, T \subseteq Nat, T # {}
  PROVE  \E x \in T : \A y \in T : x <= y
<1> DEFINE R == {pair \in Nat \X Nat : pair[1] < pair[2]}
<1>1. IsWellFoundedOn(R, Nat)
  BY NatLessThanWellFounded DEF OpToRel
<1>2. \A x, y \in Nat : x < y => <<x, y>> \in R
  OBVIOUS
<1>3. PICK x \in T : \A y \in T : ~ (<<y, x>> \in R)
  <2> HIDE DEF R
  <2> QED BY <1>1, WFMin
<1>4. \A y \in T : ~ (y < x)
  <2> HIDE DEF R
  <2> QED BY <1>2, <1>3
<1> QED
  BY <1>4

\* Induction, for a set: it needs no operator for the statement.
LEMMA InductionOnSet ==
  ASSUME NEW S, 0 \in S, \A n \in Nat : n \in S => n + 1 \in S
  PROVE  Nat \subseteq S
<1> SUFFICES ASSUME Nat \ S # {} PROVE FALSE
  OBVIOUS
<1>1. PICK x \in Nat \ S : \A y \in Nat \ S : x <= y
  BY LeastNatural
<1>2. x # 0 /\ x - 1 \in Nat
  OBVIOUS
<1>3. x - 1 \in S
  BY <1>1, <1>2
<1> QED
  BY <1>2, <1>3

\* The largest number of a set.
LEMMA MaxIs ==
  ASSUME NEW s, s \subseteq Int, NEW m \in s, \A x \in s : x <= m
  PROVE  Max(s) = m
<1>1. \A x \in s : m >= x
  OBVIOUS
<1>2. \A z \in s : (\A x \in s : z >= x) => z = m
  OBVIOUS
<1> QED
  BY <1>1, <1>2 DEF Max

\* The first k + 1 positions are the first k and one more.
LEMMA Prefix ==
  ASSUME NEW k \in Nat, NEW n \in Nat, k + 1 <= n
  PROVE  1..(k + 1) \in SUBSET (1..n) /\ 1..(k + 1) # {} /\ (1..(k + 1)) \ {k + 1} = 1..k
<1>1. \A i \in 1..(k + 1) : i \in 1..n
  OBVIOUS
<1>2. k + 1 \in 1..(k + 1)
  OBVIOUS
<1>3. \A i \in Int : i \in 1..(k + 1) /\ i # k + 1 <=> i \in 1..k
  OBVIOUS
<1>4. (1..(k + 1)) \ {k + 1} = 1..k
  BY <1>3
<1> QED
  BY <1>1, <1>2, <1>4

-----------------------------------------------------------------------------
\* The value of the loop.
Fold(seq, base) == FoldLeft(LAMBDA v, i : Op(seq, v, i), base, seq)

\* f is the function whose value at all of dom is the fold of seq.
Folds(seq, base, dom, f) ==
  f = [s \in SUBSET dom |-> IF s = {} THEN base
                             ELSE Op(seq, f[s \ {Max(s)}], seq[Max(s)])]

Foldable(seq, base, n) == \E f \in [SUBSET (1..n) -> Value] : Folds(seq, base, 1..n, f)

\* The function that a fold is defined by exists: it is built from the left.
LEMMA FoldExists ==
  ASSUME NEW seq \in Seq(Item), NEW base \in Value,
         \A v \in Value, i \in Item : Op(seq, v, i) \in Value
  PROVE  Foldable(seq, base, Len(seq))
<1> DEFINE S == {n \in Nat : n <= Len(seq) => Foldable(seq, base, n)}
<1>1. 0 \in S
  <2> DEFINE f == [s \in SUBSET (1..0) |-> base]
  <2>1. 1..0 = {} /\ SUBSET (1..0) = {{}}
    OBVIOUS
  <2>2. f \in [SUBSET (1..0) -> Value] /\ Folds(seq, base, 1..0, f)
    BY <2>1 DEF Folds
  <2> QED
    BY <2>2 DEF Foldable
<1>2. ASSUME NEW n \in Nat, n \in S, n + 1 <= Len(seq)
      PROVE  Foldable(seq, base, n + 1)
  <2>a. n <= Len(seq)
    BY <1>2
  <2>b. Foldable(seq, base, n)
    BY <1>2, <2>a
  <2>1. PICK f \in [SUBSET (1..n) -> Value] : Folds(seq, base, 1..n, f)
    BY <2>b DEF Foldable
  <2> DEFINE g == [s \in SUBSET (1..(n + 1)) |->
                     IF n + 1 \in s THEN Op(seq, f[s \ {n + 1}], seq[n + 1]) ELSE f[s]]
  <2>2. \A s \in SUBSET (1..(n + 1)) : n + 1 \notin s => s \in SUBSET (1..n)
    OBVIOUS
  <2>3. \A s \in SUBSET (1..(n + 1)) : s \ {n + 1} \in SUBSET (1..n)
    OBVIOUS
  <2>4. seq[n + 1] \in Item
    BY <1>2
  <2>5. g \in [SUBSET (1..(n + 1)) -> Value]
    BY <2>2, <2>3, <2>4
  <2>6. ASSUME NEW s \in SUBSET (1..(n + 1)), n + 1 \in s
        PROVE  g[s] = Op(seq, g[s \ {Max(s)}], seq[Max(s)])
    <3>0. s \subseteq Int /\ \A x \in s : x <= n + 1
      OBVIOUS
    <3>1. Max(s) = n + 1
      BY <2>6, <3>0, MaxIs
    <3>2. s \ {n + 1} \in SUBSET (1..(n + 1)) /\ n + 1 \notin s \ {n + 1}
      OBVIOUS
    <3> QED
      BY <2>6, <3>1, <3>2
  <2>7. ASSUME NEW s \in SUBSET (1..(n + 1)), n + 1 \notin s
        PROVE  g[s] = IF s = {} THEN base ELSE Op(seq, g[s \ {Max(s)}], seq[Max(s)])
    <3>1. s \in SUBSET (1..n) /\ s \ {Max(s)} \in SUBSET (1..n)
      BY <2>2, <2>7
    <3>2. s \ {Max(s)} \in SUBSET (1..(n + 1)) /\ n + 1 \notin s \ {Max(s)}
      BY <2>7
    <3>3. g[s] = f[s] /\ g[s \ {Max(s)}] = f[s \ {Max(s)}]
      BY <2>7, <3>2
    <3>4. f[s] = IF s = {} THEN base ELSE Op(seq, f[s \ {Max(s)}], seq[Max(s)])
      BY <2>1, <3>1 DEF Folds
    <3> QED
      BY <3>3, <3>4
  <2>8. Folds(seq, base, 1..(n + 1), g)
    <3> HIDE DEF g
    <3>1. \A s \in SUBSET (1..(n + 1)) :
            g[s] = IF s = {} THEN base ELSE Op(seq, g[s \ {Max(s)}], seq[Max(s)])
      BY <2>6, <2>7
    <3> QED
      BY <2>5, <3>1 DEF Folds
  <2> QED
    BY <2>5, <2>8 DEF Foldable
<1>3. \A n \in Nat : n \in S => n + 1 \in S
  BY <1>2
<1>4. Nat \subseteq S
  <2> HIDE DEF S
  <2> QED BY <1>1, <1>3, InductionOnSet
<1>5. Len(seq) \in S
  BY <1>4
<1> QED
  BY <1>5

\* The rule of a loop: what holds before it, and what its body keeps, holds after it.
THEOREM FoldInvariant ==
  ASSUME NEW seq \in Seq(Item), NEW base \in Value,
         \A v \in Value, i \in Item : Op(seq, v, i) \in Value,
         Inv(seq, 0, base),
         \A k \in 1..Len(seq), v \in Value : Inv(seq, k - 1, v) => Inv(seq, k, Op(seq, v, seq[k]))
  PROVE  /\ Fold(seq, base) \in Value
         /\ Inv(seq, Len(seq), Fold(seq, base))
<1> DEFINE n == Len(seq)
           fold == CHOOSE f : Folds(seq, base, DOMAIN seq, f)
           S == {k \in Nat : k <= n => fold[1..k] \in Value /\ Inv(seq, k, fold[1..k])}
<1>0. DOMAIN seq = 1..n
  OBVIOUS
<1>1. \E f : Folds(seq, base, DOMAIN seq, f)
  BY <1>0, FoldExists DEF Foldable
<1>2. Folds(seq, base, 1..n, fold)
  BY <1>0, <1>1
<1>3. Fold(seq, base) = fold[1..n]
  <2>1. Fold(seq, base) = fold[DOMAIN seq]
    BY DEF Fold, FoldLeft, MapThenFoldSet, Folds
  <2> HIDE DEF fold
  <2> QED
    BY <1>0, <2>1
<1>4. 0 \in S
  <2>1. 1..0 = {} /\ {} \in SUBSET (1..n)
    OBVIOUS
  <2>2. fold[1..0] = base
    <3> HIDE DEF fold
    <3> QED BY <1>2, <2>1 DEF Folds
  <2> HIDE DEF fold
  <2> QED BY <2>2
<1>5. ASSUME NEW k \in Nat, k \in S, k + 1 <= n
      PROVE  fold[1..(k + 1)] \in Value /\ Inv(seq, k + 1, fold[1..(k + 1)])
  <2>1. fold[1..k] \in Value /\ Inv(seq, k, fold[1..k])
    BY <1>5
  <2>2. Max(1..(k + 1)) = k + 1
    <3>1. 1..(k + 1) \subseteq Int /\ k + 1 \in 1..(k + 1) /\ \A x \in 1..(k + 1) : x <= k + 1
      OBVIOUS
    <3> QED
      BY <3>1, MaxIs
  <2>3. 1..(k + 1) \in SUBSET (1..n) /\ 1..(k + 1) # {} /\ (1..(k + 1)) \ {k + 1} = 1..k
    <3>1. n \in Nat /\ k + 1 <= n
      BY <1>5
    <3> HIDE DEF n
    <3> QED
      BY <3>1, Prefix
  <2>4. fold[1..(k + 1)] = Op(seq, fold[1..k], seq[k + 1])
    <3> HIDE DEF fold
    <3> QED BY <1>2, <2>2, <2>3 DEF Folds
  <2>5. seq[k + 1] \in Item /\ k + 1 \in 1..n /\ (k + 1) - 1 = k
    BY <1>5
  <2> QED
    <3> HIDE DEF fold
    <3> QED BY <2>1, <2>4, <2>5
<1>6. \A k \in Nat : k \in S => k + 1 \in S
  <2> HIDE DEF fold
  <2> QED BY <1>5
<1>7. Nat \subseteq S
  <2> HIDE DEF S
  <2> QED BY <1>4, <1>6, InductionOnSet
<1> QED
  <2> HIDE DEF fold
  <2> QED BY <1>3, <1>7
=============================================================================
