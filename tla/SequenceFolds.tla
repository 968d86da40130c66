--------------------------- MODULE SequenceFolds ---------------------------
(***************************************************************************)
(* What the proofs about the Merkle tree and the registry need to know of  *)
(* data of any size: induction over the naturals for a set of them, powers *)
(* of two, and the recursion equation of FoldLeft. A fold over the         *)
(* operator op(p, _, _) is had by an instance of this module for that      *)
(* operator; p stands for whatever else the operator depends on.           *)
(***************************************************************************)
EXTENDS Integers, Sequences, SequencesExt, FiniteSetTheorems, TLAPS

CONSTANT op(_, _, _)

-----------------------------------------------------------------------------
(* Induction *)

\* Induction over the naturals, for a property given as a set: the library
\* knows that finite sets are well founded, and 0 .. k is one for each k.
LEMMA InductionOnNat ==
    ASSUME NEW S, 0 \in S, \A n \in Nat : n \in S => n + 1 \in S
    PROVE  \A n \in Nat : n \in S
<1> DEFINE Missing == Nat \ S
           Intervals == {0 .. k : k \in Missing}
<1>1. ASSUME Missing # {}
      PROVE  FALSE
    <2>1. Intervals \subseteq FiniteSubsetsOf(Nat)
        <3>1. \A k \in Nat : 0 .. k \in SUBSET Nat /\ IsFiniteSet(0 .. k)
            BY FS_Interval
        <3>2. QED
            BY <3>1 DEF FiniteSubsetsOf
    <2>2. PICK x \in Intervals : \A y \in Intervals : <<y, x>> \notin StrictSubsetOrdering(Nat)
        <3>1. Intervals # {}
            BY <1>1
        <3>2. QED
            BY <2>1, <3>1, FS_StrictSubsetOrderingWellFounded, WFMin
    <2>3. PICK k \in Missing : x = 0 .. k
        BY <2>2
    <2>4. k # 0 /\ k - 1 \in Missing
        BY <2>3
    <2>5. 0 .. k - 1 \in Intervals /\ 0 .. k - 1 \subseteq x /\ 0 .. k - 1 # x
        BY <2>3, <2>4
    <2>6. <<0 .. k - 1, x>> \in StrictSubsetOrdering(Nat)
        BY <2>1, <2>3, <2>5 DEF StrictSubsetOrdering, FiniteSubsetsOf
    <2>7. QED
        BY <2>2, <2>5, <2>6
<1>2. QED
    BY <1>1

\* A non-empty set of numbers up to n has a greatest element.
LEMMA GreatestElement ==
    ASSUME NEW n \in Nat, NEW T \in SUBSET (0 .. n), T # {}
    PROVE  \E k \in T : \A j \in T : j <= k
<1> DEFINE S == {m \in Nat : \A U \in SUBSET (0 .. m) :
                                U # {} => \E k \in U : \A j \in U : j <= k}
<1>1. 0 \in S
    <2>1. ASSUME NEW U \in SUBSET (0 .. 0), U # {}
          PROVE  \E k \in U : \A j \in U : j <= k
        <3>1. PICK k \in U : TRUE
            BY <2>1
        <3>2. \A j \in U : j = 0
            OBVIOUS
        <3>3. \A j \in U : j <= k
            BY <3>2
        <3>4. QED
            BY <3>3
    <2>2. QED
        BY <2>1
<1>2. ASSUME NEW m \in Nat, m \in S
      PROVE  m + 1 \in S
    <2>1. ASSUME NEW U \in SUBSET (0 .. m + 1), U # {}
          PROVE  \E k \in U : \A j \in U : j <= k
        <3>1. CASE m + 1 \in U
            BY <3>1
        <3>2. CASE m + 1 \notin U
            <4>1. U \in SUBSET (0 .. m)
                BY <3>2
            <4>2. QED
                BY <1>2, <2>1, <4>1
        <3>3. QED
            BY <3>1, <3>2
    <2>2. QED
        BY <2>1
<1>3. n \in S
    <2> HIDE DEF S
    <2>1. QED
        BY <1>1, <1>2, InductionOnNat
<1>4. QED
    BY <1>3

\* It has a least one too.
LEMMA LeastElement ==
    ASSUME NEW n \in Nat, NEW T \in SUBSET (0 .. n), T # {}
    PROVE  \E k \in T : \A j \in T : k <= j
<1> DEFINE U == {n - j : j \in T}
<1>1. U # {} /\ U \in SUBSET (0 .. n)
    <2>1. \A j \in T : j \in 0 .. n
        OBVIOUS
    <2>2. \A j \in T : n - j \in 0 .. n
        BY <2>1
    <2>3. QED
        BY <2>2
<1>2. PICK m \in U : \A j \in U : j <= m
    <2> HIDE DEF U
    <2>1. QED
        BY <1>1, GreatestElement
<1>3. PICK k \in T : m = n - k
    BY <1>2
<1>4. \A j \in T : n - j <= n - k
    BY <1>2, <1>3
<1>5. \A j \in T : k <= j
    <2>1. \A j \in T : j \in 0 .. n
        OBVIOUS
    <2>2. QED
        BY <1>4, <2>1
<1>6. QED
    BY <1>5

-----------------------------------------------------------------------------
(* Powers of two, of which the library only knows that SUBSET S has *)
(* 2 ^ Cardinality(S) elements *)

\* Doubling.
LEMMA PowersOfTwo ==
    /\ 2 ^ 0 = 1
    /\ \A n \in Nat : /\ 2 ^ n \in Nat \ {0}
                      /\ 2 ^ (n + 1) = 2 * 2 ^ n
<1>1. ASSUME NEW n \in Nat
      PROVE  2 ^ n \in Nat /\ 2 ^ (n + 1) = 2 * 2 ^ n
    <2> DEFINE A == SUBSET (1 .. n)
               B == {T \cup {n + 1} : T \in A}
    <2>1. /\ IsFiniteSet(A) /\ Cardinality(A) = 2 ^ n
          /\ IsFiniteSet(SUBSET (1 .. n + 1)) /\ Cardinality(SUBSET (1 .. n + 1)) = 2 ^ (n + 1)
        <3>1. /\ IsFiniteSet(1 .. n) /\ Cardinality(1 .. n) = n
              /\ IsFiniteSet(1 .. n + 1) /\ Cardinality(1 .. n + 1) = n + 1
            BY FS_Interval
        <3>2. QED
            BY <3>1, FS_SUBSET
    <2>2. IsFiniteSet(B) /\ Cardinality(B) = Cardinality(A)
        <3> DEFINE f == [T \in A |-> T \cup {n + 1}]
        <3>1. f \in Injection(A, B)
            <4>1. f \in [A -> B]
                OBVIOUS
            <4>2. ASSUME NEW T \in A, NEW U \in A, f[T] = f[U]
                  PROVE  T = U
                <5>1. n + 1 \notin T /\ n + 1 \notin U
                    OBVIOUS
                <5>2. QED
                    BY <4>2, <5>1
            <4>3. QED
                BY <4>1, <4>2 DEF Injection, IsInjective
        <3>2. f \in Surjection(A, B)
            BY DEF Surjection
        <3>3. ExistsBijection(A, B)
            BY <3>1, <3>2 DEF ExistsBijection, Bijection
        <3>4. QED
            BY <2>1, <3>3, FS_Bijection
    <2>3. SUBSET (1 .. n + 1) = A \cup B /\ A \cap B = {}
        <3>1. ASSUME NEW T \in SUBSET (1 .. n + 1), T \notin A
              PROVE  T \in B
            <4>1. n + 1 \in T
                BY <3>1
            <4>2. T = (T \ {n + 1}) \cup {n + 1} /\ T \ {n + 1} \in A
                BY <4>1
            <4>3. QED
                BY <4>2
        <3>2. \A T \in B : T \in SUBSET (1 .. n + 1) /\ n + 1 \in T
            OBVIOUS
        <3>3. \A T \in A : T \in SUBSET (1 .. n + 1) /\ n + 1 \notin T
            OBVIOUS
        <3>4. QED
            BY <3>1, <3>2, <3>3
    <2>4. Cardinality({}) = 0
        BY FS_EmptySet
    <2>5. Cardinality(A) \in Nat
        BY <2>1, FS_CardinalityType
    <2>6. Cardinality(A \cup B) = Cardinality(A) + Cardinality(B) - Cardinality(A \cap B)
        BY <2>1, <2>2, FS_Union
    <2>7. 2 ^ (n + 1) = 2 ^ n + 2 ^ n - 0
        BY <2>1, <2>2, <2>3, <2>4, <2>6
    <2>8. QED
        BY <2>1, <2>5, <2>7
<1>2. \A n \in Nat : 2 ^ n \in Nat \ {0}
    <2> DEFINE S == {n \in Nat : 2 ^ n \in Nat \ {0}}
    <2>1. 0 \in S
        OBVIOUS
    <2>2. \A n \in Nat : n \in S => n + 1 \in S
        <3>1. ASSUME NEW n \in Nat, 2 ^ n \in Nat \ {0}
              PROVE  2 ^ (n + 1) \in Nat \ {0}
            BY <1>1, <3>1
        <3>2. QED
            BY <3>1
    <2>3. \A n \in Nat : n \in S
        <3> HIDE DEF S
        <3>1. QED
            BY <2>1, <2>2, InductionOnNat
    <2>4. QED
        BY <2>3
<1>3. QED
    BY <1>1, <1>2

-----------------------------------------------------------------------------
(* Folds *)

\* The recursive function behind a fold of seq, which takes the greatest
\* position out of a set of positions, and its restriction to 1 .. m.
Unrolled(f, p, base, seq, m) ==
    f = [s \in SUBSET (1 .. m) |->
            IF s = {} THEN base ELSE op(p, f[s \ {Max(s)}], seq[Max(s)])]

\* The greatest of a set of positions.
LEMMA MaxOfPositions ==
    ASSUME NEW m \in Nat, NEW s \in SUBSET (1 .. m), s # {}
    PROVE  Max(s) \in s /\ \A j \in s : j <= Max(s)
<1>1. s \in SUBSET (0 .. m)
    OBVIOUS
<1>2. \E k \in s : \A j \in s : k >= j
    <2>1. PICK k \in s : \A j \in s : j <= k
        BY <1>1, GreatestElement
    <2>2. \A j \in s : j \in Nat
        OBVIOUS
    <2>3. QED
        BY <2>1, <2>2
<1>3. /\ Max(s) \in s
      /\ \A j \in s : Max(s) >= j
    BY <1>2 DEF Max
<1>4. QED
    BY <1>3

\* There is such a function for positions up to any m: the one for m extends
\* to m + 1 on the sets with m + 1 in them.
LEMMA UnrolledExists ==
    ASSUME NEW p, NEW base, NEW seq, NEW n \in Nat
    PROVE  \E f : Unrolled(f, p, base, seq, n)
<1> DEFINE S == {m \in Nat : \E f : Unrolled(f, p, base, seq, m)}
<1>1. 0 \in S
    <2> DEFINE f == [s \in SUBSET (1 .. 0) |-> base]
    <2>1. \A s \in SUBSET (1 .. 0) : s = {}
        OBVIOUS
    <2>2. Unrolled(f, p, base, seq, 0)
        BY <2>1 DEF Unrolled
    <2>3. QED
        BY <2>2
<1>2. ASSUME NEW m \in Nat, m \in S
      PROVE  m + 1 \in S
    <2>1. PICK f : Unrolled(f, p, base, seq, m)
        BY <1>2
    <2> DEFINE g == [s \in SUBSET (1 .. m + 1) |->
                        IF m + 1 \in s THEN op(p, f[s \ {m + 1}], seq[m + 1]) ELSE f[s]]
               Body(s) == IF s = {} THEN base ELSE op(p, g[s \ {Max(s)}], seq[Max(s)])
    <2>2. ASSUME NEW s \in SUBSET (1 .. m + 1)
          PROVE  g[s] = Body(s)
        <3>1. CASE m + 1 \in s
            <4>1. m + 1 \in Nat /\ s # {}
                BY <3>1
            <4>2. Max(s) = m + 1
                <5>1. Max(s) \in s /\ m + 1 <= Max(s)
                    BY <3>1, <4>1, MaxOfPositions
                <5>2. Max(s) \in 1 .. m + 1
                    BY <5>1
                <5>3. QED
                    BY <5>1, <5>2
            <4>3. s \ {m + 1} \in SUBSET (1 .. m + 1) /\ m + 1 \notin s \ {m + 1}
                OBVIOUS
            <4>4. g[s \ {m + 1}] = f[s \ {m + 1}]
                BY <4>3
            <4>5. QED
                BY <3>1, <4>2, <4>4
        <3>2. CASE m + 1 \notin s
            <4>1. s \in SUBSET (1 .. m)
                BY <3>2
            <4>2. g[s] = f[s]
                BY <3>2
            <4>3. f[s] = IF s = {} THEN base ELSE op(p, f[s \ {Max(s)}], seq[Max(s)])
                BY <2>1, <4>1 DEF Unrolled
            <4>4. g[s \ {Max(s)}] = f[s \ {Max(s)}]
                BY <3>2
            <4>5. QED
                BY <4>2, <4>3, <4>4
        <3>3. QED
            BY <3>1, <3>2
    <2>3. g = [s \in SUBSET (1 .. m + 1) |-> g[s]]
        OBVIOUS
    <2>4. g = [s \in SUBSET (1 .. m + 1) |-> Body(s)]
        <3> HIDE DEF g, Body
        <3>1. QED
            BY <2>2, <2>3
    <2>5. Unrolled(g, p, base, seq, m + 1)
        <3> HIDE DEF g
        <3>1. QED
            BY <2>4 DEF Unrolled
    <2>6. QED
        BY <2>5
<1>3. n \in S
    <2> HIDE DEF S
    <2>1. QED
        BY <1>1, <1>2, InductionOnNat
<1>4. QED
    BY <1>3

\* The fold of seq over op(p, _, _).
Fold(p, base, seq) == FoldLeft(LAMBDA x, y : op(p, x, y), base, seq)

\* What such a fold of seq, of length n, goes through.
IsFold(fold, p, base, seq, n) ==
    /\ fold[0] = base
    /\ \A k \in 1 .. n : fold[k] = op(p, fold[k - 1], seq[k])
    /\ fold[n] = Fold(p, base, seq)

\* FoldLeft visits seq from left to right: the values it goes through are those
\* of a function on 0 .. n.
THEOREM FoldExists ==
    ASSUME NEW p, NEW base, NEW seq, NEW n \in Nat, DOMAIN seq = 1 .. n
    PROVE  \E fold : IsFold(fold, p, base, seq, n)
<1> DEFINE f == CHOOSE g : Unrolled(g, p, base, seq, n)
<1>1. Unrolled(f, p, base, seq, n)
    BY UnrolledExists
<1>2. Fold(p, base, seq) = f[1 .. n]
    BY DEF Fold, FoldLeft, MapThenFoldSet, Unrolled
<1> HIDE DEF f
<1> DEFINE fold == [k \in 0 .. n |-> f[1 .. k]]
<1>3. fold[0] = base
    <2>1. 1 .. 0 = {} /\ 1 .. 0 \in SUBSET (1 .. n)
        OBVIOUS
    <2>2. QED
        BY <1>1, <2>1 DEF Unrolled
<1>4. ASSUME NEW k \in 1 .. n
      PROVE  fold[k] = op(p, fold[k - 1], seq[k])
    <2>1. k \in 1 .. k /\ 1 .. k # {} /\ k \in Nat
        OBVIOUS
    <2>2. 1 .. k \in SUBSET (1 .. n) /\ 1 .. k \in SUBSET (1 .. k)
        OBVIOUS
    <2>3. Max(1 .. k) \in 1 .. k /\ \A j \in 1 .. k : j <= Max(1 .. k)
        BY <2>1, <2>2, MaxOfPositions
    <2>4. Max(1 .. k) = k
        BY <2>1, <2>3
    <2>5. f[1 .. k] = op(p, f[(1 .. k) \ {k}], seq[k])
        BY <1>1, <2>1, <2>2, <2>4 DEF Unrolled
    <2>6. (1 .. k) \ {k} = 1 .. k - 1
        OBVIOUS
    <2>7. fold[k] = f[1 .. k] /\ fold[k - 1] = f[1 .. k - 1]
        OBVIOUS
    <2>8. QED
        BY <2>5, <2>6, <2>7
<1>5. fold[n] = Fold(p, base, seq)
    BY <1>2
<1>6. QED
    <2> HIDE DEF fold
    <2>1. IsFold(fold, p, base, seq, n)
        BY <1>3, <1>4, <1>5 DEF IsFold
    <2>2. QED
        BY <2>1

\* The same, with the equation itself.
THEOREM FoldEquation ==
    ASSUME NEW p, NEW base, NEW seq, NEW n \in Nat, DOMAIN seq = 1 .. n
    PROVE  \E fold : /\ fold[0] = base
                     /\ \A k \in 1 .. n : fold[k] = op(p, fold[k - 1], seq[k])
                     /\ fold[n] = Fold(p, base, seq)
<1>1. PICK fold : IsFold(fold, p, base, seq, n)
    BY FoldExists
<1>2. QED
    BY <1>1 DEF IsFold
=============================================================================
