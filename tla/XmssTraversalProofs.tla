------------------------ MODULE XmssTraversalProofs -------------------------
(***************************************************************************)
(* The traversal of one tree of XMSS, for every height of it.              *)
(***************************************************************************)
EXTENDS XmssTraversal, FiniteSetTheorems, TLAPS

SumOp(p, x, y) == x + y

Sums == INSTANCE SequenceFolds WITH op <- SumOp

-----------------------------------------------------------------------------
(* Leaves and the nodes above them: the bits of an index *)

\* The index of the node of height i above leaf n, and the place of the leaf
\* among the leaves below that node.
Above(n, i) == n \div 2 ^ i
Below(n, i) == n % 2 ^ i

\* The t lowest bits of n are ones.
Ones(n, t) == \A i \in 0 .. t - 1 : Bit(n, i) = 1

\* Powers of two.
LEMMA Powers == \A i \in Nat : 2 ^ 0 = 1 /\ 2 ^ i \in Nat \ {0} /\ 2 ^ (i + 1) = 2 * 2 ^ i
    BY Sums!PowersOfTwo

\* A greater height has more leaves.
LEMMA PowersGrow ==
    ASSUME NEW i \in Nat, NEW j \in Nat, i <= j
    PROVE  2 ^ i <= 2 ^ j /\ (i < j => 2 * 2 ^ i <= 2 ^ j)
<1> DEFINE S == {k \in Nat : 2 ^ i <= 2 ^ (i + k) /\ (0 < k => 2 * 2 ^ i <= 2 ^ (i + k))}
<1>1. 0 \in S
    BY Powers
<1>2. ASSUME NEW k \in Nat, k \in S
      PROVE  k + 1 \in S
    <2>1. 2 ^ i \in Nat /\ 2 ^ (i + k) \in Nat /\ 2 ^ (i + k) >= 2 ^ i
        BY <1>2, Powers
    <2>2. i + (k + 1) = (i + k) + 1 /\ i + k \in Nat
        OBVIOUS
    <2>3. 2 ^ (i + (k + 1)) = 2 * 2 ^ (i + k)
        BY <2>2, Powers
    <2>4. QED
        BY <2>1, <2>3
<1>3. j - i \in S
    <2> HIDE DEF S
    <2>1. j - i \in Nat
        OBVIOUS
    <2>2. QED
        BY <1>1, <1>2, <2>1, Sums!InductionOnNat
<1>4. i + (j - i) = j
    OBVIOUS
<1>5. QED
    BY <1>3, <1>4

\* Dividing by m and then by two.
LEMMA HalveQuotient ==
    ASSUME NEW n \in Nat, NEW m \in Nat \ {0}
    PROVE  /\ n \div m \in Nat /\ n % m \in 0 .. m - 1 /\ n = m * (n \div m) + (n % m)
           /\ (n \div m) \div 2 = n \div (2 * m)
           /\ n % (2 * m) = (n % m) + m * ((n \div m) % 2)
<1> DEFINE q == n \div m
           r == n % m
           h == q \div 2
           b == q % 2
<1>1. q \in Nat /\ r \in 0 .. m - 1 /\ n = m * q + r
    OBVIOUS
<1>2. h \in Nat /\ b \in 0 .. 1 /\ q = 2 * h + b
    BY <1>1
<1> HIDE DEF q, r, h, b
<1>3. m * q = (2 * m) * h + m * b
    BY <1>1, <1>2
<1>4. m * b + r \in 0 .. 2 * m - 1
    BY <1>1, <1>2
<1>5. n = (2 * m) * h + (m * b + r)
    <2> DEFINE x == (2 * m) * h
               y == m * b
    <2>1. x \in Int /\ y \in Int /\ n = (x + y) + r
        BY <1>1, <1>2, <1>3
    <2> HIDE DEF x, y
    <2>2. n = x + (y + r)
        BY <1>1, <2>1
    <2>3. QED
        BY <2>2 DEF x, y
<1>6. n \div (2 * m) = h /\ n % (2 * m) = m * b + r
    BY <1>2, <1>4, <1>5
<1>7. QED
    BY <1>1, <1>2, <1>6 DEF q, r, h, b

\* One height up.
LEMMA OneUp ==
    ASSUME NEW n \in Nat, NEW i \in Nat
    PROVE  /\ Above(n, i) \in Nat /\ Below(n, i) \in 0 .. 2 ^ i - 1
           /\ n = 2 ^ i * Above(n, i) + Below(n, i)
           /\ Bit(n, i) \in 0 .. 1
           /\ Above(n, i) = 2 * Above(n, i + 1) + Bit(n, i)
           /\ Below(n, i + 1) = Below(n, i) + 2 ^ i * Bit(n, i)
           /\ Above(n, 0) = n /\ Below(n, 0) = 0
<1> DEFINE m == 2 ^ i
<1>1. m \in Nat \ {0} /\ 2 ^ (i + 1) = 2 * m /\ 2 ^ 0 = 1
    BY Powers
<1> HIDE DEF m
<1>2. /\ n \div m \in Nat /\ n % m \in 0 .. m - 1 /\ n = m * (n \div m) + (n % m)
      /\ (n \div m) \div 2 = n \div (2 * m)
      /\ n % (2 * m) = (n % m) + m * ((n \div m) % 2)
    BY <1>1, HalveQuotient
<1>3. (n \div m) % 2 \in 0 .. 1 /\ n \div m = 2 * ((n \div m) \div 2) + ((n \div m) % 2)
    BY <1>2
<1>4. n \div 1 = n /\ n % 1 = 0
    OBVIOUS
<1>5. /\ Above(n, i) = n \div m /\ Below(n, i) = n % m /\ Bit(n, i) = (n \div m) % 2
      /\ Above(n, i + 1) = n \div (2 * m) /\ Below(n, i + 1) = n % (2 * m)
      /\ Above(n, 0) = n \div 1 /\ Below(n, 0) = n % 1
    BY <1>1 DEF Above, Below, Bit, m
<1>6. 2 ^ i = m
    BY DEF m
<1>7. QED
    BY <1>2, <1>3, <1>4, <1>5, <1>6

\* Of all this, what most proofs need.
LEMMA AboveType ==
    ASSUME NEW n \in Nat, NEW i \in Nat
    PROVE  Above(n, i) \in Nat /\ Bit(n, i) \in 0 .. 1
    BY OneUp

\* Ones are what the greatest remainder is made of.
LEMMA OnesBelow ==
    ASSUME NEW n \in Nat, NEW t \in Nat
    PROVE  Ones(n, t) <=> Below(n, t) = 2 ^ t - 1
<1> DEFINE S == {k \in Nat : Ones(n, k) <=> Below(n, k) = 2 ^ k - 1}
<1>1. 0 \in S
    <2>1. Below(n, 0) = 0 /\ 2 ^ 0 = 1
        BY OneUp, Powers
    <2>2. QED
        BY <2>1 DEF Ones
<1>2. ASSUME NEW k \in Nat, k \in S
      PROVE  k + 1 \in S
    <2> DEFINE m == 2 ^ k
               r == Below(n, k)
               b == Bit(n, k)
    <2>1. m \in Nat \ {0} /\ 2 ^ (k + 1) = 2 * m
        BY Powers
    <2>2. r \in 0 .. m - 1 /\ b \in 0 .. 1 /\ Below(n, k + 1) = r + m * b
        BY OneUp
    <2>3. Ones(n, k + 1) <=> Ones(n, k) /\ b = 1
        BY DEF Ones
    <2>4. Ones(n, k) <=> r = m - 1
        BY <1>2
    <2> HIDE DEF m, r, b
    <2>5. r + m * b = 2 * m - 1 <=> r = m - 1 /\ b = 1
        <3>1. CASE b = 0
            BY <2>1, <2>2, <3>1
        <3>2. CASE b = 1
            BY <2>1, <2>2, <3>2
        <3>3. QED
            BY <2>2, <3>1, <3>2
    <2>6. Ones(n, k + 1) <=> Below(n, k + 1) = 2 ^ (k + 1) - 1
        BY <2>1, <2>2, <2>3, <2>4, <2>5
    <2>7. QED
        BY <2>6
<1>3. t \in S
    <2> HIDE DEF S
    <2>1. QED
        BY <1>1, <1>2, Sums!InductionOnNat
<1>4. QED
    BY <1>3

\* The next leaf is below another node where the one before it was the last.
LEMMA NextLeaf ==
    ASSUME NEW n \in Nat, NEW i \in Nat
    PROVE  /\ Ones(n, i) => Above(n + 1, i) = Above(n, i) + 1 /\ Below(n + 1, i) = 0
           /\ ~Ones(n, i) => Above(n + 1, i) = Above(n, i) /\ Below(n + 1, i) = Below(n, i) + 1
<1> DEFINE m == 2 ^ i
           q == Above(n, i)
           r == Below(n, i)
<1>1. m \in Nat \ {0}
    BY Powers
<1>2. q \in Nat /\ r \in 0 .. m - 1 /\ n = m * q + r
    BY OneUp
<1>3. Ones(n, i) <=> r = m - 1
    BY OnesBelow
<1>4. Above(n + 1, i) = (n + 1) \div m /\ Below(n + 1, i) = (n + 1) % m
    BY DEF Above, Below
<1> HIDE DEF m, q, r
<1>5. r = m - 1 => (n + 1) \div m = q + 1 /\ (n + 1) % m = 0
    <2>1. ASSUME r = m - 1
          PROVE  n + 1 = m * (q + 1) + 0
        BY <1>1, <1>2, <2>1
    <2>2. QED
        BY <1>1, <1>2, <2>1
<1>6. r # m - 1 => (n + 1) \div m = q /\ (n + 1) % m = r + 1
    <2>1. ASSUME r # m - 1
          PROVE  n + 1 = m * q + (r + 1) /\ r + 1 \in 0 .. m - 1
        BY <1>1, <1>2, <2>1
    <2>2. QED
        BY <1>1, <1>2, <2>1
<1>7. QED
    BY <1>3, <1>4, <1>5, <1>6 DEF q, r

\* What the next leaf changes in the bits: the ones at the end become zeros,
\* the first zero a one.
LEMMA NextBits ==
    ASSUME NEW n \in Nat, NEW t \in Nat, Ones(n, t), Bit(n, t) = 0
    PROVE  /\ \A l \in 0 .. t - 1 : Bit(n + 1, l) = 0
           /\ Bit(n + 1, t) = 1
           /\ \A l \in Nat : l > t => Bit(n + 1, l) = Bit(n, l) /\ Above(n + 1, l) = Above(n, l)
           /\ \A l \in 0 .. t : Above(n + 1, l) = Above(n, l) + 1
<1>1. ASSUME NEW l \in 0 .. t
      PROVE  Above(n + 1, l) = Above(n, l) + 1
    <2>1. Ones(n, l)
        BY DEF Ones
    <2>2. QED
        BY <2>1, NextLeaf
<1>2. ASSUME NEW l \in Nat, l > t
      PROVE  Above(n + 1, l) = Above(n, l)
    <2>1. ~Ones(n, l)
        BY <1>2 DEF Ones
    <2>2. QED
        BY <2>1, NextLeaf
<1>3. \A l \in Nat : Above(n, l) \in Nat /\ Bit(n, l) = Above(n, l) % 2 /\ Bit(n + 1, l) = Above(n + 1, l) % 2
    BY OneUp DEF Above, Bit
<1>4. ASSUME NEW l \in 0 .. t - 1
      PROVE  Bit(n + 1, l) = 0
    <2>1. Above(n, l) % 2 = 1 /\ Above(n, l) \in Nat
        BY <1>3 DEF Ones
    <2>2. (Above(n, l) + 1) % 2 = 0
        BY <2>1
    <2>3. QED
        BY <1>1, <1>3, <2>2
<1>5. Bit(n + 1, t) = 1
    <2>1. Above(n, t) % 2 = 0 /\ Above(n, t) \in Nat
        BY <1>3
    <2>2. (Above(n, t) + 1) % 2 = 1
        BY <2>1
    <2>3. QED
        BY <1>1, <1>3, <2>2
<1>6. QED
    BY <1>1, <1>2, <1>3, <1>4, <1>5

\* A multiple of 2 ^ i is one whose i lowest bits are zeros.
LEMMA ZerosBelow ==
    ASSUME NEW n \in Nat, NEW t \in Nat
    PROVE  Below(n, t) = 0 <=> \A i \in 0 .. t - 1 : Bit(n, i) = 0
<1> DEFINE S == {k \in Nat : Below(n, k) = 0 <=> \A i \in 0 .. k - 1 : Bit(n, i) = 0}
<1>1. 0 \in S
    BY OneUp
<1>2. ASSUME NEW k \in Nat, k \in S
      PROVE  k + 1 \in S
    <2> DEFINE m == 2 ^ k
               r == Below(n, k)
               b == Bit(n, k)
    <2>1. m \in Nat \ {0}
        BY Powers
    <2>2. r \in 0 .. m - 1 /\ b \in 0 .. 1 /\ Below(n, k + 1) = r + m * b
        BY OneUp
    <2>3. (\A i \in 0 .. (k + 1) - 1 : Bit(n, i) = 0) <=> (\A i \in 0 .. k - 1 : Bit(n, i) = 0) /\ b = 0
        OBVIOUS
    <2>4. (\A i \in 0 .. k - 1 : Bit(n, i) = 0) <=> r = 0
        BY <1>2
    <2> HIDE DEF m, r, b
    <2>5. r + m * b = 0 <=> r = 0 /\ b = 0
        <3>1. CASE b = 0
            BY <2>1, <2>2, <3>1
        <3>2. CASE b = 1
            BY <2>1, <2>2, <3>2
        <3>3. QED
            BY <2>2, <3>1, <3>2
    <2>6. QED
        BY <2>2, <2>3, <2>4, <2>5
<1>3. t \in S
    <2> HIDE DEF S
    <2>1. QED
        BY <1>1, <1>2, Sums!InductionOnNat
<1>4. QED
    BY <1>3

\* Every index has a first zero.
LEMMA FirstZero ==
    ASSUME NEW n \in Nat, NEW h \in Nat
    PROVE  Ones(n, h) \/ \E t \in 0 .. h - 1 : Ones(n, t) /\ Bit(n, t) = 0
<1> DEFINE S == {k \in Nat : Ones(n, k) \/ \E t \in 0 .. k - 1 : Ones(n, t) /\ Bit(n, t) = 0}
<1>1. 0 \in S
    BY DEF Ones
<1>2. ASSUME NEW k \in Nat, k \in S
      PROVE  k + 1 \in S
    <2>1. CASE Ones(n, k)
        <3>1. Bit(n, k) \in 0 .. 1
            BY OneUp
        <3>2. Bit(n, k) = 1 => Ones(n, k + 1)
            BY <2>1 DEF Ones
        <3>3. QED
            BY <2>1, <3>1, <3>2
    <2>2. CASE ~Ones(n, k)
        BY <1>2, <2>2
    <2>3. QED
        BY <2>1, <2>2
<1>3. h \in S
    <2> HIDE DEF S
    <2>1. QED
        BY <1>1, <1>2, Sums!InductionOnNat
<1>4. QED
    BY <1>3

\* The product of two powers.
LEMMA PowersMultiply ==
    ASSUME NEW i \in Nat, NEW j \in Nat
    PROVE  2 ^ (i + j) = 2 ^ i * 2 ^ j
<1> DEFINE S == {k \in Nat : 2 ^ (i + k) = 2 ^ i * 2 ^ k}
<1>1. 0 \in S
    BY Powers
<1>2. ASSUME NEW k \in Nat, k \in S
      PROVE  k + 1 \in S
    <2> DEFINE a == 2 ^ i
               b == 2 ^ k
    <2>1. a \in Nat /\ b \in Nat /\ 2 ^ (k + 1) = 2 * b
        BY Powers
    <2>2. i + (k + 1) = (i + k) + 1 /\ i + k \in Nat
        OBVIOUS
    <2>3. 2 ^ (i + (k + 1)) = 2 * 2 ^ (i + k)
        BY <2>2, Powers
    <2>4. 2 ^ (i + k) = a * b
        BY <1>2
    <2> HIDE DEF a, b
    <2>5. 2 * (a * b) = a * (2 * b)
        BY <2>1
    <2>6. 2 ^ (i + (k + 1)) = a * 2 ^ (k + 1)
        BY <2>1, <2>3, <2>4, <2>5
    <2>7. QED
        BY <2>6 DEF a
<1>3. j \in S
    <2> HIDE DEF S
    <2>1. QED
        BY <1>1, <1>2, Sums!InductionOnNat
<1>4. QED
    BY <1>3

\* The leaves below height h have their nodes of height i among 2 ^ (h - i).
LEMMA AboveInTree ==
    ASSUME NEW n \in Nat, NEW h \in Nat, NEW i \in 0 .. h
    PROVE  n < 2 ^ h <=> Above(n, i) < 2 ^ (h - i)
<1> DEFINE m == 2 ^ i
           k == 2 ^ (h - i)
           q == Above(n, i)
           r == Below(n, i)
<1>1. h - i \in Nat /\ i + (h - i) = h
    OBVIOUS
<1>2. m \in Nat \ {0} /\ k \in Nat \ {0} /\ 2 ^ h = m * k
    BY <1>1, Powers, PowersMultiply
<1>3. q \in Nat /\ r \in 0 .. m - 1 /\ n = m * q + r
    BY OneUp
<1> HIDE DEF m, k, q, r
<1>4. q < k => m * q + r < m * k
    <2>1. ASSUME q < k
          PROVE  m * (q + 1) <= m * k
        BY <1>2, <1>3, <2>1
    <2>2. m * (q + 1) = m * q + m /\ m * q \in Nat /\ m * k \in Nat
        BY <1>2, <1>3
    <2>3. QED
        BY <1>2, <1>3, <2>1, <2>2
<1>5. q >= k => m * q >= m * k /\ m * q \in Nat /\ m * k \in Nat
    BY <1>2, <1>3
<1>6. QED
    BY <1>2, <1>3, <1>4, <1>5 DEF k, q

-----------------------------------------------------------------------------
(* Sums *)

AddUp(f) == Sums!Fold(0, 0, f)

\* The partial sums of f.
LEMMA PartialSums ==
    ASSUME NEW n \in Nat, NEW f \in [1 .. n -> Int]
    PROVE  \E s : /\ s[0] = 0 /\ s[n] = AddUp(f)
                  /\ \A k \in 1 .. n : s[k] = s[k - 1] + f[k]
                  /\ \A k \in 0 .. n : s[k] \in Int
<1>1. DOMAIN f = 1 .. n
    OBVIOUS
<1>2. PICK s : s[0] = 0 /\ s[n] = AddUp(f) /\ \A k \in 1 .. n : s[k] = s[k - 1] + f[k]
    <2>1. Sums!Fold(0, 0, f) = AddUp(f)
        BY DEF AddUp
    <2>2. PICK s : /\ s[0] = 0
                   /\ \A k \in 1 .. n : s[k] = SumOp(0, s[k - 1], f[k])
                   /\ s[n] = AddUp(f)
        <3>1. n \in Nat /\ DOMAIN f = 1 .. n /\ Sums!Fold(0, 0, f) = AddUp(f)
            BY <1>1, <2>1
        <3>2. PICK fold : Sums!IsFold(fold, 0, 0, f, n)
            BY ONLY <3>1, Sums!FoldExists
        <3>3. QED
            BY <3>1, <3>2 DEF Sums!IsFold
    <2>3. \A k \in 1 .. n : s[k] = s[k - 1] + f[k]
        BY <2>2 DEF SumOp
    <2>4. QED
        BY <2>2, <2>3
<1> DEFINE S == {k \in Nat : k <= n => s[k] \in Int}
<1>3. 0 \in S
    BY <1>2
<1>4. ASSUME NEW k \in Nat, k \in S
      PROVE  k + 1 \in S
    <2>1. ASSUME k + 1 <= n
          PROVE  s[k + 1] \in Int
        <3>1. k + 1 \in 1 .. n /\ (k + 1) - 1 = k
            BY <2>1
        <3>2. s[k + 1] = s[k] + f[k + 1] /\ f[k + 1] \in Int
            BY <1>2, <3>1
        <3>3. s[k] \in Int
            BY <1>4, <2>1
        <3>4. QED
            BY <3>2, <3>3
    <2>2. QED
        BY <2>1
<1>5. \A k \in Nat : k \in S
    <2> HIDE DEF S
    <2>1. QED
        BY <1>3, <1>4, Sums!InductionOnNat
<1>6. \A k \in 0 .. n : s[k] \in Int
    BY <1>5
<1>7. QED
    BY <1>2, <1>6

\* Each element of g exceeds the one of f by no more than c grows.
Bounded(n, f, g, c) == \A k \in 1 .. n : g[k] - f[k] <= c[k] - c[k - 1]

\* Two sums differ by no more than what bounds the differences of their
\* elements adds up to.
LEMMA SumDifference ==
    ASSUME NEW n \in Nat, NEW f \in [1 .. n -> Int], NEW g \in [1 .. n -> Int],
           NEW c \in [0 .. n -> Int], Bounded(n, f, g, c)
    PROVE  AddUp(f) \in Int /\ AddUp(g) \in Int /\ AddUp(g) - AddUp(f) <= c[n] - c[0]
<1>1. PICK s : /\ s[0] = 0 /\ s[n] = AddUp(f)
               /\ \A k \in 1 .. n : s[k] = s[k - 1] + f[k]
               /\ \A k \in 0 .. n : s[k] \in Int
    BY PartialSums
<1>2. PICK t : /\ t[0] = 0 /\ t[n] = AddUp(g)
               /\ \A k \in 1 .. n : t[k] = t[k - 1] + g[k]
               /\ \A k \in 0 .. n : t[k] \in Int
    BY PartialSums
<1> DEFINE S == {k \in Nat : k <= n => t[k] - s[k] <= c[k] - c[0]}
<1>3. 0 \in S
    BY <1>1, <1>2
<1>4. ASSUME NEW k \in Nat, k \in S
      PROVE  k + 1 \in S
    <2>1. ASSUME k + 1 <= n
          PROVE  t[k + 1] - s[k + 1] <= c[k + 1] - c[0]
        <3>1. k + 1 \in 1 .. n /\ (k + 1) - 1 = k /\ k \in 0 .. n /\ 0 \in 0 .. n /\ k + 1 \in 0 .. n
            BY <2>1
        <3>2. s[k + 1] = s[k] + f[k + 1] /\ t[k + 1] = t[k] + g[k + 1]
            BY <1>1, <1>2, <3>1
        <3>3. f[k + 1] \in Int /\ g[k + 1] \in Int /\ s[k] \in Int /\ t[k] \in Int
            BY <1>1, <1>2, <3>1
        <3>4. c[k] \in Int /\ c[k + 1] \in Int /\ c[0] \in Int
            BY <3>1
        <3>5. g[k + 1] - f[k + 1] <= c[k + 1] - c[k]
            BY <3>1 DEF Bounded
        <3>6. t[k] - s[k] <= c[k] - c[0]
            <4>1. k <= n => t[k] - s[k] <= c[k] - c[0]
                BY <1>4
            <4>2. k <= n
                BY <2>1
            <4>3. QED
                BY <4>1, <4>2
        <3>7. t[k + 1] - s[k + 1] = (t[k] - s[k]) + (g[k + 1] - f[k + 1])
            <4> DEFINE tk == t[k]
                       sk == s[k]
                       fk == f[k + 1]
                       gk == g[k + 1]
            <4>1. tk \in Int /\ sk \in Int /\ fk \in Int /\ gk \in Int
                BY <3>3
            <4>2. t[k + 1] - s[k + 1] = (tk + gk) - (sk + fk)
                BY <3>2
            <4> HIDE DEF tk, sk, fk, gk
            <4>3. (tk + gk) - (sk + fk) = (tk - sk) + (gk - fk)
                BY ONLY <4>1
            <4>4. t[k + 1] - s[k + 1] = (tk - sk) + (gk - fk)
                BY ONLY <4>2, <4>3, Zenon
            <4>5. QED
                BY <4>4 DEF tk, sk, fk, gk
        <3> HIDE DEF S
        <3> DEFINE x == t[k] - s[k]
                   y == g[k + 1] - f[k + 1]
                   v == c[k] - c[0]
                   w == c[k + 1] - c[k]
        <3>8. x \in Int /\ y \in Int /\ v \in Int /\ w \in Int
            <4>1. \A i, j \in Int : i - j \in Int
                OBVIOUS
            <4>2. QED
                BY <3>3, <3>4, <4>1, Zenon
        <3>9. v + w = c[k + 1] - c[0]
            <4>1. \A i, j, m \in Int : (i - j) + (m - i) = m - j
                OBVIOUS
            <4>2. QED
                BY ONLY <3>4, <4>1, Zenon
        <3>10. x <= v /\ y <= w /\ t[k + 1] - s[k + 1] = x + y
            BY <3>5, <3>6, <3>7
        <3> HIDE DEF x, y, v, w
        <3>11. x + y <= v + w
            BY <3>8, <3>10
        <3>12. QED
            BY <3>9, <3>10, <3>11
    <2>2. QED
        BY <2>1
<1>5. n \in S
    <2> HIDE DEF S
    <2>1. QED
        BY <1>3, <1>4, Sums!InductionOnNat
<1>6. QED
    BY <1>1, <1>2, <1>5

\* A sum of zeros is zero.
LEMMA SumOfZeros ==
    ASSUME NEW n \in Nat
    PROVE  AddUp([k \in 1 .. n |-> 0]) = 0
<1> DEFINE f == [k \in 1 .. n |-> 0]
           c == [k \in 0 .. n |-> 0]
<1>1. f \in [1 .. n -> Int] /\ c \in [0 .. n -> Int]
    OBVIOUS
<1>2. PICK s : /\ s[0] = 0 /\ s[n] = AddUp(f)
               /\ \A k \in 1 .. n : s[k] = s[k - 1] + f[k]
               /\ \A k \in 0 .. n : s[k] \in Int
    <2> HIDE DEF f
    <2>1. QED
        BY <1>1, PartialSums
<1> DEFINE S == {k \in Nat : k <= n => s[k] = 0}
<1>3. 0 \in S
    BY <1>2
<1>4. ASSUME NEW k \in Nat, k \in S
      PROVE  k + 1 \in S
    <2>1. ASSUME k + 1 <= n
          PROVE  s[k + 1] = 0
        <3>1. k + 1 \in 1 .. n /\ (k + 1) - 1 = k
            BY <2>1
        <3>2. s[k + 1] = s[k] + f[k + 1] /\ f[k + 1] = 0
            BY <1>2, <3>1
        <3>3. QED
            BY <1>4, <2>1, <3>2
    <2>2. QED
        BY <2>1
<1>5. n \in S
    <2> HIDE DEF S
    <2>1. QED
        BY <1>3, <1>4, Sums!InductionOnNat
<1>6. QED
    BY <1>2, <1>5

-----------------------------------------------------------------------------
(* Nodes and stacks *)

Addresses == [layer : Nat, tree : Nat]

\* The nodes of the tree at an address.
NodeAt(a, h, i) == Node(a.layer, a.tree, h, i)

NodeSet == (Nat \X Nat \X Nat \X Nat) \cup {NoNode}
SlotSet == [node : NodeSet, level : Nat]

\* A place in a tree is a node.
LEMMA NodeAtType ==
    ASSUME NEW a \in Addresses, NEW h \in Nat, NEW i \in Nat
    PROVE  /\ NodeAt(a, h, i) \in NodeSet
           /\ \A l \in Nat : Slot(NodeAt(a, h, i), l) \in SlotSet
<1>1. a.layer \in Nat /\ a.tree \in Nat
    BY DEF Addresses
<1>2. NodeAt(a, h, i) \in NodeSet
    BY <1>1 DEF NodeAt, Node, NodeSet
<1>3. QED
    BY <1>2 DEF Slot, SlotSet

\* Hashing the node above a leaf with its sibling gives the node above both,
\* whichever of the two is on the left.
LEMMA ParentOfSiblings ==
    ASSUME NEW a, NEW n \in Nat, NEW h \in Nat
    PROVE  /\ Bit(n, h) = 1 => thash_h(NodeAt(a, h, Above(n, h) - 1), NodeAt(a, h, Above(n, h)), a, h,
                                       n \div 2 ^ (h + 1)) = NodeAt(a, h + 1, Above(n, h + 1))
           /\ Bit(n, h) = 0 => thash_h(NodeAt(a, h, Above(n, h)), NodeAt(a, h, Above(n, h) + 1), a, h,
                                       n \div 2 ^ (h + 1)) = NodeAt(a, h + 1, Above(n, h + 1))
<1>1. n \div 2 ^ (h + 1) = Above(n, h + 1)
    BY DEF Above
<1>2. Above(n, h) = 2 * Above(n, h + 1) + Bit(n, h) /\ Above(n, h + 1) \in Nat
    BY OneUp
<1>3. Bit(n, h) = 1 => Above(n, h) - 1 = 2 * Above(n, h + 1)
    BY <1>2
<1>4. Bit(n, h) = 0 => Above(n, h) = 2 * Above(n, h + 1)
    BY <1>2
<1>5. QED
    BY <1>1, <1>2, <1>3, <1>4 DEF thash_h, NodeAt, Node

\* A stack whose levels fall, with the nodes of a tree up to leaf n, or up to
\* leaf n in a subtree of height k: one for each bit of n that is set. Above
\* them there is nothing; below them may be nodes of level k and more.
Falling(st) == \A p, q \in 1 .. Len(st) : p < q => st[p].level > st[q].level
Holds(st, n, k, a) ==
    \A l \in 0 .. k - 1 : Bit(n, l) = 1 =>
        \E p \in 1 .. Len(st) : st[p] = Slot(NodeAt(a, l, Above(n, l) - 1), l)
HoldsOnly(st, n, k) == \A p \in 1 .. Len(st) : st[p].level < k => Bit(n, st[p].level) = 1
Carries(st, n, k, a) ==
    st \in Seq(SlotSet) /\ Falling(st) /\ Holds(st, n, k, a) /\ HoldsOnly(st, n, k)

\* The nodes for the ones at the end of n are on top, the lowest one first.
LEMMA TopOfStack ==
    ASSUME NEW st, NEW n \in Nat, NEW k \in Nat, NEW a, Carries(st, n, k, a),
           NEW t \in 0 .. k, Ones(n, t)
    PROVE  /\ Len(st) \in Nat /\ t <= Len(st)
           /\ \A m \in 0 .. t - 1 : st[Len(st) - m] = Slot(NodeAt(a, m, Above(n, m) - 1), m)
           /\ \A p \in 1 .. Len(st) - t : st[p].level \in Nat /\ st[p].level >= t
           /\ t < k /\ Bit(n, t) = 0 => \A p \in 1 .. Len(st) - t : st[p].level > t
<1> DEFINE Top(m) == st[Len(st) - m] = Slot(NodeAt(a, m, Above(n, m) - 1), m)
           Rest(m) == m <= Len(st) /\ \A p \in 1 .. Len(st) - m : st[p].level >= m
           S == {j \in Nat : j <= t => Rest(j) /\ \A m \in 0 .. j - 1 : Top(m)}
<1>1. Len(st) \in Nat /\ \A p \in 1 .. Len(st) : st[p] \in SlotSet /\ st[p].level \in Nat
    <2>1. st \in Seq(SlotSet)
        BY DEF Carries
    <2>2. \A slot \in SlotSet : slot.level \in Nat
        BY DEF SlotSet
    <2>3. QED
        BY <2>1, <2>2
<1>2. 0 \in S
    BY <1>1
<1>3. ASSUME NEW j \in Nat, j \in S
      PROVE  j + 1 \in S
    <2>1. ASSUME j + 1 <= t
          PROVE  Rest(j + 1) /\ \A m \in 0 .. j : Top(m)
        <3>1. Rest(j) /\ \A m \in 0 .. j - 1 : Top(m)
            BY <1>3, <2>1
        <3>2. j \in 0 .. k - 1 /\ Bit(n, j) = 1
            BY <2>1 DEF Ones
        <3>3. PICK p \in 1 .. Len(st) : st[p] = Slot(NodeAt(a, j, Above(n, j) - 1), j)
            BY <3>2 DEF Carries, Holds
        <3>4. st[p].level = j
            BY <3>3 DEF Slot
        <3>5. Len(st) - j <= p
            <4>1. ASSUME p < Len(st) - j
                  PROVE  FALSE
                <5>1. p + 1 \in 1 .. Len(st) - j /\ p + 1 \in 1 .. Len(st) /\ p < p + 1
                    BY <1>1, <4>1
                <5>2. st[p].level > st[p + 1].level
                    BY <5>1 DEF Carries, Falling
                <5>3. st[p + 1].level >= j /\ st[p + 1].level \in Nat
                    BY <1>1, <3>1, <5>1
                <5>4. QED
                    BY <3>4, <5>2, <5>3
            <4>2. QED
                BY <1>1, <4>1
        <3>6. p <= Len(st) - j
            <4>1. ASSUME p > Len(st) - j
                  PROVE  FALSE
                <5>1. Len(st) - p \in 0 .. j - 1 /\ Len(st) - (Len(st) - p) = p
                    BY <1>1, <4>1
                <5>2. Top(Len(st) - p)
                    BY <3>1, <5>1
                <5>3. st[p].level = Len(st) - p
                    BY <5>1, <5>2 DEF Slot
                <5>4. QED
                    BY <1>1, <3>4, <5>1, <5>3
            <4>2. QED
                BY <1>1, <4>1
        <3>7. p = Len(st) - j
            BY <1>1, <3>5, <3>6
        <3>8. Top(j)
            BY <3>3, <3>7
        <3>9. j + 1 <= Len(st)
            BY <1>1, <3>7
        <3>10. ASSUME NEW q \in 1 .. Len(st) - (j + 1)
               PROVE  st[q].level >= j + 1
            <4>1. q \in 1 .. Len(st) /\ q < p
                BY <1>1, <3>7
            <4>2. st[q].level > st[p].level
                BY <4>1 DEF Carries, Falling
            <4>3. QED
                BY <1>1, <3>4, <4>1, <4>2
        <3>11. QED
            BY <3>1, <3>8, <3>9, <3>10
    <2>2. QED
        BY <2>1
<1>4. t \in S
    <2> HIDE DEF S
    <2>1. QED
        BY <1>2, <1>3, Sums!InductionOnNat
<1>5. Rest(t) /\ \A m \in 0 .. t - 1 : Top(m)
    BY <1>4
<1>6. \A p \in 1 .. Len(st) - t : p \in 1 .. Len(st) /\ st[p].level \in Nat
    BY <1>1
<1>7. ASSUME t < k, Bit(n, t) = 0, NEW p \in 1 .. Len(st) - t
      PROVE  st[p].level > t
    <2>1. st[p].level \in Nat /\ st[p].level >= t /\ p \in 1 .. Len(st)
        BY <1>5, <1>6
    <2>2. st[p].level # t
        BY <1>7, <2>1 DEF Carries, HoldsOnly
    <2>3. QED
        BY <2>1, <2>2
<1>8. QED
    BY <1>1, <1>5, <1>6, <1>7

\* The stack after the nodes for the t ones at the end of n were hashed, with
\* the leaf n itself, to one of height t.
Carried(st, n, t, a) == Append(SubSeq(st, 1, Len(st) - t), Slot(NodeAt(a, t, Above(n, t)), t))

\* That node is the one for the last bit of n + 1 that is set.
LEMMA CarryOver ==
    ASSUME NEW st, NEW n \in Nat, NEW k \in Nat, NEW a \in Addresses, Carries(st, n, k, a),
           NEW t \in 0 .. k - 1, Ones(n, t), Bit(n, t) = 0
    PROVE  /\ Carries(Carried(st, n, t, a), n + 1, k, a)
           /\ Len(Carried(st, n, t, a)) = Len(st) - t + 1
           /\ \A p \in 1 .. Len(st) - t : Carried(st, n, t, a)[p] = st[p]
<1> DEFINE len == Len(st) - t
           slot == Slot(NodeAt(a, t, Above(n, t)), t)
           new == Carried(st, n, t, a)
<1>0. t \in Nat /\ t \in 0 .. k /\ t < k
    OBVIOUS
<1>1. /\ Len(st) \in Nat /\ len \in Nat /\ st \in Seq(SlotSet)
      /\ \A p \in 1 .. len : p \in 1 .. Len(st) /\ st[p].level \in Nat /\ st[p].level > t
    <2>1. /\ Len(st) \in Nat /\ t <= Len(st)
          /\ \A p \in 1 .. Len(st) - t : st[p].level \in Nat /\ st[p].level > t
        BY <1>0, TopOfStack
    <2>2. QED
        BY <1>0, <2>1 DEF Carries
<1>2. slot \in SlotSet /\ slot.level = t
    <2>1. Above(n, t) \in Nat
        BY <1>0, OneUp
    <2>2. slot \in SlotSet
        BY <1>0, <2>1, NodeAtType
    <2>3. QED
        BY <2>2 DEF Slot
<1> HIDE DEF slot
<1>3. SubSeq(st, 1, len) \in Seq(SlotSet) /\ Len(SubSeq(st, 1, len)) = len
      /\ \A p \in 1 .. len : SubSeq(st, 1, len)[p] = st[p]
    <2>1. st \in Seq(SlotSet) /\ len \in 0 .. Len(st)
        BY <1>0, <1>1
    <2> DEFINE low == SubSeq(st, 1, len)
    <2> HIDE DEF len, new
    <2>2. low \in Seq(SlotSet) /\ Len(low) = len
        BY ONLY <2>1
    <2>3. \A p \in 1 .. len : low[p] = st[p]
        BY ONLY <2>1
    <2>4. QED
        BY ONLY <2>2, <2>3
<1>4. /\ new \in Seq(SlotSet) /\ Len(new) = len + 1 /\ new[len + 1] = slot
      /\ \A p \in 1 .. len : new[p] = st[p]
    <2> DEFINE low == SubSeq(st, 1, len)
    <2>1. new = Append(low, slot)
        BY DEF slot, Carried
    <2>2. low \in Seq(SlotSet) /\ Len(low) = len /\ slot \in SlotSet /\ \A p \in 1 .. len : low[p] = st[p]
        BY <1>2, <1>3
    <2>3. len \in Nat
        BY <1>1
    <2> HIDE DEF len, new, low
    <2>4. QED
        BY ONLY <2>1, <2>2, <2>3, SMTT(30)
<1> HIDE DEF len, new
<1>5. Falling(new)
    <2>1. ASSUME NEW p \in 1 .. Len(new), NEW q \in 1 .. Len(new), p < q
          PROVE  new[p].level > new[q].level
        <3>1. p \in 1 .. len
            BY <1>1, <1>4, <2>1
        <3>2. CASE q = len + 1
            BY <1>1, <1>2, <1>4, <3>1, <3>2
        <3>3. CASE q # len + 1
            <4>1. q \in 1 .. len
                BY <1>1, <1>4, <3>3
            <4>2. st[p].level > st[q].level
                BY <1>1, <2>1, <3>1, <4>1 DEF Carries, Falling
            <4>3. QED
                BY <1>4, <3>1, <4>1, <4>2
        <3>4. QED
            BY <3>2, <3>3
    <2>2. QED
        BY <2>1 DEF Falling
<1>6. /\ \A l \in 0 .. t - 1 : Bit(n + 1, l) = 0
      /\ Bit(n + 1, t) = 1
      /\ \A l \in Nat : l > t => Bit(n + 1, l) = Bit(n, l) /\ Above(n + 1, l) = Above(n, l)
      /\ Above(n + 1, t) - 1 = Above(n, t)
    <2>1. Above(n, t) \in Nat /\ t \in 0 .. t
        BY <1>0, AboveType
    <2>2. /\ \A l \in 0 .. t - 1 : Bit(n + 1, l) = 0
          /\ Bit(n + 1, t) = 1
          /\ \A l \in Nat : l > t => Bit(n + 1, l) = Bit(n, l) /\ Above(n + 1, l) = Above(n, l)
          /\ \A l \in 0 .. t : Above(n + 1, l) = Above(n, l) + 1
        BY <1>0, NextBits
    <2>3. QED
        BY <2>1, <2>2
<1>7. ASSUME NEW l \in 0 .. k - 1, Bit(n + 1, l) = 1
      PROVE  \E p \in 1 .. Len(new) : new[p] = Slot(NodeAt(a, l, Above(n + 1, l) - 1), l)
    <2>1. l >= t
        BY <1>6, <1>7
    <2>2. CASE l = t
        <3>1. len + 1 \in 1 .. Len(new)
            BY <1>1, <1>4
        <3>2. QED
            BY <1>4, <1>6, <2>2, <3>1 DEF slot
    <2>3. CASE l # t
        <3>1. l > t /\ Bit(n, l) = 1 /\ Above(n + 1, l) = Above(n, l)
            BY <1>6, <1>7, <2>1, <2>3
        <3>2. PICK p \in 1 .. Len(st) : st[p] = Slot(NodeAt(a, l, Above(n, l) - 1), l)
            BY <3>1 DEF Carries, Holds
        <3>3. p <= len
            <4>1. ASSUME p > len
                  PROVE  FALSE
                <5>1. Len(st) - p \in 0 .. t - 1 /\ Len(st) - (Len(st) - p) = p
                    BY <1>0, <1>1, <4>1 DEF len
                <5>2. st[p] = Slot(NodeAt(a, Len(st) - p, Above(n, Len(st) - p) - 1), Len(st) - p)
                    BY <1>0, <5>1, TopOfStack
                <5>3. st[p].level = Len(st) - p
                    BY <5>2 DEF Slot
                <5>4. st[p].level = l
                    BY <3>2 DEF Slot
                <5>5. QED
                    BY <3>1, <5>1, <5>3, <5>4
            <4>2. QED
                BY <1>1, <4>1
        <3>4. new[p] = st[p] /\ p \in 1 .. Len(new)
            BY <1>1, <1>4, <3>3
        <3>5. QED
            BY <3>1, <3>2, <3>4
    <2>4. QED
        BY <2>2, <2>3
<1>8. ASSUME NEW p \in 1 .. Len(new), new[p].level < k
      PROVE  Bit(n + 1, new[p].level) = 1
    <2>1. CASE p = len + 1
        BY <1>2, <1>4, <1>6, <2>1
    <2>2. CASE p # len + 1
        <3>1. p \in 1 .. len
            BY <1>1, <1>4, <2>2
        <3>2. new[p] = st[p] /\ st[p].level \in Nat /\ st[p].level > t /\ p \in 1 .. Len(st)
            BY <1>1, <1>4, <3>1
        <3>3. Bit(n, st[p].level) = 1
            BY <1>8, <3>2 DEF Carries, HoldsOnly
        <3>4. QED
            BY <1>6, <3>2, <3>3
    <2>3. QED
        BY <2>1, <2>2
<1>9. Carries(new, n + 1, k, a)
    BY <1>4, <1>5, <1>7, <1>8 DEF Carries, Holds, HoldsOnly
<1>10. QED
    BY <1>4, <1>9 DEF new, len

-----------------------------------------------------------------------------
(* Key generation *)

Instances == [next_idx : Nat, stackusage : Nat, completed : BOOLEAN, node : NodeSet]
States ==
    [stack : Seq(SlotSet), peak : Nat, auth : [Levels -> NodeSet],
     keep : [0 .. (tree_height \div 2) - 1 -> NodeSet], treehash : [Levels -> Instances],
     next_leaf : Nat]

MergeOp(p, s, slot) == IF CanMerge(s) THEN Merge(s, p[1], p[2]) ELSE s

Merges == INSTANCE SequenceFolds WITH op <- MergeOp

\* The state after leaf n was pushed and t merges; the right children that are
\* needed first were kept.
Merged(s, n, t, a) ==
    [stack |-> Carried(s.stack, n, t, a),
     peak |-> s.peak,
     auth |-> [i \in Levels |-> IF i < t /\ Above(n, i) = 1 THEN NodeAt(a, i, 1) ELSE s.auth[i]],
     keep |-> s.keep,
     treehash |-> [i \in Levels |->
         IF i < t /\ Above(n, i) = 3 THEN [s.treehash[i] EXCEPT !.node = NodeAt(a, i, 3)]
                                     ELSE s.treehash[i]],
     next_leaf |-> s.next_leaf]

\* States are equal if their fields are.
LEMMA StateFields ==
    ASSUME NEW s \in States
    PROVE  /\ s.stack \in Seq(SlotSet) /\ s.peak \in Nat /\ s.auth \in [Levels -> NodeSet]
           /\ s.keep \in [0 .. (tree_height \div 2) - 1 -> NodeSet]
           /\ s.treehash \in [Levels -> Instances] /\ s.next_leaf \in Nat
           /\ s = [stack |-> s.stack, peak |-> s.peak, auth |-> s.auth, keep |-> s.keep,
                   treehash |-> s.treehash, next_leaf |-> s.next_leaf]
    BY DEF States

\* One turn of the loop.
LEMMA MergeOnce ==
    ASSUME tree_height \in Nat, NEW s \in States, NEW n \in Nat, NEW t \in Levels, NEW a,
           NEW k \in Nat, t < k, Carries(s.stack, n, k, a), Ones(n, t + 1)
    PROVE  /\ CanMerge(Merged(s, n, t, a))
           /\ Merge(Merged(s, n, t, a), n, a) = Merged(s, n, t + 1, a)
<1> DEFINE x == Merged(s, n, t, a)
           st == s.stack
           len == Len(st) - t
           right == NodeAt(a, t, Above(n, t))
           left == NodeAt(a, t, Above(n, t) - 1)
<1>0. t \in Nat /\ t + 1 \in 0 .. k /\ t \in 0 .. (t + 1) - 1 /\ Bit(n, t) = 1
    BY DEF Levels, Ones
<1>1. /\ st \in Seq(SlotSet) /\ Len(st) \in Nat /\ t + 1 <= Len(st)
      /\ st[len] = Slot(left, t)
    <2>1. st \in Seq(SlotSet)
        BY StateFields
    <2> DEFINE t1 == t + 1
    <2>2. /\ n \in Nat /\ k \in Nat /\ Carries(st, n, k, a) /\ t1 \in 0 .. k /\ Ones(n, t1)
          /\ t \in 0 .. t1 - 1
        BY <1>0
    <2>3. Len(st) \in Nat /\ t1 <= Len(st) /\ st[Len(st) - t] = Slot(left, t)
        <3> HIDE DEF st, t1
        <3>1. QED
            <4>1. /\ Len(st) \in Nat /\ t1 <= Len(st)
                  /\ \A m \in 0 .. t1 - 1 : st[Len(st) - m] = Slot(NodeAt(a, m, Above(n, m) - 1), m)
                BY ONLY <2>2, TopOfStack, SMTT(30)
            <4>2. QED
                BY <2>2, <4>1 DEF left
    <2>4. QED
        BY <2>1, <2>3
<1> HIDE DEF left, right
<1>2. /\ Len(x.stack) = len + 1 /\ len >= 1 /\ len \in Nat
      /\ x.stack[len + 1] = Slot(right, t) /\ x.stack[len] = Slot(left, t)
      /\ SubSeq(x.stack, 1, len - 1) = SubSeq(st, 1, len - 1)
    <2>1. x.stack = Append(SubSeq(st, 1, len), Slot(right, t))
        BY DEF Merged, Carried, right
    <2>2. len \in Nat /\ len >= 1 /\ len <= Len(st)
        BY <1>0, <1>1
    <2> HIDE DEF x, len, st
    <2>3. SubSeq(st, 1, len) \in Seq(SlotSet) /\ Len(SubSeq(st, 1, len)) = len
        BY <1>1, <2>2
    <2>4. \A p \in 1 .. len : SubSeq(st, 1, len)[p] = st[p] /\ x.stack[p] = st[p]
        BY <1>1, <2>1, <2>2, <2>3
    <2>5. Len(x.stack) = len + 1 /\ x.stack[len + 1] = Slot(right, t)
        BY <2>1, <2>2, <2>3
    <2>6. SubSeq(x.stack, 1, len - 1) = SubSeq(st, 1, len - 1)
        BY <2>2, <2>4, <2>5
    <2>7. len \in 1 .. len
        BY <2>2
    <2>8. x.stack[len] = Slot(left, t)
        BY <1>1, <2>4, <2>7
    <2>9. QED
        BY <2>2, <2>5, <2>6, <2>8
<1>3. CanMerge(x)
    <2> HIDE DEF x, len, st
    <2>1. (len + 1) - 1 = len /\ len + 1 > 1
        BY <1>2
    <2>2. QED
        BY <1>2, <2>1 DEF CanMerge, Slot
<1>4. /\ thash_h(left, right, a, t, n \div 2 ^ (t + 1)) = NodeAt(a, t + 1, Above(n, t + 1))
      /\ n \div 2 ^ t = Above(n, t)
    BY <1>0, ParentOfSiblings DEF left, right, Above
<1>5. Keep(x, n, t, right) = [Merged(s, n, t + 1, a) EXCEPT !.stack = x.stack]
    <2> DEFINE y == Merged(s, n, t + 1, a)
               e == Keep(x, n, t, right)
    <2>0. t < tree_height /\ (\A i \in Levels : i < t + 1 <=> i < t \/ i = t)
        BY <1>0 DEF Levels
    <2>1. /\ x.auth = [i \in Levels |-> IF i < t /\ Above(n, i) = 1 THEN NodeAt(a, i, 1)
                                                                    ELSE s.auth[i]]
          /\ y.auth = [i \in Levels |-> IF i < t + 1 /\ Above(n, i) = 1 THEN NodeAt(a, i, 1)
                                                                        ELSE s.auth[i]]
        BY DEF Merged
    <2>2. /\ x.treehash = [i \in Levels |-> IF i < t /\ Above(n, i) = 3
                                             THEN [s.treehash[i] EXCEPT !.node = NodeAt(a, i, 3)]
                                             ELSE s.treehash[i]]
          /\ y.treehash = [i \in Levels |-> IF i < t + 1 /\ Above(n, i) = 3
                                             THEN [s.treehash[i] EXCEPT !.node = NodeAt(a, i, 3)]
                                             ELSE s.treehash[i]]
        BY DEF Merged
    <2> DEFINE Shaped(z, w) ==
                 z = [stack |-> w, peak |-> s.peak, auth |-> z.auth, keep |-> s.keep,
                      treehash |-> z.treehash, next_leaf |-> s.next_leaf]
    <2>3. [y EXCEPT !.stack = x.stack]
            = [stack |-> x.stack, peak |-> s.peak, auth |-> y.auth, keep |-> s.keep,
               treehash |-> y.treehash, next_leaf |-> s.next_leaf]
        <3>1. Shaped(y, y.stack)
            BY Zenon DEF Merged
        <3> HIDE DEF x, y
        <3>2. QED
            BY <3>1
    <2>11. x = [stack |-> x.stack, peak |-> s.peak, auth |-> x.auth, keep |-> s.keep,
               treehash |-> x.treehash, next_leaf |-> s.next_leaf]
        <3>1. Shaped(x, x.stack)
            BY Zenon DEF Merged
        <3>2. QED
            BY <3>1
    <2>4. CASE Above(n, t) = 1
        <3>1. e = [x EXCEPT !.auth[t] = right]
            BY <1>4, <2>4 DEF Keep
        <3>2. right = NodeAt(a, t, 1)
            BY <2>4 DEF right
        <3> HIDE DEF x, y, e
        <3>3. [x.auth EXCEPT ![t] = right] = y.auth
            BY <2>0, <2>1, <2>4, <3>2
        <3>4. x.treehash = y.treehash
            BY <2>0, <2>2, <2>4
        <3>5. e = [stack |-> x.stack, peak |-> s.peak, auth |-> [x.auth EXCEPT ![t] = right],
                   keep |-> s.keep, treehash |-> x.treehash, next_leaf |-> s.next_leaf]
            BY <2>11, <3>1
        <3>6. QED
            BY <2>3, <3>3, <3>4, <3>5 DEF e, y
    <2>5. CASE Above(n, t) = 3
        <3>1. e = [x EXCEPT !.treehash[t].node = right]
            BY <1>4, <2>0, <2>5 DEF Keep
        <3>2. right = NodeAt(a, t, 3)
            BY <2>5 DEF right
        <3> HIDE DEF x, y, e
        <3>3. [x.treehash EXCEPT ![t].node = right] = y.treehash
            <4>1. x.treehash[t] = s.treehash[t]
                BY <1>0, <2>2
            <4>2. [x.treehash EXCEPT ![t].node = right]
                    = [i \in Levels |-> IF i = t THEN [s.treehash[t] EXCEPT !.node = right]
                                                 ELSE x.treehash[i]]
                BY <2>2, <4>1
            <4>3. QED
                BY <2>0, <2>2, <2>5, <3>2, <4>2
        <3>4. x.auth = y.auth
            BY <2>0, <2>1, <2>5
        <3>5. e = [stack |-> x.stack, peak |-> s.peak, auth |-> x.auth, keep |-> s.keep,
                   treehash |-> [x.treehash EXCEPT ![t].node = right], next_leaf |-> s.next_leaf]
            BY <2>11, <3>1
        <3>6. QED
            BY <2>3, <3>3, <3>4, <3>5 DEF e, y
    <2>6. CASE Above(n, t) # 1 /\ Above(n, t) # 3
        <3>1. e = x
            BY <1>4, <2>6 DEF Keep
        <3> HIDE DEF x, y, e
        <3>2. x.treehash = y.treehash
            BY <2>0, <2>2, <2>6
        <3>3. x.auth = y.auth
            BY <2>0, <2>1, <2>6
        <3>4. QED
            BY <2>3, <2>11, <3>1, <3>2, <3>3 DEF e, y
    <2>7. QED
        BY <2>4, <2>5, <2>6
<1>6. Merge(x, n, a) = [Keep(x, n, t, right) EXCEPT
                          !.stack = Append(SubSeq(@, 1, len - 1), Slot(NodeAt(a, t + 1, Above(n, t + 1)), t + 1))]
    <2> HIDE DEF x, len, st
    <2>1. (len + 1) - 1 = len /\ (len + 1) - 2 = len - 1
        BY <1>2
    <2>2. /\ x.stack[Len(x.stack)].level = t /\ x.stack[Len(x.stack)].node = right
          /\ x.stack[Len(x.stack) - 1].node = left /\ Len(x.stack) - 2 = len - 1
        BY <1>2, <2>1 DEF Slot
    <2>3. QED
        BY <1>4, <2>2 DEF Merge
<1>7. Append(SubSeq(x.stack, 1, len - 1), Slot(NodeAt(a, t + 1, Above(n, t + 1)), t + 1))
        = Carried(st, n, t + 1, a)
    <2>1. len - 1 = Len(st) - (t + 1)
        BY <1>0, <1>1
    <2>2. QED
        BY <1>2, <2>1 DEF Carried
<1>8. Merge(x, n, a) = [Merged(s, n, t + 1, a) EXCEPT !.stack = Carried(st, n, t + 1, a)]
    <2> DEFINE y == Merged(s, n, t + 1, a)
    <2>1. [y EXCEPT !.stack = x.stack].stack = x.stack
        BY DEF Merged
    <2> HIDE DEF x, len, st, y
    <2>2. [[y EXCEPT !.stack = x.stack] EXCEPT !.stack = Carried(st, n, t + 1, a)]
            = [y EXCEPT !.stack = Carried(st, n, t + 1, a)]
        OBVIOUS
    <2>3. QED
        BY <1>5, <1>6, <1>7, <2>1, <2>2
<1>9. [Merged(s, n, t + 1, a) EXCEPT !.stack = Carried(st, n, t + 1, a)] = Merged(s, n, t + 1, a)
    BY DEF Merged
<1>10. QED
    BY <1>3, <1>8, <1>9

\* The loop stops at the first zero of n.
LEMMA MergesEnd ==
    ASSUME NEW s \in States, NEW n \in Nat, NEW t \in Nat, NEW a,
           NEW k \in Nat, t < k, Carries(s.stack, n, k, a), Ones(n, t), Bit(n, t) = 0
    PROVE  ~CanMerge(Merged(s, n, t, a))
<1> DEFINE x == Merged(s, n, t, a)
           st == s.stack
           len == Len(st) - t
<1>0. t \in 0 .. k
    OBVIOUS
<1>1. st \in Seq(SlotSet)
    BY StateFields
<1>2. /\ Len(st) \in Nat /\ t <= Len(st)
      /\ \A p \in 1 .. len : st[p].level \in Nat /\ st[p].level > t
    BY <1>0, TopOfStack
<1>3. x.stack = Append(SubSeq(st, 1, len), Slot(NodeAt(a, t, Above(n, t)), t))
    BY DEF Merged, Carried
<1> HIDE DEF x, st
<1>4. len \in Nat /\ len <= Len(st)
    BY <1>2
<1> HIDE DEF len
<1>5. SubSeq(st, 1, len) \in Seq(SlotSet) /\ Len(SubSeq(st, 1, len)) = len
    BY <1>1, <1>2, <1>4
<1>6. /\ Len(x.stack) = len + 1 /\ x.stack[len + 1].level = t
      /\ \A p \in 1 .. len : x.stack[p] = st[p]
    BY <1>1, <1>2, <1>3, <1>4, <1>5 DEF Slot
<1>7. ASSUME len + 1 > 1
      PROVE  x.stack[len].level > t /\ x.stack[len].level \in Nat
    <2>1. len \in 1 .. len
        BY <1>4, <1>7
    <2>2. QED
        BY <1>2, <1>6, <2>1
<1>8. (len + 1) - 1 = len
    BY <1>4
<1>9. ASSUME CanMerge(x)
      PROVE  FALSE
    <2>1. len + 1 > 1 /\ x.stack[len + 1].level = x.stack[(len + 1) - 1].level
        BY <1>6, <1>9 DEF CanMerge
    <2>2. QED
        BY <1>6, <1>7, <1>8, <2>1
<1>10. QED
    BY <1>9 DEF x

\* What AddLeaf does.
LEMMA LeafAdded ==
    ASSUME tree_height \in Nat, NEW s \in States, NEW n \in Nat, NEW t \in 0 .. tree_height, NEW a,
           NEW k \in Nat, t < k, Carries(s.stack, n, k, a), Ones(n, t), Bit(n, t) = 0
    PROVE  /\ Larger(s.peak, Len(s.stack) + 1) \in Nat
           /\ AddLeaf(s, n, a) = Merged([s EXCEPT !.peak = Larger(s.peak, Len(s.stack) + 1)], n, t, a)
<1> DEFINE st == s.stack
           peak == Larger(s.peak, Len(st) + 1)
           s1 == [s EXCEPT !.peak = peak]
           p == Push(s, Leaf(a.layer, a.tree, n), 0)
           x(m) == Merged(s1, n, IF m < t THEN m ELSE t, a)
<1>0. t \in Nat /\ t \in 0 .. k /\ t <= tree_height
    OBVIOUS
<1>1. st \in Seq(SlotSet) /\ Len(st) \in Nat /\ t <= Len(st)
    BY <1>0, StateFields, TopOfStack
<1>2. peak \in Nat
    BY <1>1, StateFields DEF Larger
<1> HIDE DEF peak
<1>3. s1 \in States /\ s1.stack = st
    BY <1>2 DEF States
<1>4. p = x(0)
    <2>1. p = [s EXCEPT !.stack = Append(st, Slot(Leaf(a.layer, a.tree, n), 0)), !.peak = peak]
        BY DEF Push, peak
    <2>2. Append(st, Slot(Leaf(a.layer, a.tree, n), 0)) = Carried(st, n, 0, a)
        <3>1. Above(n, 0) = n
            BY OneUp
        <3>2. Len(st) - 0 = Len(st)
            BY <1>1
        <3>3. SubSeq(st, 1, Len(st)) = st
            <4> HIDE DEF st
            <4>1. QED
                BY <1>1
        <3>4. QED
            BY <3>1, <3>2, <3>3 DEF Carried, NodeAt, Leaf
    <2>3. x(0) = Merged(s1, n, 0, a)
        BY <1>0
    <2>4. Merged(s1, n, 0, a).auth = s.auth /\ Merged(s1, n, 0, a).treehash = s.treehash
        <3>1. s1.auth = s.auth /\ s1.treehash = s.treehash
            BY DEF States
        <3>2. \A i \in Levels : ~(i < 0)
            BY DEF Levels
        <3>3. s.auth = [i \in Levels |-> s.auth[i]] /\ s.treehash = [i \in Levels |-> s.treehash[i]]
            BY StateFields
        <3> HIDE DEF s1
        <3>4. QED
            BY <3>1, <3>2, <3>3 DEF Merged
    <2>5. /\ Merged(s1, n, 0, a).stack = Carried(st, n, 0, a) /\ Merged(s1, n, 0, a).peak = peak
          /\ Merged(s1, n, 0, a).keep = s.keep /\ Merged(s1, n, 0, a).next_leaf = s.next_leaf
        <3>1. s1.peak = peak /\ s1.keep = s.keep /\ s1.next_leaf = s.next_leaf
            BY DEF States
        <3> HIDE DEF s1
        <3>2. QED
            BY <1>3, <3>1 DEF Merged
    <2>6. p = [stack |-> Carried(st, n, 0, a), peak |-> peak, auth |-> s.auth, keep |-> s.keep,
               treehash |-> s.treehash, next_leaf |-> s.next_leaf]
        BY <2>1, <2>2, StateFields
    <2> DEFINE y == Merged(s1, n, 0, a)
    <2>7. y = [stack |-> y.stack, peak |-> y.peak, auth |-> y.auth, keep |-> y.keep,
               treehash |-> y.treehash, next_leaf |-> y.next_leaf]
        <3> HIDE DEF s1
        <3>1. QED
            BY Zenon DEF Merged
    <2> HIDE DEF y
    <2>8. p = y
        BY <2>4, <2>5, <2>6, <2>7, Zenon DEF y
    <2>9. QED
        BY <2>3, <2>8 DEF y
<1> HIDE DEF p, s1
<1>5. DOMAIN p.stack = 1 .. Len(st) + 1 /\ Len(st) + 1 \in Nat
    <2>1. p.stack = Append(st, Slot(Leaf(a.layer, a.tree, n), 0))
        <3>1. p = [s EXCEPT !.stack = Append(st, Slot(Leaf(a.layer, a.tree, n), 0)), !.peak = peak]
            BY DEF Push, peak, p
        <3>2. QED
            BY <3>1 DEF States
    <2>2. QED
        BY <1>1, <2>1
<1> HIDE DEF st
<1>6. PICK fold : /\ fold[0] = p
                  /\ \A m \in 1 .. Len(st) + 1 : fold[m] = MergeOp(<<n, a>>, fold[m - 1], p.stack[m])
                  /\ fold[Len(st) + 1] = MergeTop(p, n, a)
    <2>1. Merges!Fold(<<n, a>>, p, p.stack) = MergeTop(p, n, a)
        <3>1. <<n, a>>[1] = n /\ <<n, a>>[2] = a
            OBVIOUS
        <3>2. QED
            BY <3>1 DEF Merges!Fold, MergeTop, MergeOp, FoldLeft, MapThenFoldSet, Max,
                        Merges!FoldLeft, Merges!MapThenFoldSet, Merges!Max
    <2>2. QED
        <3>1. PICK fold : Merges!IsFold(fold, <<n, a>>, p, p.stack, Len(st) + 1)
            BY ONLY <1>5, Merges!FoldExists
        <3>2. QED
            BY <2>1, <3>1 DEF Merges!IsFold
<1>7. ASSUME NEW m \in Nat
      PROVE  MergeOp(<<n, a>>, x(m), p.stack[m + 1]) = x(m + 1)
    <2>1. CASE m < t
        <3>1. m \in Levels /\ m < k /\ Ones(n, m + 1) /\ x(m) = Merged(s1, n, m, a)
            BY <1>0, <2>1 DEF Levels, Ones
        <3>2. x(m + 1) = Merged(s1, n, m + 1, a)
            BY <1>0, <2>1
        <3> HIDE DEF x
        <3>3. CanMerge(x(m)) /\ Merge(x(m), n, a) = x(m + 1)
            BY <1>3, <3>1, <3>2, MergeOnce DEF st
        <3>4. QED
            BY <3>3 DEF MergeOp
    <2>2. CASE ~(m < t)
        <3>1. x(m) = Merged(s1, n, t, a) /\ x(m + 1) = Merged(s1, n, t, a)
            BY <1>0, <2>2
        <3> HIDE DEF x
        <3>2. ~CanMerge(x(m))
            BY <1>0, <1>3, <3>1, MergesEnd DEF st
        <3>3. QED
            BY <3>1, <3>2 DEF MergeOp
    <2>3. QED
        BY <2>1, <2>2
<1> HIDE DEF x
<1>8. \A m \in Nat : m <= Len(st) + 1 => fold[m] = x(m)
    <2> DEFINE S == {m \in Nat : m <= Len(st) + 1 => fold[m] = x(m)}
    <2>1. 0 \in S
        BY <1>4, <1>6
    <2>2. ASSUME NEW m \in Nat, m \in S
          PROVE  m + 1 \in S
        <3>1. ASSUME m + 1 <= Len(st) + 1
              PROVE  fold[m + 1] = x(m + 1)
            <4>1. m + 1 \in 1 .. Len(st) + 1 /\ (m + 1) - 1 = m /\ m <= Len(st) + 1
                BY <1>5, <3>1
            <4>2. fold[m + 1] = MergeOp(<<n, a>>, fold[m], p.stack[m + 1])
                BY <1>6, <4>1
            <4>3. fold[m] = x(m)
                BY <2>2, <4>1
            <4>4. QED
                BY <1>7, <4>2, <4>3
        <3>2. QED
            BY <3>1
    <2>3. QED
        <3> HIDE DEF S
        <3>1. \A m \in Nat : m \in S
            BY <2>1, <2>2, Sums!InductionOnNat
        <3>2. QED
            BY <3>1 DEF S
<1>9. AddLeaf(s, n, a) = Merged(s1, n, t, a)
    <2>1. Len(st) + 1 \in Nat /\ t < Len(st) + 1
        BY <1>0, <1>1, <1>5 DEF st
    <2>2. fold[Len(st) + 1] = x(Len(st) + 1)
        BY <1>8, <2>1
    <2>3. x(Len(st) + 1) = Merged(s1, n, t, a)
        BY <1>0, <2>1 DEF x
    <2>4. QED
        BY <1>6, <2>2, <2>3 DEF AddLeaf, p
<1>10. QED
    BY <1>2, <1>9 DEF s1, st, peak

\* A leaf of a tree of height h has its first zero at h at the latest.
LEMMA FirstZeroInTree ==
    ASSUME NEW h \in Nat, NEW n \in Nat, n < 2 ^ h
    PROVE  \E t \in 0 .. h : Ones(n, t) /\ Bit(n, t) = 0
<1>1. CASE Ones(n, h)
    <2>1. Above(n, h) < 2 ^ (h - h) /\ Above(n, h) \in Nat
        <3>1. h \in 0 .. h
            OBVIOUS
        <3>2. QED
            BY <3>1, AboveInTree, AboveType
    <2>2. h - h = 0 /\ 2 ^ 0 = 1
        BY Powers
    <2>3. Above(n, h) = 0
        BY <2>1, <2>2
    <2>4. Bit(n, h) = 0
        BY <2>3 DEF Bit, Above
    <2>5. QED
        BY <1>1, <2>4
<1>2. CASE ~Ones(n, h)
    BY <1>2, FirstZero
<1>3. QED
    BY <1>1, <1>2

\* The fields of a state after the merges.
LEMMA MergedFields ==
    ASSUME tree_height \in Nat, NEW s \in States, NEW n \in Nat, NEW t \in Nat, NEW a \in Addresses,
           NEW peak \in Nat, Carried(s.stack, n, t, a) \in Seq(SlotSet),
           NEW x, x = Merged([s EXCEPT !.peak = peak], n, t, a)
    PROVE  /\ x \in States /\ x.stack = Carried(s.stack, n, t, a) /\ x.peak = peak
           /\ x.keep = s.keep /\ x.next_leaf = s.next_leaf
           /\ \A i \in Levels :
                /\ x.auth[i] = IF i < t /\ Above(n, i) = 1 THEN NodeAt(a, i, 1) ELSE s.auth[i]
                /\ x.treehash[i] = IF i < t /\ Above(n, i) = 3
                                   THEN [s.treehash[i] EXCEPT !.node = NodeAt(a, i, 3)]
                                   ELSE s.treehash[i]
<1> DEFINE s1 == [s EXCEPT !.peak = peak]
<1>0. x = Merged(s1, n, t, a)
    OBVIOUS
<1>1. /\ s1.stack = s.stack /\ s1.peak = peak /\ s1.auth = s.auth /\ s1.keep = s.keep
      /\ s1.treehash = s.treehash /\ s1.next_leaf = s.next_leaf
    BY DEF States
<1> HIDE DEF s1
<1>2. /\ x.stack = Carried(s.stack, n, t, a) /\ x.peak = peak /\ x.keep = s.keep /\ x.next_leaf = s.next_leaf
      /\ x.auth = [i \in Levels |-> IF i < t /\ Above(n, i) = 1 THEN NodeAt(a, i, 1) ELSE s.auth[i]]
      /\ x.treehash = [i \in Levels |->
             IF i < t /\ Above(n, i) = 3 THEN [s.treehash[i] EXCEPT !.node = NodeAt(a, i, 3)]
                                         ELSE s.treehash[i]]
      /\ x = [stack |-> x.stack, peak |-> x.peak, auth |-> x.auth, keep |-> x.keep,
              treehash |-> x.treehash, next_leaf |-> x.next_leaf]
    BY <1>0, <1>1 DEF Merged
<1>3. \A i \in Levels : i \in Nat /\ NodeAt(a, i, 1) \in NodeSet /\ NodeAt(a, i, 3) \in NodeSet
    BY NodeAtType DEF Levels
<1>4. x.auth \in [Levels -> NodeSet]
    <2>1. s.auth \in [Levels -> NodeSet]
        BY StateFields
    <2>2. QED
        BY ONLY <1>2, <1>3, <2>1
<1>5. x.treehash \in [Levels -> Instances]
    <2>1. \A th \in Instances : \A node \in NodeSet : [th EXCEPT !.node = node] \in Instances
        BY DEF Instances
    <2>2. s.treehash \in [Levels -> Instances]
        BY StateFields
    <2>3. QED
        BY ONLY <1>2, <1>3, <2>1, <2>2
<1>6. x \in States
    BY <1>2, <1>4, <1>5, StateFields DEF States
<1>7. QED
    BY <1>2, <1>6

\* A tree that has n of its leaves: the right children that are needed first
\* are kept when they appear.
Growing(g, n, a) ==
    /\ g \in States /\ g.next_leaf = n
    /\ Carries(g.stack, n, tree_height + 1, a)
    /\ \A p \in 1 .. Len(g.stack) : g.stack[p].level <= tree_height
    /\ \A i \in Levels :
         /\ Above(n, i) >= 2 => g.auth[i] = NodeAt(a, i, 1)
         /\ Above(n, i) >= 4 => g.treehash[i].node = NodeAt(a, i, 3)
         /\ g.treehash[i].next_idx = 0 /\ g.treehash[i].stackusage = 0
         /\ g.treehash[i].node \in {NoNode, NodeAt(a, i, 3)}

\* One leaf more.
LEMMA LeafGrows ==
    ASSUME tree_height \in Nat, NEW a \in Addresses, NEW g, NEW n \in Nat, n < Leaves, Growing(g, n, a)
    PROVE  Growing(bds_state_update(g, a), n + 1, a)
<1> DEFINE st == g.stack
           k == tree_height + 1
           peak == Larger(g.peak, Len(g.stack) + 1)
<1>1. /\ g \in States /\ g.next_leaf = n /\ Carries(st, n, k, a) /\ k \in Nat
      /\ \A p \in 1 .. Len(st) : st[p].level <= tree_height
    BY DEF Growing
<1>2. PICK t \in 0 .. tree_height : Ones(n, t) /\ Bit(n, t) = 0
    BY FirstZeroInTree DEF Leaves
<1>3. t \in Nat /\ t \in 0 .. k - 1 /\ t < k
    BY <1>2
<1>4. peak \in Nat /\ AddLeaf(g, n, a) = Merged([g EXCEPT !.peak = peak], n, t, a)
    BY <1>1, <1>2, <1>3, LeafAdded
<1>5. /\ Carries(Carried(st, n, t, a), n + 1, k, a)
      /\ Len(Carried(st, n, t, a)) = Len(st) - t + 1
      /\ \A p \in 1 .. Len(st) - t : Carried(st, n, t, a)[p] = st[p]
    <2> HIDE DEF st, k
    <2>1. /\ n \in Nat /\ k \in Nat /\ a \in Addresses /\ Carries(st, n, k, a)
          /\ t \in 0 .. k - 1 /\ Ones(n, t) /\ Bit(n, t) = 0
        BY <1>1, <1>2, <1>3
    <2>2. QED
        BY ONLY <2>1, CarryOver, SMTT(30)
<1>6. Len(st) \in Nat /\ t <= Len(st)
    <2>1. t \in 0 .. k
        BY <1>3
    <2>2. QED
        BY <1>1, <1>2, <2>1, TopOfStack
<1>7. Carried(st, n, t, a) \in Seq(SlotSet)
    BY <1>5 DEF Carries
<1> HIDE DEF peak, k
<1> DEFINE x == Merged([g EXCEPT !.peak = peak], n, t, a)
<1>8. /\ x \in States /\ x.stack = Carried(st, n, t, a)
      /\ \A i \in Levels :
           /\ x.auth[i] = IF i < t /\ Above(n, i) = 1 THEN NodeAt(a, i, 1) ELSE g.auth[i]
           /\ x.treehash[i] = IF i < t /\ Above(n, i) = 3
                              THEN [g.treehash[i] EXCEPT !.node = NodeAt(a, i, 3)]
                              ELSE g.treehash[i]
      /\ x.next_leaf = n
    <2>1. /\ tree_height \in Nat /\ g \in States /\ n \in Nat /\ t \in Nat /\ a \in Addresses
          /\ peak \in Nat /\ Carried(g.stack, n, t, a) \in Seq(SlotSet)
          /\ x = Merged([g EXCEPT !.peak = peak], n, t, a)
        <3>1. Carried(g.stack, n, t, a) \in Seq(SlotSet)
            BY <1>7
        <3>2. g \in States /\ t \in Nat /\ peak \in Nat
            BY <1>1, <1>3, <1>4
        <3>3. QED
            BY <3>1, <3>2
    <2> HIDE DEF x
    <2>2. /\ x \in States /\ x.stack = Carried(g.stack, n, t, a) /\ x.next_leaf = g.next_leaf
          /\ \A i \in Levels :
               /\ x.auth[i] = IF i < t /\ Above(n, i) = 1 THEN NodeAt(a, i, 1) ELSE g.auth[i]
               /\ x.treehash[i] = IF i < t /\ Above(n, i) = 3
                                  THEN [g.treehash[i] EXCEPT !.node = NodeAt(a, i, 3)]
                                  ELSE g.treehash[i]
        BY ONLY <2>1, MergedFields, SMTT(30)
    <2>3. QED
        BY <1>1, <2>2
<1> HIDE DEF x
<1> DEFINE y == bds_state_update(g, a)
<1>9. y = [x EXCEPT !.next_leaf = n + 1]
    <2>1. n # Leaves
        <3>1. Leaves \in Nat
            BY Powers DEF Leaves
        <3>2. QED
            BY <3>1
    <2>2. AddLeaf(g, g.next_leaf, a) = x
        BY <1>1, <1>4 DEF x
    <2>3. QED
        BY <1>1, <1>8, <2>1, <2>2 DEF bds_state_update
<1>10. y \in States /\ y.next_leaf = n + 1 /\ y.stack = x.stack /\ y.auth = x.auth /\ y.treehash = x.treehash
    <2> DEFINE new == n + 1
    <2>1. x \in States /\ y = [x EXCEPT !.next_leaf = new] /\ new \in Nat
        BY <1>8, <1>9
    <2> HIDE DEF y, new
    <2>2. y \in States /\ y.next_leaf = new /\ y.stack = x.stack /\ y.auth = x.auth /\ y.treehash = x.treehash
        BY ONLY <2>1 DEF States
    <2>3. QED
        BY <2>2 DEF new
<1> HIDE DEF y, st
<1>11. ASSUME NEW p \in 1 .. Len(y.stack)
       PROVE  y.stack[p].level <= tree_height
    <2>1. y.stack = Append(SubSeq(st, 1, Len(st) - t), Slot(NodeAt(a, t, Above(n, t)), t))
        BY <1>8, <1>10 DEF Carried
    <2>2. Len(y.stack) = Len(st) - t + 1 /\ \A q \in 1 .. Len(st) - t : y.stack[q] = st[q]
        <3>1. y.stack = Carried(st, n, t, a)
            BY <1>8, <1>10
        <3>2. QED
            BY <1>5, <3>1
    <2>3. CASE p \in 1 .. Len(st) - t
        <3>1. p \in 1 .. Len(st) /\ y.stack[p] = st[p]
            BY <1>3, <1>6, <2>2, <2>3
        <3>2. QED
            BY <1>1, <3>1
    <2>4. CASE p = Len(st) - t + 1
        <3>1. y.stack[p] = Slot(NodeAt(a, t, Above(n, t)), t)
            <4>1. Len(st) - t \in 0 .. Len(st) /\ st \in Seq(SlotSet)
                BY <1>1, <1>3, <1>6 DEF Carries
            <4>2. SubSeq(st, 1, Len(st) - t) \in Seq(SlotSet) /\ Len(SubSeq(st, 1, Len(st) - t)) = Len(st) - t
                BY <1>6, <4>1
            <4>3. QED
                BY <2>1, <2>4, <4>2
        <3>2. QED
            BY <1>2, <3>1 DEF Slot
    <2>5. QED
        BY <1>6, <2>2, <2>3, <2>4
<1>12. ASSUME NEW i \in Levels
       PROVE  /\ Above(n + 1, i) >= 2 => y.auth[i] = NodeAt(a, i, 1)
              /\ Above(n + 1, i) >= 4 => y.treehash[i].node = NodeAt(a, i, 3)
              /\ y.treehash[i].next_idx = 0 /\ y.treehash[i].stackusage = 0
              /\ y.treehash[i].node \in {NoNode, NodeAt(a, i, 3)}
    <2>1. /\ Above(n, i) >= 2 => g.auth[i] = NodeAt(a, i, 1)
          /\ Above(n, i) >= 4 => g.treehash[i].node = NodeAt(a, i, 3)
          /\ g.treehash[i].next_idx = 0 /\ g.treehash[i].stackusage = 0
          /\ g.treehash[i].node \in {NoNode, NodeAt(a, i, 3)}
          /\ g.treehash[i] \in Instances
        BY <1>1, StateFields DEF Growing
    <2>2. i \in Nat /\ Above(n, i) \in Nat
        <3>1. i \in Nat
            BY DEF Levels
        <3>2. QED
            BY <3>1, AboveType
    <2>3. \/ Above(n + 1, i) = Above(n, i)
          \/ Above(n + 1, i) = Above(n, i) + 1 /\ (Above(n, i) \in {1, 3} => i < t)
        <3>1. CASE ~Ones(n, i)
            BY <2>2, <3>1, NextLeaf
        <3>2. CASE Ones(n, i)
            <4>1. Above(n + 1, i) = Above(n, i) + 1
                BY <2>2, <3>2, NextLeaf
            <4>2. ASSUME Above(n, i) \in {1, 3}
                  PROVE  i < t
                <5>1. Bit(n, i) = 1
                    BY <4>2 DEF Bit, Above
                <5>2. i # t
                    BY <1>2, <5>1
                <5>3. ~(t < i)
                    BY <1>2, <2>2, <3>2 DEF Ones
                <5>4. QED
                    BY <1>3, <2>2, <5>2, <5>3
            <4>3. QED
                BY <4>1, <4>2
        <3>3. QED
            BY <3>1, <3>2
    <2>4. /\ y.auth[i] = IF i < t /\ Above(n, i) = 1 THEN NodeAt(a, i, 1) ELSE g.auth[i]
          /\ y.treehash[i] = IF i < t /\ Above(n, i) = 3
                             THEN [g.treehash[i] EXCEPT !.node = NodeAt(a, i, 3)]
                             ELSE g.treehash[i]
        BY <1>8, <1>10
    <2>5. \A node : /\ [g.treehash[i] EXCEPT !.node = node].node = node
                    /\ [g.treehash[i] EXCEPT !.node = node].next_idx = 0
                    /\ [g.treehash[i] EXCEPT !.node = node].stackusage = 0
        BY <2>1 DEF Instances
    <2>6. Above(n + 1, i) >= 2 => y.auth[i] = NodeAt(a, i, 1)
        BY <2>1, <2>2, <2>3, <2>4
    <2>7. Above(n + 1, i) >= 4 => y.treehash[i].node = NodeAt(a, i, 3)
        BY <2>1, <2>2, <2>3, <2>4, <2>5
    <2>8. y.treehash[i].next_idx = 0 /\ y.treehash[i].stackusage = 0
        BY <2>1, <2>4, <2>5
    <2>9. y.treehash[i].node \in {NoNode, NodeAt(a, i, 3)}
        BY <2>1, <2>4, <2>5
    <2>10. QED
        BY <2>6, <2>7, <2>8, <2>9
<1>13. Carries(y.stack, n + 1, tree_height + 1, a)
    BY <1>5, <1>8, <1>10 DEF k
<1>14. QED
    BY <1>10, <1>11, <1>12, <1>13 DEF Growing, y

GrowOp(a, s, i) == bds_state_update(s, a)

Grows == INSTANCE SequenceFolds WITH op <- GrowOp

\* Leaf 0 has no bit that is set.
LEMMA NoBits == \A i \in Nat : Above(0, i) = 0 /\ Bit(0, i) = 0
<1>1. \A m \in Nat \ {0} : 0 \div m = 0 /\ (0 \div m) % 2 = 0
    OBVIOUS
<1>2. \A i \in Nat : 2 ^ i \in Nat \ {0}
    BY Powers
<1>3. QED
    BY <1>1, <1>2 DEF Above, Bit

\* The state of a key before anything is in it.
LEMMA EmptyStateType ==
    ASSUME tree_height \in Nat
    PROVE  /\ EmptyState \in States /\ EmptyState.stack = <<>> /\ EmptyState.peak = 0
           /\ EmptyState.next_leaf = 0
           /\ \A i \in Levels : /\ EmptyState.treehash[i].next_idx = 0
                                /\ EmptyState.treehash[i].stackusage = 0
                                /\ EmptyState.treehash[i].node = NoNode
<1> DEFINE none == [next_idx |-> 0, stackusage |-> 0, completed |-> FALSE, node |-> NoNode]
<1>1. NoNode \in NodeSet /\ <<>> \in Seq(SlotSet)
    BY DEF NodeSet
<1>2. none \in Instances /\ none.next_idx = 0 /\ none.stackusage = 0 /\ none.node = NoNode
    BY <1>1 DEF Instances
<1> HIDE DEF none
<1>3. EmptyState = [stack |-> <<>>, peak |-> 0, auth |-> [i \in Levels |-> NoNode],
                    keep |-> [i \in 0 .. (tree_height \div 2) - 1 |-> NoNode],
                    treehash |-> [i \in Levels |-> none], next_leaf |-> 0]
    BY DEF EmptyState, none
<1>4. QED
    BY <1>1, <1>2, <1>3 DEF States

\* All leaves of a tree, one after the other.
LEMMA TreeGrows ==
    ASSUME tree_height \in Nat, NEW a \in Addresses
    PROVE  Growing(Grow(EmptyState, a), Leaves, a)
<1> DEFINE seq == [i \in 1 .. Leaves |-> i]
<1>1. Leaves \in Nat /\ DOMAIN seq = 1 .. Leaves
    BY Powers DEF Leaves
<1>2. Grows!Fold(a, EmptyState, seq) = Grow(EmptyState, a)
    BY DEF Grows!Fold, Grow, GrowOp, FoldLeft, MapThenFoldSet, Max,
           Grows!FoldLeft, Grows!MapThenFoldSet, Grows!Max
<1>3. PICK fold : /\ fold[0] = EmptyState
                  /\ \A k \in 1 .. Leaves : fold[k] = GrowOp(a, fold[k - 1], seq[k])
                  /\ fold[Leaves] = Grow(EmptyState, a)
    <2> HIDE DEF seq
    <2>1. QED
        <3>1. PICK fold : Grows!IsFold(fold, a, EmptyState, seq, Leaves)
            BY ONLY <1>1, Grows!FoldExists
        <3>2. QED
            BY <1>2, <3>1 DEF Grows!IsFold
<1>4. \A k \in 1 .. Leaves : fold[k] = bds_state_update(fold[k - 1], a)
    BY <1>3 DEF GrowOp
<1> DEFINE S == {k \in Nat : k <= Leaves => Growing(fold[k], k, a)}
<1>5. 0 \in S
    <2>1. /\ EmptyState \in States /\ EmptyState.stack = <<>> /\ EmptyState.next_leaf = 0
          /\ \A i \in Levels : /\ EmptyState.treehash[i].next_idx = 0
                               /\ EmptyState.treehash[i].stackusage = 0
                               /\ EmptyState.treehash[i].node = NoNode
        BY EmptyStateType
    <2>2. Carries(<<>>, 0, tree_height + 1, a)
        <3>1. \A l \in 0 .. (tree_height + 1) - 1 : Bit(0, l) # 1
            BY NoBits
        <3>2. <<>> \in Seq(SlotSet) /\ Len(<<>>) = 0
            OBVIOUS
        <3>3. QED
            BY <3>1, <3>2 DEF Carries, Falling, Holds, HoldsOnly
    <2>3. \A i \in Levels : Above(0, i) = 0
        BY NoBits DEF Levels
    <2>4. Growing(EmptyState, 0, a)
        BY <2>1, <2>2, <2>3 DEF Growing
    <2>5. QED
        BY <1>3, <2>4
<1>6. ASSUME NEW k \in Nat, k \in S
      PROVE  k + 1 \in S
    <2>1. ASSUME k + 1 <= Leaves
          PROVE  Growing(fold[k + 1], k + 1, a)
        <3>1. k + 1 \in 1 .. Leaves /\ (k + 1) - 1 = k /\ k < Leaves
            BY <1>1, <2>1
        <3>2. fold[k + 1] = bds_state_update(fold[k], a)
            BY <1>4, <3>1
        <3>3. Growing(fold[k], k, a)
            BY <1>1, <1>6, <3>1
        <3>4. QED
            BY <3>1, <3>2, <3>3, LeafGrows
    <2>2. QED
        BY <2>1
<1>7. Leaves \in S
    <2> HIDE DEF S
    <2>1. QED
        BY <1>1, <1>5, <1>6, Sums!InductionOnNat
<1>8. QED
    BY <1>1, <1>3, <1>7

\* Key generation leaves the first authentication path, the first node of
\* every treehash instance and, at the top of the tree, its root.
LEMMA KeyGenerated ==
    ASSUME tree_height \in Nat, NEW a \in Addresses
    PROVE  LET made == treehash_init(EmptyState, a)
           IN  /\ made.root = NodeAt(a, tree_height, 0)
               /\ made.state \in States /\ made.state.stack = <<>> /\ made.state.peak = 0
               /\ made.state.next_leaf = 0
               /\ \A i \in Levels :
                    /\ made.state.auth[i] = NodeAt(a, i, 1)
                    /\ made.state.treehash[i].completed
                    /\ made.state.treehash[i].next_idx = 0
                    /\ made.state.treehash[i].stackusage = 0
                    /\ made.state.treehash[i].node \in {NoNode, NodeAt(a, i, 3)}
                    /\ i <= tree_height - 2 => made.state.treehash[i].node = NodeAt(a, i, 3)
<1> DEFINE built == Grow(EmptyState, a)
           made == treehash_init(EmptyState, a)
           th == [i \in Levels |-> [built.treehash[i] EXCEPT !.completed = TRUE]]
<1>1. Growing(built, Leaves, a)
    BY TreeGrows
<1>2. Leaves \in Nat /\ tree_height \in 0 .. tree_height
    BY Powers DEF Leaves
<1> HIDE DEF built
<1>3. built \in States /\ Carries(built.stack, Leaves, tree_height + 1, a)
    BY <1>1 DEF Growing
<1>4. \A h \in 0 .. tree_height : Above(Leaves, h) = 2 ^ (tree_height - h)
    <2>1. ASSUME NEW h \in 0 .. tree_height
          PROVE  Above(Leaves, h) = 2 ^ (tree_height - h)
        <3> DEFINE x == 2 ^ h
                   y == 2 ^ (tree_height - h)
        <3>1. h \in Nat /\ tree_height - h \in Nat /\ h + (tree_height - h) = tree_height
            OBVIOUS
        <3>2. x \in Nat \ {0} /\ y \in Nat /\ Leaves = x * y
            BY <3>1, Powers, PowersMultiply DEF Leaves
        <3>3. Above(Leaves, h) = Leaves \div x
            BY DEF Above
        <3> HIDE DEF x, y
        <3>4. Leaves \div x = y
            <4>1. Leaves = x * y + 0 /\ 0 \in 0 .. x - 1
                BY <3>2
            <4>2. QED
                BY <1>2, <3>2, <4>1
        <3>5. QED
            BY <3>3, <3>4 DEF y
    <2>2. QED
        BY <2>1
<1>5. \A i \in Levels : Above(Leaves, i) >= 2 /\ (i <= tree_height - 2 => Above(Leaves, i) >= 4)
    <2>1. ASSUME NEW i \in Levels
          PROVE  2 ^ (tree_height - i) >= 2 /\ (i <= tree_height - 2 => 2 ^ (tree_height - i) >= 4)
        <3>1. i \in 0 .. tree_height /\ tree_height - i \in Nat /\ tree_height - i >= 1
            BY DEF Levels
        <3>2. 2 ^ 0 = 1 /\ 2 ^ (0 + 1) = 2 * 2 ^ 0 /\ 2 ^ (1 + 1) = 2 * 2 ^ 1
            BY Powers
        <3>3. 2 ^ 1 = 2 /\ 2 ^ 2 = 4
            BY <3>2
        <3> DEFINE e == tree_height - i
        <3>4. 2 ^ 1 <= 2 ^ e /\ (2 <= e => 2 ^ 2 <= 2 ^ e) /\ 2 ^ e \in Nat
            <4> HIDE DEF e
            <4>1. e \in Nat /\ 1 <= e
                BY <3>1 DEF e
            <4>2. QED
                BY <4>1, Powers, PowersGrow
        <3>5. i <= tree_height - 2 => 2 <= e
            BY <3>1
        <3> HIDE DEF e
        <3>6. 2 ^ e >= 2 /\ (i <= tree_height - 2 => 2 ^ e >= 4)
            BY <3>3, <3>4, <3>5
        <3>7. QED
            BY <3>6 DEF e
    <2>2. \A i \in Levels : i \in 0 .. tree_height
        BY DEF Levels
    <2>3. QED
        BY <1>4, <2>1, <2>2
<1>6. built.stack[1].node = NodeAt(a, tree_height, 0)
    <2> DEFINE st == built.stack
    <2>1. tree_height - tree_height = 0 /\ 2 ^ 0 = 1
        BY Powers
    <2>2. Above(Leaves, tree_height) = 1
        BY <1>2, <1>4, <2>1
    <2>3. Bit(Leaves, tree_height) = 1
        BY <2>2 DEF Bit, Above
    <2>4. PICK p \in 1 .. Len(st) : st[p] = Slot(NodeAt(a, tree_height, 1 - 1), tree_height)
        <3>1. tree_height \in 0 .. (tree_height + 1) - 1
            OBVIOUS
        <3>2. QED
            BY <1>3, <2>2, <2>3, <3>1 DEF Carries, Holds
    <2>5. \A q \in 1 .. Len(st) : st[q].level <= tree_height /\ st[q].level \in Nat
        <3>1. st \in Seq(SlotSet)
            BY <1>3 DEF Carries
        <3>2. \A slot \in SlotSet : slot.level \in Nat
            BY DEF SlotSet
        <3>3. \A q \in 1 .. Len(st) : st[q].level <= tree_height
            BY <1>1 DEF Growing
        <3> HIDE DEF st
        <3>4. QED
            BY <3>1, <3>2, <3>3
    <2>6. p = 1
        <3>1. ASSUME p # 1
              PROVE  FALSE
            <4>1. 1 \in 1 .. Len(st) /\ 1 < p
                BY <3>1
            <4>2. st[1].level > st[p].level
                BY <1>3, <4>1 DEF Carries, Falling
            <4>3. st[p].level = tree_height
                BY <2>4 DEF Slot
            <4>4. QED
                BY <2>5, <4>1, <4>2, <4>3
        <3>2. QED
            BY <3>1
    <2>7. QED
        BY <2>4, <2>6 DEF Slot
<1>7. made.root = NodeAt(a, tree_height, 0) /\ made.state = [EmptyState EXCEPT !.auth = built.auth, !.treehash = th]
    BY <1>6 DEF treehash_init, built
<1> HIDE DEF made
<1>8. \A i \in Levels : /\ th[i] \in Instances /\ th[i].completed
                        /\ th[i].next_idx = built.treehash[i].next_idx
                        /\ th[i].stackusage = built.treehash[i].stackusage
                        /\ th[i].node = built.treehash[i].node
    <2>1. \A i \in Levels : built.treehash[i] \in Instances
        BY <1>3, StateFields
    <2>2. QED
        BY <2>1 DEF Instances
<1>9. th \in [Levels -> Instances]
    BY <1>8
<1> HIDE DEF th
<1>10. /\ made.state \in States /\ made.state.stack = <<>> /\ made.state.peak = 0
       /\ made.state.next_leaf = 0 /\ made.state.auth = built.auth /\ made.state.treehash = th
    <2>1. built.auth \in [Levels -> NodeSet]
        BY <1>3, StateFields
    <2>2. /\ EmptyState \in States /\ EmptyState.stack = <<>> /\ EmptyState.peak = 0
          /\ EmptyState.next_leaf = 0
        BY EmptyStateType
    <2> HIDE DEF States
    <2>3. QED
        BY <1>7, <1>9, <2>1, <2>2 DEF States
<1>11. ASSUME NEW i \in Levels
       PROVE  /\ made.state.auth[i] = NodeAt(a, i, 1)
              /\ made.state.treehash[i].completed
              /\ made.state.treehash[i].next_idx = 0
              /\ made.state.treehash[i].stackusage = 0
              /\ made.state.treehash[i].node \in {NoNode, NodeAt(a, i, 3)}
              /\ i <= tree_height - 2 => made.state.treehash[i].node = NodeAt(a, i, 3)
    <2>1. /\ built.auth[i] = NodeAt(a, i, 1)
          /\ i <= tree_height - 2 => built.treehash[i].node = NodeAt(a, i, 3)
          /\ built.treehash[i].next_idx = 0 /\ built.treehash[i].stackusage = 0
          /\ built.treehash[i].node \in {NoNode, NodeAt(a, i, 3)}
        BY <1>1, <1>5 DEF Growing
    <2>2. QED
        BY <1>8, <1>10, <2>1
<1>12. QED
    BY <1>7, <1>10, <1>11 DEF made

-----------------------------------------------------------------------------
(* The bits that are set, and the levels of a stack *)

Bits(n, k) == {l \in 0 .. k - 1 : Bit(n, l) = 1}

\* How many of the k lowest bits of n are set.
LEMMA BitsCount ==
    ASSUME NEW n \in Nat, NEW k \in Nat
    PROVE  /\ IsFiniteSet(Bits(n, k)) /\ Cardinality(Bits(n, k)) \in 0 .. k
           /\ Cardinality(Bits(n, k)) = 0 <=> Bits(n, k) = {}
<1>1. IsFiniteSet(0 .. k - 1) /\ Cardinality(0 .. k - 1) = k
    <2>1. 0 \in Int /\ k - 1 \in Int /\ (IF 0 > k - 1 THEN 0 ELSE (k - 1) - 0 + 1) = k
        OBVIOUS
    <2>2. QED
        BY <2>1, FS_Interval
<1>2. Bits(n, k) \in SUBSET (0 .. k - 1)
    BY DEF Bits
<1>3. IsFiniteSet(Bits(n, k)) /\ Cardinality(Bits(n, k)) <= k
    BY <1>1, <1>2, FS_Subset
<1>4. QED
    BY <1>3, FS_CardinalityType, FS_EmptySet

\* If the t lowest are, they are t of them, and adding one turns them into the
\* one bit above them.
LEMMA BitsCarried ==
    ASSUME NEW n \in Nat, NEW k \in Nat, NEW t \in 0 .. k, Ones(n, t)
    PROVE  /\ t <= Cardinality(Bits(n, k))
           /\ t < Cardinality(Bits(n, k)) => \E l \in Bits(n, k) : l >= t
           /\ t = k => Cardinality(Bits(n, k)) = k
           /\ t < k /\ Bit(n, t) = 0 =>
                Cardinality(Bits(n + 1, k)) = Cardinality(Bits(n, k)) - t + 1
<1> DEFINE B == Bits(n, k)
           T == 0 .. t - 1
           R == B \ T
<1>1. IsFiniteSet(B) /\ Cardinality(B) \in 0 .. k
    BY BitsCount
<1>2. IsFiniteSet(T) /\ Cardinality(T) = t
    <2>1. 0 \in Int /\ t - 1 \in Int /\ (IF 0 > t - 1 THEN 0 ELSE (t - 1) - 0 + 1) = t
        OBVIOUS
    <2>2. QED
        BY <2>1, FS_Interval
<1>3. B \cap T = T /\ T \in SUBSET B
    BY DEF Ones, Bits
<1>4. IsFiniteSet(R) /\ Cardinality(R) = Cardinality(B) - t
    <2> HIDE DEF B, T
    <2>1. IsFiniteSet(B \ T) /\ Cardinality(B \ T) = Cardinality(B) - Cardinality(B \cap T)
        BY <1>1, FS_Difference
    <2>2. QED
        BY <1>2, <1>3, <2>1
<1>5. Cardinality(R) \in Nat
    BY <1>4, FS_CardinalityType
<1>6. t <= Cardinality(B)
    BY <1>1, <1>4, <1>5
<1>7. t < Cardinality(B) => \E l \in B : l >= t
    <2>1. ASSUME t < Cardinality(B)
          PROVE  R # {}
        <3>1. Cardinality(R) # 0
            BY <1>1, <1>4, <2>1
        <3>2. QED
            BY <3>1, FS_EmptySet
    <2>2. \A l \in R : l \in B /\ l >= t
        BY DEF Bits
    <2>3. QED
        BY <2>1, <2>2
<1>8. t = k => Cardinality(B) = k
    BY <1>1, <1>6
<1>9. ASSUME t < k, Bit(n, t) = 0
      PROVE  Cardinality(Bits(n + 1, k)) = Cardinality(B) - t + 1
    <2>1. Bits(n + 1, k) = R \cup {t}
        <3>1. t \in Nat
            OBVIOUS
        <3>2. /\ \A l \in 0 .. t - 1 : Bit(n + 1, l) = 0
              /\ Bit(n + 1, t) = 1
              /\ \A l \in Nat : l > t => Bit(n + 1, l) = Bit(n, l)
            BY <1>9, <3>1, NextBits
        <3>3. ASSUME NEW l \in 0 .. k - 1
              PROVE  Bit(n + 1, l) = 1 <=> (Bit(n, l) = 1 /\ ~(l \in T)) \/ l = t
            <4>1. CASE l < t
                BY <3>1, <3>2, <4>1
            <4>2. CASE l = t
                BY <3>2, <4>2
            <4>3. CASE l > t
                BY <3>1, <3>2, <4>3
            <4>4. QED
                BY <3>1, <4>1, <4>2, <4>3
        <3>4. t \in 0 .. k - 1
            BY <1>9
        <3>5. QED
            BY <3>3, <3>4 DEF Bits
    <2>2. t \notin R
        BY <1>9 DEF Bits
    <2> HIDE DEF R
    <2>3. Cardinality(R \cup {t}) = Cardinality(R) + 1
        BY <1>4, <2>2, FS_AddElement
    <2>4. QED
        BY <1>4, <2>1, <2>3
<1>10. QED
    BY <1>6, <1>7, <1>8, <1>9

\* A stack has no more different levels than slots.
LEMMA LevelsOfStack ==
    ASSUME NEW st, Len(st) \in Nat
    PROVE  LET L == {st[p].level : p \in 1 .. Len(st)}
           IN  IsFiniteSet(L) /\ Cardinality(L) <= Len(st)
<1> DEFINE L(j) == {st[p].level : p \in 1 .. j}
           S == {j \in Nat : IsFiniteSet(L(j)) /\ Cardinality(L(j)) <= j}
<1>1. 0 \in S
    <2>1. L(0) = {}
        OBVIOUS
    <2>2. QED
        BY <2>1, FS_EmptySet
<1>2. ASSUME NEW j \in Nat, j \in S
      PROVE  j + 1 \in S
    <2>1. L(j + 1) = L(j) \cup {st[j + 1].level}
        <3>1. \A p : p \in 1 .. j + 1 <=> p \in 1 .. j \/ p = j + 1
            OBVIOUS
        <3>2. QED
            BY <3>1
    <2>2. IsFiniteSet(L(j)) /\ Cardinality(L(j)) <= j
        BY <1>2
    <2> HIDE DEF L
    <2>3. Cardinality(L(j)) \in Nat
        BY <2>2, FS_CardinalityType
    <2>4. /\ IsFiniteSet(L(j) \cup {st[j + 1].level})
          /\ Cardinality(L(j) \cup {st[j + 1].level})
               = IF st[j + 1].level \in L(j) THEN Cardinality(L(j)) ELSE Cardinality(L(j)) + 1
        BY <2>2, FS_AddElement
    <2>5. IsFiniteSet(L(j + 1)) /\ Cardinality(L(j + 1)) <= j + 1
        <3>1. \A c \in Nat : c <= j => (IF st[j + 1].level \in L(j) THEN c ELSE c + 1) <= j + 1
            OBVIOUS
        <3>2. QED
            BY <2>1, <2>2, <2>3, <2>4, <3>1
    <2>6. QED
        BY <2>5
<1>3. Len(st) \in S
    <2> HIDE DEF S
    <2>1. QED
        BY <1>1, <1>2, Sums!InductionOnNat
<1>4. QED
    BY <1>3

\* A stack that falls from below level h has h slots at most.
LEMMA FallingStack ==
    ASSUME NEW st \in Seq(SlotSet), Falling(st), NEW h \in Nat,
           \A p \in 1 .. Len(st) : st[p].level < h
    PROVE  Len(st) <= h
<1> DEFINE S == {j \in Nat : j + 1 <= Len(st) => st[j + 1].level <= h - (j + 1)}
<1>1. Len(st) \in Nat /\ \A p \in 1 .. Len(st) : st[p].level \in Nat
    <2>1. \A slot \in SlotSet : slot.level \in Nat
        BY DEF SlotSet
    <2>2. QED
        BY <2>1
<1>2. 0 \in S
    <2>1. ASSUME 1 <= Len(st)
          PROVE  st[1].level <= h - 1
        <3>1. 1 \in 1 .. Len(st)
            BY <1>1, <2>1
        <3>2. QED
            BY <1>1, <3>1
    <2>2. QED
        BY <2>1
<1>3. ASSUME NEW j \in Nat, j \in S
      PROVE  j + 1 \in S
    <2>1. ASSUME (j + 1) + 1 <= Len(st)
          PROVE  st[(j + 1) + 1].level <= h - ((j + 1) + 1)
        <3>1. j + 1 \in 1 .. Len(st) /\ (j + 1) + 1 \in 1 .. Len(st) /\ j + 1 < (j + 1) + 1
            BY <1>1, <2>1
        <3>2. st[j + 1].level > st[(j + 1) + 1].level
            BY <3>1 DEF Falling
        <3>3. st[j + 1].level <= h - (j + 1)
            BY <1>3, <1>1, <3>1
        <3>4. st[j + 1].level \in Nat /\ st[(j + 1) + 1].level \in Nat
            BY <1>1, <3>1
        <3>5. QED
            BY <3>2, <3>3, <3>4
    <2>2. QED
        BY <2>1
<1>4. \A j \in Nat : j \in S
    <2> HIDE DEF S
    <2>1. QED
        BY <1>2, <1>3, Sums!InductionOnNat
<1>5. CASE Len(st) = 0
    BY <1>5
<1>6. CASE Len(st) # 0
    <2>1. Len(st) - 1 \in Nat /\ (Len(st) - 1) + 1 = Len(st) /\ Len(st) \in 1 .. Len(st)
        BY <1>1, <1>6
    <2>2. PICK j \in Nat : j + 1 = Len(st)
        BY <2>1
    <2>3. st[Len(st)].level <= h - Len(st)
        <3>1. j + 1 <= Len(st) => st[j + 1].level <= h - (j + 1)
            BY <1>4
        <3>2. QED
            BY <1>1, <2>2, <3>1
    <2>4. st[Len(st)].level \in Nat
        BY <1>1, <2>1
    <2>5. QED
        BY <1>1, <2>3, <2>4
<1>7. QED
    BY <1>5, <1>6

-----------------------------------------------------------------------------
(* Treehash updates *)

ClimbOp(p, c, slot) == IF CanClimb(c, p[1]) THEN Climb(c, p[1], p[2]) ELSE c

Climbs == INSTANCE SequenceFolds WITH op <- ClimbOp

\* The instance's tail leaf, hashed with the t nodes on top of the stack.
Lowered(s, k, t) ==
    [stack |-> SubSeq(s.stack, 1, Len(s.stack) - t), peak |-> s.peak, auth |-> s.auth, keep |-> s.keep,
     treehash |-> [s.treehash EXCEPT ![k].stackusage = s.treehash[k].stackusage - t],
     next_leaf |-> s.next_leaf]
AtHeight(s, k, t, a) ==
    [state |-> Lowered(s, k, t), node |-> NodeAt(a, t, Above(s.treehash[k].next_idx, t)), height |-> t]

\* An instance whose own nodes are the only ones on the stack below its level.
OnTop(s, k, a) ==
    /\ Carries(s.stack, s.treehash[k].next_idx, k, a)
    /\ s.treehash[k].stackusage = Cardinality(Bits(s.treehash[k].next_idx, k))

\* A state from its fields.
StateOf(st, peak, auth, keep, th, next) ==
    [stack |-> st, peak |-> peak, auth |-> auth, keep |-> keep, treehash |-> th, next_leaf |-> next]

\* The fields of a lowered state.
LEMMA LoweredFields ==
    ASSUME NEW s \in States, NEW k \in Levels, NEW t \in Nat
    PROVE  /\ Lowered(s, k, t).stack = SubSeq(s.stack, 1, Len(s.stack) - t)
           /\ Lowered(s, k, t).treehash[k].next_idx = s.treehash[k].next_idx
           /\ Lowered(s, k, t).treehash[k].stackusage = s.treehash[k].stackusage - t
           /\ s.treehash[k] \in Instances /\ s.treehash[k].next_idx \in Nat
           /\ s.treehash[k].stackusage \in Nat
<1>1. s.treehash \in [Levels -> Instances]
    BY StateFields
<1>2. s.treehash[k] \in Instances
    BY <1>1
<1>3. s.treehash[k].next_idx \in Nat /\ s.treehash[k].stackusage \in Nat
    BY <1>2 DEF Instances
<1>4. Lowered(s, k, t).treehash = [s.treehash EXCEPT ![k].stackusage = s.treehash[k].stackusage - t]
    BY DEF Lowered
<1>5. Lowered(s, k, t).treehash[k] = [s.treehash[k] EXCEPT !.stackusage = s.treehash[k].stackusage - t]
    BY <1>1, <1>4
<1>6. Lowered(s, k, t).stack = SubSeq(s.stack, 1, Len(s.stack) - t)
    BY DEF Lowered
<1>7. QED
    BY <1>2, <1>3, <1>5, <1>6 DEF Instances

\* One turn of the loop.
LEMMA ClimbOnce ==
    ASSUME tree_height \in Nat, NEW s \in States, NEW k \in Levels, NEW a, OnTop(s, k, a),
           NEW t \in Nat, t < k, Ones(s.treehash[k].next_idx, t + 1)
    PROVE  /\ CanClimb(AtHeight(s, k, t, a), k)
           /\ Climb(AtHeight(s, k, t, a), k, a) = AtHeight(s, k, t + 1, a)
<1> DEFINE st == s.stack
           n == s.treehash[k].next_idx
           usage == s.treehash[k].stackusage
           len == Len(st) - t
           x == Lowered(s, k, t)
           c == AtHeight(s, k, t, a)
           left == NodeAt(a, t, Above(n, t) - 1)
<1>0. /\ k \in Nat /\ t + 1 \in 0 .. k /\ t \in 0 .. (t + 1) - 1
      /\ n \in Nat /\ usage \in Nat /\ st \in Seq(SlotSet) /\ Bit(n, t) = 1
      /\ Ones(n, t + 1)
    <2>1. k \in Nat
        BY DEF Levels
    <2>2. n \in Nat /\ usage \in Nat /\ st \in Seq(SlotSet)
        BY LoweredFields, StateFields
    <2>3. QED
        BY <2>1, <2>2 DEF Ones
<1>1. Len(st) \in Nat /\ t + 1 <= Len(st) /\ st[len] = Slot(left, t)
    <2>1. Carries(st, n, k, a)
        BY DEF OnTop
    <2> HIDE DEF st, n
    <2>2. /\ Len(st) \in Nat /\ t + 1 <= Len(st)
          /\ \A m \in 0 .. (t + 1) - 1 : st[Len(st) - m] = Slot(NodeAt(a, m, Above(n, m) - 1), m)
        BY <1>0, <2>1, TopOfStack
    <2>3. QED
        BY <1>0, <2>2
<1>2. usage >= t + 1
    <2>1. t + 1 <= Cardinality(Bits(n, k))
        BY <1>0, BitsCarried
    <2>2. QED
        BY <2>1 DEF OnTop
<1>3. len \in Nat /\ 1 <= len /\ len <= Len(st)
    BY <1>1
<1>4. /\ x.stack = SubSeq(st, 1, len) /\ x.treehash[k].next_idx = n
      /\ x.treehash[k].stackusage = usage - t
    BY LoweredFields
<1>5. /\ c.state = x /\ c.height = t /\ c.node = NodeAt(a, t, Above(n, t))
    BY DEF AtHeight
<1> HIDE DEF st, len, left, x, c, n, usage
<1>6. /\ Last(x.stack) = Slot(left, t) /\ Front(x.stack) = SubSeq(st, 1, len - 1)
    <2>1. SubSeq(st, 1, len) \in Seq(SlotSet) /\ Len(SubSeq(st, 1, len)) = len
        BY <1>0, <1>1, <1>3
    <2>2. SubSeq(st, 1, len)[len] = st[len]
        BY <1>0, <1>1, <1>3
    <2>3. SubSeq(SubSeq(st, 1, len), 1, len - 1) = SubSeq(st, 1, len - 1)
        BY <1>0, <1>1, <1>3, <2>1
    <2>4. QED
        BY <1>1, <1>4, <2>1, <2>2, <2>3 DEF Last, Front
<1>7. CanClimb(c, k)
    <2>1. usage - t > 0
        BY <1>0, <1>2
    <2>2. c.state.treehash[k].stackusage > 0
        BY <1>4, <1>5, <2>1
    <2>3. Last(c.state.stack).level = c.height
        BY <1>5, <1>6 DEF Slot
    <2>4. QED
        BY <2>2, <2>3 DEF CanClimb
<1>8. thash_h(left, NodeAt(a, t, Above(n, t)), a, t, n \div 2 ^ (t + 1)) = NodeAt(a, t + 1, Above(n, t + 1))
    BY <1>0, ParentOfSiblings DEF left
<1>9. [[x EXCEPT !.stack = Front(@)] EXCEPT !.treehash[k].stackusage = @ - 1] = Lowered(s, k, t + 1)
    <2>1. len - 1 = Len(st) - (t + 1)
        BY <1>1 DEF len
    <2>9. /\ x = StateOf(SubSeq(st, 1, len), s.peak, s.auth, s.keep,
                         [s.treehash EXCEPT ![k].stackusage = usage - t], s.next_leaf)
          /\ Lowered(s, k, t + 1)
               = StateOf(SubSeq(st, 1, len - 1), s.peak, s.auth, s.keep,
                         [s.treehash EXCEPT ![k].stackusage = usage - (t + 1)], s.next_leaf)
        BY <2>1 DEF Lowered, x, len, st, usage, StateOf
    <2>2. s.treehash \in [Levels -> Instances] /\ s.treehash[k] \in Instances
        BY StateFields
    <2>4. (usage - t) - 1 = usage - (t + 1)
        BY <1>0
    <2> DEFINE th == [s.treehash EXCEPT ![k].stackusage = usage - t]
               high == SubSeq(st, 1, len)
               low == SubSeq(st, 1, len - 1)
               y == [x EXCEPT !.stack = Front(@)]
    <2>6. th[k].stackusage = usage - t
        BY <2>2 DEF Instances
    <2>7. x = StateOf(high, s.peak, s.auth, s.keep, th, s.next_leaf) /\ Front(x.stack) = low
        BY <1>6, <2>9
    <2> HIDE DEF th, high, low
    <2>8. y = StateOf(low, s.peak, s.auth, s.keep, th, s.next_leaf)
        BY <2>7 DEF StateOf
    <2> HIDE DEF y
    <2>10. y.treehash = th /\ y.treehash[k].stackusage - 1 = usage - (t + 1)
        BY <2>4, <2>6, <2>8 DEF StateOf
    <2>11. [y EXCEPT !.treehash[k].stackusage = @ - 1]
            = StateOf(low, s.peak, s.auth, s.keep, [th EXCEPT ![k].stackusage = usage - (t + 1)],
                      s.next_leaf)
        BY <2>8, <2>10 DEF StateOf
    <2>12. [th EXCEPT ![k].stackusage = usage - (t + 1)]
             = [s.treehash EXCEPT ![k].stackusage = usage - (t + 1)]
        BY <2>2 DEF th
    <2>13. QED
        BY <2>9, <2>11, <2>12 DEF y, low
<1>10. Climb(c, k, a) = AtHeight(s, k, t + 1, a)
    <2>1. Last(c.state.stack).node = left
        BY <1>5, <1>6 DEF Slot
    <2>2. thash_h(Last(c.state.stack).node, c.node, a, c.height,
                  c.state.treehash[k].next_idx \div 2 ^ (c.height + 1)) = NodeAt(a, t + 1, Above(n, t + 1))
        BY <1>4, <1>5, <1>8, <2>1
    <2>3. [c.state EXCEPT !.stack = Front(@), !.treehash[k].stackusage = @ - 1] = Lowered(s, k, t + 1)
        BY <1>5, <1>9
    <2>4. c.height + 1 = t + 1
        BY <1>5
    <2>5. QED
        BY <2>2, <2>3, <2>4 DEF Climb, AtHeight, n
<1>11. QED
    BY <1>7, <1>10 DEF c

\* The loop stops at the first zero of the tail leaf, or at the level of the
\* instance.
LEMMA ClimbsEnd ==
    ASSUME tree_height \in Nat, NEW s \in States, NEW k \in Levels, NEW a, OnTop(s, k, a),
           NEW t \in 0 .. k, Ones(s.treehash[k].next_idx, t),
           t < k => Bit(s.treehash[k].next_idx, t) = 0
    PROVE  ~CanClimb(AtHeight(s, k, t, a), k)
<1> DEFINE st == s.stack
           n == s.treehash[k].next_idx
           usage == s.treehash[k].stackusage
           len == Len(st) - t
           x == Lowered(s, k, t)
           c == AtHeight(s, k, t, a)
<1>0. k \in Nat /\ t \in Nat /\ n \in Nat /\ usage \in Nat /\ st \in Seq(SlotSet) /\ Ones(n, t)
      /\ usage = Cardinality(Bits(n, k)) /\ Carries(st, n, k, a) /\ (t < k => Bit(n, t) = 0)
    <2>1. k \in Nat
        BY DEF Levels
    <2>2. t \in Nat
        OBVIOUS
    <2>3. n \in Nat /\ usage \in Nat /\ st \in Seq(SlotSet)
        BY <2>2, LoweredFields, StateFields
    <2>4. QED
        BY <2>1, <2>2, <2>3 DEF OnTop
<1>1. x.stack = SubSeq(st, 1, len) /\ x.treehash[k].stackusage = usage - t
    BY <1>0, LoweredFields
<1>2. c.state = x /\ c.height = t
    BY DEF AtHeight
<1> HIDE DEF st, x, c, n, usage
<1>3. /\ Len(st) \in Nat /\ t <= Len(st)
      /\ \A p \in 1 .. len : st[p].level \in Nat /\ (t < k => st[p].level > t)
    BY <1>0, TopOfStack
<1>4. ASSUME CanClimb(c, k)
      PROVE  FALSE
    <2>1. usage - t > 0 /\ Last(x.stack).level = t
        BY <1>1, <1>2, <1>4 DEF CanClimb
    <2>2. t < Cardinality(Bits(n, k))
        BY <1>0, <2>1
    <2>3. PICK l \in Bits(n, k) : l >= t
        BY <1>0, <2>2, BitsCarried
    <2>4. t < k /\ l > t
        <3>1. t # k
            BY <1>0, <2>2, BitsCarried
        <3>2. t < k
            BY <1>0, <3>1
        <3>3. Bit(n, l) = 1 /\ Bit(n, t) = 0 /\ l \in Nat
            BY <1>0, <3>2 DEF Bits
        <3>4. QED
            BY <1>0, <2>3, <3>2, <3>3
    <2>5. PICK p \in 1 .. Len(st) : st[p].level = l
        <3>1. l \in 0 .. k - 1 /\ Bit(n, l) = 1
            BY DEF Bits
        <3>2. PICK p \in 1 .. Len(st) : st[p] = Slot(NodeAt(a, l, Above(n, l) - 1), l)
            BY <1>0, <3>1 DEF Carries, Holds
        <3>3. QED
            BY <3>2 DEF Slot
    <2>6. p <= len
        <3>1. ASSUME p > len
              PROVE  FALSE
            <4>1. Len(st) - p \in 0 .. t - 1 /\ Len(st) - (Len(st) - p) = p
                BY <1>0, <1>3, <3>1 DEF len
            <4>2. PICK m \in 0 .. t - 1 : Len(st) - m = p
                BY <4>1
            <4>3. st[Len(st) - m] = Slot(NodeAt(a, m, Above(n, m) - 1), m)
                BY <1>0, TopOfStack
            <4>4. st[p].level = m
                BY <4>2, <4>3 DEF Slot
            <4>5. QED
                BY <1>0, <2>4, <2>5, <4>2, <4>4
        <3>2. QED
            BY <1>0, <1>3, <3>1
    <2>7. len \in Nat /\ len >= 1 /\ len <= Len(st)
        BY <1>0, <1>3, <2>6
    <2> HIDE DEF len
    <2>8. Last(x.stack) = st[len]
        <3>1. Len(SubSeq(st, 1, len)) = len /\ SubSeq(st, 1, len)[len] = st[len]
            BY <1>0, <2>7
        <3>2. QED
            BY <1>1, <3>1 DEF Last
    <2>9. st[len].level > t
        <3>1. len \in 1 .. len
            BY <2>7
        <3>2. QED
            BY <1>3, <2>4, <3>1
    <2>10. st[len].level \in Nat
        <3>1. len \in 1 .. len
            BY <2>7
        <3>2. QED
            BY <1>3, <3>1
    <2>11. QED
        BY <1>0, <2>1, <2>8, <2>9, <2>10
<1>5. QED
    BY <1>4 DEF c

\* What the loop makes of the tail leaf.
LEMMA ClimbedTo ==
    ASSUME tree_height \in Nat, NEW s \in States, NEW k \in Levels, NEW a, OnTop(s, k, a),
           NEW t \in 0 .. k, Ones(s.treehash[k].next_idx, t),
           t < k => Bit(s.treehash[k].next_idx, t) = 0
    PROVE  Climbed(s, k, a) = AtHeight(s, k, t, a)
<1> DEFINE st == s.stack
           n == s.treehash[k].next_idx
           first == [state |-> s, height |-> 0, node |-> Leaf(a.layer, a.tree, n)]
           c(m) == AtHeight(s, k, IF m < t THEN m ELSE t, a)
<1>1. /\ k \in Nat /\ t \in Nat /\ n \in Nat /\ st \in Seq(SlotSet) /\ Len(st) \in Nat
      /\ Carries(st, n, k, a) /\ Ones(n, t) /\ s.treehash \in [Levels -> Instances]
      /\ s.treehash[k] \in Instances /\ s.treehash[k].stackusage \in Nat
    <2>1. k \in Nat
        BY DEF Levels
    <2>2. t \in Nat
        OBVIOUS
    <2>3. /\ n \in Nat /\ st \in Seq(SlotSet) /\ s.treehash \in [Levels -> Instances]
          /\ s.treehash[k] \in Instances /\ s.treehash[k].stackusage \in Nat
        BY <2>2, LoweredFields, StateFields
    <2>4. Len(st) \in Nat
        BY <2>3
    <2>5. QED
        BY <2>1, <2>2, <2>3, <2>4 DEF OnTop
<1>2. t <= Len(st)
    <2> HIDE DEF st, n
    <2>1. QED
        BY <1>1, TopOfStack
<1>3. first = c(0)
    <2>1. c(0) = AtHeight(s, k, 0, a)
        BY <1>1
    <2>2. Leaf(a.layer, a.tree, n) = NodeAt(a, 0, Above(n, 0))
        <3>1. Above(n, 0) = n
            BY <1>1, OneUp
        <3>2. QED
            BY <3>1 DEF NodeAt, Leaf
    <2>3. Lowered(s, k, 0) = s
        <3>1. Len(st) - 0 = Len(st) /\ s.treehash[k].stackusage - 0 = s.treehash[k].stackusage
            BY <1>1
        <3>2. SubSeq(st, 1, Len(st)) = st
            <4> HIDE DEF st
            <4>1. QED
                BY <1>1
        <3>3. [s.treehash EXCEPT ![k].stackusage = s.treehash[k].stackusage] = s.treehash
            BY <1>1 DEF Instances
        <3>4. Lowered(s, k, 0) = StateOf(s.stack, s.peak, s.auth, s.keep, s.treehash, s.next_leaf)
            BY <3>1, <3>2, <3>3 DEF Lowered, StateOf
        <3>5. QED
            BY <3>4, StateFields DEF StateOf
    <2> HIDE DEF n
    <2>4. QED
        BY <2>1, <2>2, <2>3 DEF AtHeight, n
<1>4. DOMAIN st = 1 .. Len(st)
    BY <1>1
<1>5. PICK fold : /\ fold[0] = first
                  /\ \A m \in 1 .. Len(st) : fold[m] = ClimbOp(<<k, a>>, fold[m - 1], st[m])
                  /\ fold[Len(st)] = Climbed(s, k, a)
    <2>1. Climbs!Fold(<<k, a>>, first, st) = Climbed(s, k, a)
        <3>1. <<k, a>>[1] = k /\ <<k, a>>[2] = a
            OBVIOUS
        <3>2. QED
            BY <3>1 DEF Climbs!Fold, Climbed, ClimbOp, FoldLeft, MapThenFoldSet, Max,
                        Climbs!FoldLeft, Climbs!MapThenFoldSet, Climbs!Max
    <2>2. Len(st) \in Nat
        BY <1>1
    <2> DEFINE len == Len(st)
               p == <<k, a>>
    <2> HIDE DEF first, st, len, p
    <2>3. PICK f : /\ f[0] = first
                   /\ \A m \in 1 .. len : f[m] = ClimbOp(p, f[m - 1], st[m])
                   /\ f[len] = Climbed(s, k, a)
        <3>1. len \in Nat /\ DOMAIN st = 1 .. len /\ Climbs!Fold(p, first, st) = Climbed(s, k, a)
            BY <1>4, <2>1, <2>2 DEF len, p
        <3>2. QED
            <4>1. PICK fold : Climbs!IsFold(fold, p, first, st, len)
                BY ONLY <3>1, Climbs!FoldExists
            <4>2. QED
                BY <3>1, <4>1 DEF Climbs!IsFold
    <2>4. QED
        BY <2>3 DEF len, p
<1>6. ASSUME NEW m \in Nat, NEW slot
      PROVE  ClimbOp(<<k, a>>, c(m), slot) = c(m + 1)
    <2>0. <<k, a>>[1] = k /\ <<k, a>>[2] = a
        OBVIOUS
    <2>1. CASE m < t
        <3>1. m < k /\ Ones(n, m + 1) /\ c(m) = AtHeight(s, k, m, a) /\ c(m + 1) = AtHeight(s, k, m + 1, a)
            BY <1>1, <2>1 DEF Ones
        <3> HIDE DEF c
        <3>2. CanClimb(c(m), k) /\ Climb(c(m), k, a) = c(m + 1)
            BY <3>1, ClimbOnce
        <3>3. QED
            BY <2>0, <3>2 DEF ClimbOp
    <2>2. CASE ~(m < t)
        <3>1. c(m) = AtHeight(s, k, t, a) /\ c(m + 1) = AtHeight(s, k, t, a)
            BY <1>1, <2>2
        <3> HIDE DEF c
        <3>2. ~CanClimb(c(m), k)
            BY <3>1, ClimbsEnd
        <3>3. QED
            BY <2>0, <3>1, <3>2 DEF ClimbOp
    <2>3. QED
        BY <2>1, <2>2
<1> HIDE DEF c, first, st, n
<1> DEFINE S == {m \in Nat : m <= Len(st) => fold[m] = c(m)}
<1>7. 0 \in S
    BY <1>3, <1>5
<1>8. ASSUME NEW m \in Nat, m \in S
      PROVE  m + 1 \in S
    <2>1. ASSUME m + 1 <= Len(st)
          PROVE  fold[m + 1] = c(m + 1)
        <3>1. m + 1 \in 1 .. Len(st) /\ (m + 1) - 1 = m /\ m <= Len(st)
            BY <1>1, <2>1
        <3>2. fold[m + 1] = ClimbOp(<<k, a>>, fold[m], st[m + 1])
            BY <1>5, <3>1
        <3>3. fold[m] = c(m)
            BY <1>8, <3>1
        <3>4. QED
            BY <1>6, <3>2, <3>3
    <2>2. QED
        BY <2>1
<1>9. fold[Len(st)] = c(Len(st))
    <2>1. Len(st) \in S
        <3> HIDE DEF S
        <3>1. QED
            BY <1>1, <1>7, <1>8, Sums!InductionOnNat
    <2>2. QED
        BY <1>1, <2>1
<1>10. c(Len(st)) = AtHeight(s, k, t, a)
    <2>1. (IF Len(st) < t THEN Len(st) ELSE t) = t
        BY <1>1, <1>2
    <2>2. QED
        BY <2>1 DEF c
<1>11. QED
    BY <1>5, <1>9, <1>10

\* An instance from its fields.
InstanceOf(next, usage, completed, node) ==
    [next_idx |-> next, stackusage |-> usage, completed |-> completed, node |-> node]

CompletedOf(next, node) == InstanceOf(next, 0, TRUE, node)

\* What an update makes of the instance itself.
Completed(r, node) == [r EXCEPT !.node = node, !.completed = TRUE]
Advanced(r) == [r EXCEPT !.stackusage = @ + 1, !.next_idx = @ + 1]

\* An instance without nodes on the stack that gets its node.
LEMMA InstanceCompleted ==
    ASSUME NEW r, NEW next, NEW completed, NEW node,
           r = InstanceOf(next, 0, completed, node), NEW v
    PROVE  Completed(r, v) = CompletedOf(next, v)
<1> DEFINE f == [r EXCEPT !.node = v]
           true == TRUE
<1>1. f = InstanceOf(next, 0, completed, v)
    BY DEF InstanceOf
<1>2. Completed(r, v) = [f EXCEPT !.completed = true]
    BY DEF Completed
<1> HIDE DEF f, true
<1>3. [f EXCEPT !.completed = true] = InstanceOf(next, 0, true, v)
    BY <1>1 DEF InstanceOf
<1>4. QED
    BY <1>2, <1>3 DEF true, CompletedOf

\* An instance that leaves a node on the stack and goes to its next leaf.
LEMMA InstanceAdvanced ==
    ASSUME NEW r, NEW next, NEW usage, NEW completed, NEW node,
           r = InstanceOf(next, usage, completed, node)
    PROVE  Advanced(r) = InstanceOf(next + 1, usage + 1, completed, node)
<1> DEFINE use == usage + 1
           new == next + 1
           g == [r EXCEPT !.stackusage = use]
<1>1. r.stackusage + 1 = use /\ r.next_idx + 1 = new
    BY DEF InstanceOf
<1> HIDE DEF use, new
<1>2. g = InstanceOf(next, use, completed, node)
    BY DEF InstanceOf
<1>3. Advanced(r) = [g EXCEPT !.next_idx = new]
    BY <1>1 DEF Advanced
<1> HIDE DEF g
<1>4. [g EXCEPT !.next_idx = new] = InstanceOf(new, use, completed, node)
    BY <1>2 DEF InstanceOf
<1>5. QED
    BY <1>3, <1>4 DEF new, use

\* The state after an update of instance k, whose tail leaf has its first zero
\* at t: the instance is done with its last leaf, or goes on with the next.
Done(s, k, a) ==
    StateOf(SubSeq(s.stack, 1, Len(s.stack) - k), s.peak, s.auth, s.keep,
            [s.treehash EXCEPT ![k] =
               CompletedOf(s.treehash[k].next_idx,
                           NodeAt(a, k, Above(s.treehash[k].next_idx, k)))],
            s.next_leaf)
GoesOn(s, k, t, a) ==
    StateOf(Carried(s.stack, s.treehash[k].next_idx, t, a),
            Larger(s.peak, Len(s.stack) - t + 1), s.auth, s.keep,
            [s.treehash EXCEPT ![k] =
               InstanceOf(s.treehash[k].next_idx + 1, s.treehash[k].stackusage - t + 1,
                          s.treehash[k].completed, s.treehash[k].node)],
            s.next_leaf)

\* treehash_update makes one of these two states of it.
LEMMA UpdatedTo ==
    ASSUME tree_height \in Nat, NEW s \in States, NEW k \in Levels, NEW a, OnTop(s, k, a),
           NEW t \in 0 .. k, Ones(s.treehash[k].next_idx, t),
           t < k => Bit(s.treehash[k].next_idx, t) = 0
    PROVE  /\ t = k => treehash_update(s, k, a) = Done(s, k, a)
           /\ t < k => treehash_update(s, k, a) = GoesOn(s, k, t, a)
<1> DEFINE st == s.stack
           n == s.treehash[k].next_idx
           usage == s.treehash[k].stackusage
           low == SubSeq(st, 1, Len(st) - t)
           x == Lowered(s, k, t)
           th == [s.treehash EXCEPT ![k].stackusage = usage - t]
<1>1. /\ k \in Nat /\ t \in Nat /\ n \in Nat /\ usage \in Nat
      /\ s.treehash \in [Levels -> Instances] /\ s.treehash[k] \in Instances
    <2>1. k \in Nat
        BY DEF Levels
    <2>2. t \in Nat
        OBVIOUS
    <2>3. QED
        BY <2>1, <2>2, LoweredFields, StateFields
<1>2. Climbed(s, k, a) = AtHeight(s, k, t, a)
    BY ClimbedTo
<1>3. /\ Climbed(s, k, a).state = x /\ Climbed(s, k, a).height = t
      /\ Climbed(s, k, a).node = NodeAt(a, t, Above(n, t))
    BY <1>2 DEF AtHeight
<1>4. x = StateOf(low, s.peak, s.auth, s.keep, th, s.next_leaf)
    BY DEF Lowered, StateOf
<1>5. s.treehash[k] = InstanceOf(n, usage, s.treehash[k].completed, s.treehash[k].node)
    BY <1>1 DEF Instances, InstanceOf
<1>6. /\ th[k] = InstanceOf(n, usage - t, s.treehash[k].completed, s.treehash[k].node)
      /\ \A v : [th EXCEPT ![k] = v] = [s.treehash EXCEPT ![k] = v]
    BY <1>1, <1>5 DEF InstanceOf
<1> HIDE DEF low, x, th
<1>9. ASSUME t = k
      PROVE  treehash_update(s, k, a) = Done(s, k, a)
    <2> DEFINE node == NodeAt(a, k, Above(n, k))
               new == [th[k] EXCEPT !.node = node, !.completed = TRUE]
               y == [x EXCEPT !.treehash[k] = new]
    <2>1. treehash_update(s, k, a) = y
        <3>1. x.treehash[k] = th[k]
            BY <1>4 DEF StateOf
        <3>2. QED
            BY <1>3, <1>9, <3>1 DEF treehash_update
    <2>2. usage - t = 0
        <3>1. usage = Cardinality(Bits(n, k))
            BY DEF OnTop
        <3>2. Cardinality(Bits(n, k)) = k
            BY <1>1, <1>9, BitsCarried
        <3>3. QED
            BY <1>1, <1>9, <3>1, <3>2
    <2> HIDE DEF node, n, usage
    <2>3. new = CompletedOf(n, node)
        <3>1. th[k] = InstanceOf(n, 0, s.treehash[k].completed, s.treehash[k].node)
            BY <1>6, <2>2
        <3>2. new = Completed(th[k], node)
            BY DEF Completed
        <3> DEFINE open == s.treehash[k].completed
                   old == s.treehash[k].node
                   r == th[k]
        <3> HIDE DEF new, open, old, r
        <3>3. r = InstanceOf(n, 0, open, old)
            BY <3>1 DEF r, open, old
        <3>4. Completed(r, node) = CompletedOf(n, node)
            BY <3>3, InstanceCompleted
        <3>5. QED
            BY <3>2, <3>4 DEF r
    <2> HIDE DEF new
    <2>4. y = StateOf(low, s.peak, s.auth, s.keep, [th EXCEPT ![k] = new], s.next_leaf)
        BY <1>4 DEF StateOf
    <2>5. QED
        BY <1>6, <1>9, <2>1, <2>3, <2>4 DEF Done, low, node, n
<1>10. ASSUME t < k
       PROVE  treehash_update(s, k, a) = GoesOn(s, k, t, a)
    <2> DEFINE node == NodeAt(a, t, Above(n, t))
               new == [th[k] EXCEPT !.stackusage = @ + 1, !.next_idx = @ + 1]
               y == [x EXCEPT !.treehash[k] = new]
               z == Push(y, node, t)
    <2>1. treehash_update(s, k, a) = z
        <3>1. t # k
            BY <1>1, <1>10
        <3>2. x.treehash[k] = th[k]
            BY <1>4 DEF StateOf
        <3>3. QED
            BY <1>3, <3>1, <3>2 DEF treehash_update
    <2>2. Len(low) = Len(st) - t /\ low \in Seq(SlotSet)
        <3>1. st \in Seq(SlotSet)
            BY StateFields
        <3>2. t <= Len(st) /\ Len(st) \in Nat
            <4>1. Carries(st, n, k, a)
                BY DEF OnTop
            <4> HIDE DEF st, n
            <4>2. Ones(n, t)
                BY DEF n
            <4>3. QED
                BY <1>1, <4>1, <4>2, TopOfStack
        <3> HIDE DEF st
        <3>3. QED
            BY <1>1, <3>1, <3>2 DEF low
    <2> HIDE DEF node, n, usage
    <2>3. new = InstanceOf(n + 1, usage - t + 1, s.treehash[k].completed, s.treehash[k].node)
        <3>1. new = Advanced(th[k])
            BY DEF Advanced
        <3> HIDE DEF new
        <3>2. QED
            BY <1>6, <3>1, InstanceAdvanced
    <2> HIDE DEF new
    <2>4. y = StateOf(low, s.peak, s.auth, s.keep, [s.treehash EXCEPT ![k] = new], s.next_leaf)
        <3>1. y = StateOf(low, s.peak, s.auth, s.keep, [th EXCEPT ![k] = new], s.next_leaf)
            BY <1>4 DEF StateOf
        <3>2. QED
            BY <1>6, <3>1
    <2> DEFINE all == [s.treehash EXCEPT ![k] = new]
    <2> HIDE DEF y, all
    <2>6. z = StateOf(Append(low, Slot(node, t)), Larger(s.peak, Len(low) + 1), s.auth, s.keep, all,
                      s.next_leaf)
        <3>1. y.stack = low /\ y.peak = s.peak
            BY <2>4 DEF StateOf
        <3> DEFINE more == Append(low, Slot(node, t))
                   peak == Larger(s.peak, Len(low) + 1)
        <3>2. z = [y EXCEPT !.stack = more, !.peak = peak]
            BY <3>1 DEF Push
        <3> HIDE DEF more, peak, z
        <3>3. z = StateOf(more, peak, s.auth, s.keep, all, s.next_leaf)
            BY <2>4, <3>2 DEF StateOf, all
        <3>4. QED
            BY <3>3 DEF more, peak
    <2>7. Append(low, Slot(node, t)) = Carried(st, n, t, a)
        BY DEF Carried, low, node
    <2>8. QED
        BY <2>1, <2>2, <2>3, <2>6, <2>7 DEF GoesOn, n, usage, all
<1>11. QED
    BY <1>9, <1>10

-----------------------------------------------------------------------------
(* The instances that share a stack *)

Own(s, i) == Bits(s.treehash[i].next_idx, i)
Open(s) == {i \in DOMAIN s.treehash : ~s.treehash[i].completed}

\* What is on the stack belongs to the open instances, the lower ones on top:
\* an instance that has nodes there started when the stack held none of the
\* instances above it that are lower than its level.
Nested(s, a) ==
    /\ Falling(s.stack)
    /\ \A i \in Open(s) : /\ Holds(s.stack, s.treehash[i].next_idx, i, a)
                          /\ s.treehash[i].stackusage = Cardinality(Own(s, i))
    /\ \A p \in 1 .. Len(s.stack) : \E i \in Open(s) : s.stack[p].level \in Own(s, i)
    /\ \A i, j \in Open(s) : i < j /\ Own(s, i) # {} => \A l \in Own(s, j) : l >= i

\* The instances of a state.
LEMMA InstanceTypes ==
    ASSUME tree_height \in Nat, NEW s \in States
    PROVE  /\ DOMAIN s.treehash = Levels /\ Open(s) \subseteq Levels
           /\ \A i \in Levels : /\ i \in Nat /\ s.treehash[i] \in Instances
                                /\ s.treehash[i].next_idx \in Nat
                                /\ s.treehash[i].stackusage \in Nat
                                /\ s.treehash[i].completed \in BOOLEAN
                                /\ i \notin Open(s) <=> s.treehash[i].completed
           /\ s.stack \in Seq(SlotSet) /\ Len(s.stack) \in Nat
           /\ \A p \in 1 .. Len(s.stack) : s.stack[p].level \in Nat
<1>1. s.treehash \in [Levels -> Instances] /\ s.stack \in Seq(SlotSet)
    BY StateFields
<1>2. \A th \in Instances : th.next_idx \in Nat /\ th.stackusage \in Nat /\ th.completed \in BOOLEAN
    BY DEF Instances
<1>3. \A slot \in SlotSet : slot.level \in Nat
    BY DEF SlotSet
<1>4. \A i \in Levels : i \in Nat
    BY DEF Levels
<1>5. DOMAIN s.treehash = Levels /\ Open(s) \subseteq Levels
      /\ \A i \in Levels : i \notin Open(s) <=> s.treehash[i].completed
    BY <1>1 DEF Open
<1>6. Len(s.stack) \in Nat /\ \A p \in 1 .. Len(s.stack) : s.stack[p].level \in Nat
    <2> DEFINE st == s.stack
    <2>1. st \in Seq(SlotSet)
        BY <1>1
    <2> HIDE DEF st
    <2>2. Len(st) \in Nat /\ \A p \in 1 .. Len(st) : st[p].level \in Nat
        BY <1>3, <2>1
    <2>3. QED
        BY <2>2 DEF st
<1>7. QED
    BY <1>1, <1>2, <1>4, <1>5, <1>6

\* The nodes of an instance are on the stack, and no stack is higher than the
\* tree.
LEMMA StackLevels ==
    ASSUME tree_height \in Nat, NEW s \in States, NEW a, Nested(s, a)
    PROVE  /\ \A i \in Open(s) : \A l \in Own(s, i) :
                /\ l \in 0 .. i - 1
                /\ \E p \in 1 .. Len(s.stack) : s.stack[p].level = l
           /\ \A i \in Open(s) : /\ Cardinality(Own(s, i)) \in Nat
                                 /\ Cardinality(Own(s, i)) <= Len(s.stack)
                                 /\ Cardinality(Own(s, i)) = 0 <=> Own(s, i) = {}
           /\ \A p \in 1 .. Len(s.stack) : s.stack[p].level \in 0 .. tree_height - 1
           /\ Len(s.stack) <= tree_height
<1> DEFINE st == s.stack
           L == {st[p].level : p \in 1 .. Len(st)}
<1>1. /\ Open(s) \subseteq Levels
      /\ \A i \in Levels : i \in Nat /\ s.treehash[i].next_idx \in Nat
      /\ st \in Seq(SlotSet) /\ Len(st) \in Nat
      /\ \A p \in 1 .. Len(st) : st[p].level \in Nat
    BY InstanceTypes
<1>2. ASSUME NEW i \in Open(s), NEW l \in Own(s, i)
      PROVE  l \in 0 .. i - 1 /\ l \in L
    <2>1. l \in 0 .. i - 1 /\ Bit(s.treehash[i].next_idx, l) = 1
        BY DEF Own, Bits
    <2>2. PICK p \in 1 .. Len(st) :
                 st[p] = Slot(NodeAt(a, l, Above(s.treehash[i].next_idx, l) - 1), l)
        BY <2>1 DEF Nested, Holds
    <2>3. st[p].level = l
        BY <2>2 DEF Slot
    <2>4. QED
        BY <2>1, <2>3
<1>3. IsFiniteSet(L) /\ Cardinality(L) <= Len(st) /\ Cardinality(L) \in Nat
    <2>1. IsFiniteSet(L) /\ Cardinality(L) <= Len(st)
        <3> HIDE DEF st
        <3>1. QED
            BY <1>1, LevelsOfStack
    <2> HIDE DEF L
    <2>2. QED
        BY <2>1, FS_CardinalityType
<1>4. ASSUME NEW i \in Open(s)
      PROVE  /\ Cardinality(Own(s, i)) \in Nat /\ Cardinality(Own(s, i)) <= Len(st)
             /\ Cardinality(Own(s, i)) = 0 <=> Own(s, i) = {}
    <2> DEFINE O == Own(s, i)
    <2>1. O \in SUBSET L
        BY <1>2
    <2>2. Cardinality(O) \in Nat /\ (Cardinality(O) = 0 <=> O = {})
        <3>1. i \in Nat /\ s.treehash[i].next_idx \in Nat
            BY <1>1
        <3>2. /\ Cardinality(Bits(s.treehash[i].next_idx, i)) \in 0 .. i
              /\ Cardinality(Bits(s.treehash[i].next_idx, i)) = 0
                    <=> Bits(s.treehash[i].next_idx, i) = {}
            BY <3>1, BitsCount
        <3>3. O = Bits(s.treehash[i].next_idx, i)
            BY DEF Own
        <3> HIDE DEF O
        <3>4. QED
            BY <3>1, <3>2, <3>3
    <2> HIDE DEF L, O
    <2>3. Cardinality(O) <= Cardinality(L)
        BY <1>3, <2>1, FS_Subset
    <2>4. Cardinality(O) <= Len(st)
        BY <1>1, <1>3, <2>2, <2>3
    <2>5. QED
        BY <2>2, <2>4 DEF O
<1>5. ASSUME NEW p \in 1 .. Len(st)
      PROVE  st[p].level \in 0 .. tree_height - 1
    <2>1. PICK i \in Open(s) : st[p].level \in Own(s, i)
        BY DEF Nested
    <2>2. st[p].level \in 0 .. i - 1 /\ i \in Levels
        BY <1>1, <1>2, <2>1
    <2>3. QED
        BY <2>2 DEF Levels
<1>6. Len(st) <= tree_height
    <2>1. Falling(st)
        BY DEF Nested
    <2>2. \A p \in 1 .. Len(st) : st[p].level < tree_height
        BY <1>5
    <2> HIDE DEF st
    <2>3. QED
        BY <1>1, <2>1, <2>2, FallingStack
<1>7. QED
    BY <1>2, <1>4, <1>5, <1>6

\* The need of an instance is that of its tail node; for the instances that
\* have nodes on the stack it is the same, the level of the node on top.
LEMMA NeedOf ==
    ASSUME tree_height \in Nat, NEW s \in States, NEW a, Nested(s, a), NEW i \in Levels
    PROVE  /\ i \notin Open(s) => Need(s, i) = tree_height
           /\ i \in Open(s) /\ Own(s, i) = {} => Need(s, i) = i
           /\ i \in Open(s) /\ Own(s, i) # {} =>
                /\ Len(s.stack) >= 1 /\ Need(s, i) = s.stack[Len(s.stack)].level
                /\ Need(s, i) \in 0 .. tree_height - 1
<1> DEFINE st == s.stack
           n == Len(st)
           usage == s.treehash[i].stackusage
           used == {st[n - j].level : j \in 0 .. usage - 1}
           top == st[n].level
<1>1. /\ n \in Nat /\ usage \in Nat
      /\ i \notin Open(s) <=> s.treehash[i].completed
    BY InstanceTypes
<1>2. i \in Open(s) => /\ usage = Cardinality(Own(s, i))
                       /\ usage <= n /\ (usage = 0 <=> Own(s, i) = {})
    <2>1. i \in Open(s) => usage = Cardinality(Own(s, i))
        BY DEF Nested
    <2>2. i \in Open(s) => /\ Cardinality(Own(s, i)) <= n
                           /\ Cardinality(Own(s, i)) = 0 <=> Own(s, i) = {}
        BY StackLevels
    <2>3. QED
        BY <2>1, <2>2
<1>3. \A p \in 1 .. n : st[p].level \in 0 .. tree_height - 1
    BY StackLevels
<1>4. CASE i \notin Open(s)
    BY <1>1, <1>4 DEF Need
<1>5. CASE i \in Open(s) /\ Own(s, i) = {}
    BY <1>1, <1>2, <1>5 DEF Need
<1>6. CASE i \in Open(s) /\ Own(s, i) # {}
    <2>1. usage >= 1 /\ usage <= n /\ n >= 1
        BY <1>1, <1>2, <1>6
    <2>2. top \in used /\ top \in 0 .. tree_height - 1
        <3>1. 0 \in 0 .. usage - 1 /\ n - 0 = n /\ n \in 1 .. n
            <4>1. usage \in Nat /\ n \in Nat /\ usage >= 1 /\ n >= 1
                BY <1>1, <2>1
            <4> HIDE DEF usage, n
            <4>2. QED
                BY ONLY <4>1
        <3>2. top \in 0 .. tree_height - 1
            BY <1>3, <3>1
        <3> HIDE DEF n, st, usage
        <3>3. st[n - 0].level = top
            BY <3>1
        <3>4. top \in used
            BY <3>1, <3>3
        <3>5. QED
            BY <3>2, <3>4
    <2>3. \A u \in used : top <= u /\ u \in Nat
        <3>1. ASSUME NEW j \in 0 .. usage - 1
              PROVE  top <= st[n - j].level /\ st[n - j].level \in Nat
            <4>1. n - j \in 1 .. n /\ n \in 1 .. n
                <5>1. usage \in Nat /\ n \in Nat /\ usage <= n /\ n >= 1 /\ j \in 0 .. usage - 1
                    BY <1>1, <2>1
                <5> HIDE DEF usage, n
                <5>2. QED
                    BY ONLY <5>1
            <4>2. st[n - j].level \in Nat /\ top \in Nat
                <5>1. \A p \in 1 .. n : st[p].level \in Nat
                    BY <1>3
                <5> HIDE DEF n, st
                <5>2. st[n - j].level \in Nat
                    BY ONLY <4>1, <5>1, Zenon
                <5>3. st[n].level \in Nat
                    BY ONLY <4>1, <5>1, Zenon
                <5>4. QED
                    BY <5>2, <5>3
            <4>3. CASE j = 0
                <5>1. n - j = n
                    BY <1>1, <4>3
                <5> HIDE DEF n, st
                <5>2. QED
                    BY <4>2, <5>1
            <4>4. CASE j # 0
                <5>1. n - j < n
                    BY <1>1, <4>4
                <5>2. st[n - j].level > st[n].level
                    BY <4>1, <5>1 DEF Nested, Falling
                <5> HIDE DEF n, st
                <5>3. QED
                    BY <4>2, <5>2
            <4>5. QED
                BY <4>3, <4>4
        <3> HIDE DEF n, st, top
        <3>2. QED
            BY <3>1
    <2>4. treehash_minheight_on_stack(s, s.treehash[i])
            = CHOOSE m \in used \cup {tree_height} : \A u \in used : m <= u
        BY DEF treehash_minheight_on_stack
    <2> HIDE DEF used, top
    <2>5. (CHOOSE m \in used \cup {tree_height} : \A u \in used : m <= u) = top
        <3>1. \A m \in used \cup {tree_height} : (\A u \in used : m <= u) <=> m = top
            BY <2>2, <2>3
        <3>2. QED
            BY <2>2, <3>1
    <2>6. Need(s, i) = top
        BY <1>1, <1>6, <2>1, <2>4, <2>5 DEF Need
    <2>7. QED
        BY <1>6, <2>1, <2>2, <2>6 DEF top
<1>7. QED
    BY <1>4, <1>5, <1>6

\* The instance that is updated next: it is open, and every other open one has
\* a greater need, or the same and a greater level.
LEMMA LeastNeed ==
    ASSUME tree_height \in Nat, NEW s \in States, NEW a, Nested(s, a), Open(s) # {}
    PROVE  /\ Waiting(s) = Open(s) /\ Neediest(s) \in Open(s)
           /\ \A j \in Open(s) : \/ Need(s, Neediest(s)) < Need(s, j)
                                 \/ Need(s, Neediest(s)) = Need(s, j) /\ Neediest(s) <= j
<1> DEFINE T == {Need(s, i) : i \in Open(s)}
<1>1. \A i \in Levels : /\ i \in Open(s) => Need(s, i) \in 0 .. tree_height - 1
                        /\ i \notin Open(s) => Need(s, i) = tree_height
    <2>1. SUFFICES ASSUME NEW i \in Levels, i \in Open(s), Own(s, i) = {}
                   PROVE  Need(s, i) \in 0 .. tree_height - 1
        BY NeedOf
    <2>2. Need(s, i) = i
        BY <2>1, NeedOf
    <2>3. QED
        BY <2>1, <2>2 DEF Levels
<1>2. Open(s) \subseteq Levels
    BY InstanceTypes
<1>3. Waiting(s) = Open(s)
    <2>1. \A i \in Levels : i \in Open(s) <=> Need(s, i) < tree_height
        BY <1>1
    <2>2. QED
        BY <1>2, <2>1 DEF Waiting
<1>4. T \in SUBSET (0 .. tree_height) /\ T # {}
    BY <1>1, <1>2
<1>5. PICK m \in T : \A j \in T : m <= j
    <2> HIDE DEF T
    <2>1. QED
        BY <1>4, Sums!LeastElement
<1> DEFINE C == {i \in Open(s) : Need(s, i) = m}
<1>6. C \in SUBSET (0 .. tree_height) /\ C # {}
    BY <1>2, <1>5 DEF Levels
<1>7. PICK k \in C : \A j \in C : k <= j
    <2> HIDE DEF C
    <2>1. QED
        BY <1>6, Sums!LeastElement
<1>8. k \in Open(s) /\ \A j \in Open(s) : Need(s, k) < Need(s, j) \/ (Need(s, k) = Need(s, j) /\ k <= j)
    <2>1. k \in Open(s) /\ Need(s, k) = m
        BY <1>7
    <2>2. ASSUME NEW j \in Open(s)
          PROVE  m < Need(s, j) \/ (m = Need(s, j) /\ k <= j)
        <3>1. Need(s, j) \in T /\ m <= Need(s, j)
            BY <1>5
        <3>2. Need(s, j) = m => k <= j
            BY <1>7
        <3>3. m \in Int /\ Need(s, j) \in Int
            BY <1>4, <3>1
        <3>4. QED
            BY <3>1, <3>2, <3>3
    <2>3. QED
        BY <2>1, <2>2
<1>9. Neediest(s) = CHOOSE i \in Open(s) :
                      \A j \in Open(s) : Need(s, i) < Need(s, j) \/ (Need(s, i) = Need(s, j) /\ i <= j)
    BY <1>3 DEF Neediest
<1>10. QED
    BY <1>3, <1>8, <1>9

\* The nodes of that instance are the ones on top of the stack: no lower open
\* instance has any, and if there is one, the instance has a node below it.
LEMMA Chosen ==
    ASSUME tree_height \in Nat, NEW s \in States, NEW a, Nested(s, a), Open(s) # {}
    PROVE  /\ OnTop(s, Neediest(s), a)
           /\ \A i \in Open(s) : i < Neediest(s) => /\ Own(s, i) = {}
                                                    /\ \E l \in Own(s, Neediest(s)) : l < i
           /\ Own(s, Neediest(s)) = {} => \A i \in Open(s) : \A l \in Own(s, i) : l >= Neediest(s)
<1> DEFINE k == Neediest(s)
           st == s.stack
           top == st[Len(st)].level
<1>1. /\ k \in Open(s)
      /\ \A j \in Open(s) : Need(s, k) < Need(s, j) \/ (Need(s, k) = Need(s, j) /\ k <= j)
    BY LeastNeed
<1>2. /\ Open(s) \subseteq Levels /\ \A i \in Open(s) : i \in Nat /\ s.treehash[i].next_idx \in Nat
      /\ st \in Seq(SlotSet) /\ Len(st) \in Nat
      /\ \A p \in 1 .. Len(st) : st[p].level \in Nat
    BY InstanceTypes
<1>3. \A i \in Open(s) : \A l \in Own(s, i) : /\ l \in 0 .. i - 1
                                              /\ \E p \in 1 .. Len(st) : st[p].level = l
    BY StackLevels
<1>4. \A i \in Open(s) : /\ Own(s, i) = {} => Need(s, i) = i
                         /\ Own(s, i) # {} => Len(st) >= 1 /\ Need(s, i) = top
    BY <1>2, NeedOf
<1>5. \A p \in 1 .. Len(st) : top \in Nat /\ top <= st[p].level
    <2>1. SUFFICES ASSUME NEW p \in 1 .. Len(st)
                   PROVE  top \in Nat /\ top <= st[p].level
        OBVIOUS
    <2>2. Len(st) \in 1 .. Len(st)
        BY <1>2
    <2>3. p < Len(st) => st[p].level > st[Len(st)].level
        BY <2>2 DEF Nested, Falling
    <2>4. p < Len(st) \/ p = Len(st)
        BY <1>2
    <2>5. st[p].level \in Nat /\ st[Len(st)].level \in Nat
        BY <1>2, <2>2
    <2> HIDE DEF st
    <2>6. QED
        BY <2>3, <2>4, <2>5
<1> HIDE DEF k, st, top
<1>6. ASSUME NEW m \in Open(s), NEW l \in Own(s, m)
      PROVE  Need(s, m) = top /\ top \in Nat /\ top <= l /\ l \in Nat /\ l < m
    BY <1>2, <1>3, <1>4, <1>5
<1>7. k \in Nat
    BY <1>1, <1>2
<1>8. Own(s, k) = {} => \A m \in Open(s) : \A l \in Own(s, m) : l >= k
    <2>1. SUFFICES ASSUME Own(s, k) = {}, NEW m \in Open(s), NEW l \in Own(s, m)
                   PROVE  l >= k
        OBVIOUS
    <2>2. Need(s, k) = k
        BY <1>1, <1>4, <2>1
    <2>3. k <= Need(s, m)
        BY <1>1, <1>6, <1>7, <2>2
    <2>4. QED
        BY <1>6, <1>7, <2>3
<1>9. \A i \in Open(s) : i < k => Own(s, i) = {}
    <2>1. SUFFICES ASSUME NEW i \in Open(s), i < k, NEW l \in Own(s, i)
                   PROVE  FALSE
        OBVIOUS
    <2>2. Need(s, i) = top /\ top <= l /\ l < i /\ l \in Nat /\ top \in Nat /\ i \in Nat
        BY <1>2, <1>6
    <2>3. CASE Own(s, k) = {}
        BY <1>7, <1>8, <2>1, <2>2, <2>3
    <2>4. CASE Own(s, k) # {}
        <3>1. Need(s, k) = top
            BY <1>1, <1>4, <2>4
        <3>2. k <= i
            BY <1>1, <2>2, <3>1
        <3>3. QED
            BY <1>7, <2>1, <2>2, <3>2
    <2>5. QED
        BY <2>3, <2>4
<1>10. HoldsOnly(st, s.treehash[k].next_idx, k)
    <2>1. SUFFICES ASSUME NEW p \in 1 .. Len(st), st[p].level < k
                   PROVE  Bit(s.treehash[k].next_idx, st[p].level) = 1
        BY DEF HoldsOnly
    <2>2. PICK m \in Open(s) : st[p].level \in Own(s, m)
        BY DEF Nested, st
    <2>3. m = k
        <3>1. ~(m < k)
            BY <1>9, <2>2
        <3>2. ~(k < m)
            <4>1. SUFFICES ASSUME k < m
                           PROVE  FALSE
                OBVIOUS
            <4>2. CASE Own(s, k) = {}
                BY <1>2, <1>7, <1>8, <2>1, <2>2, <4>2
            <4>3. CASE Own(s, k) # {}
                <5>1. st[p].level >= k
                    BY <1>1, <2>2, <4>1, <4>3 DEF Nested
                <5>2. QED
                    BY <1>2, <1>7, <2>1, <5>1
            <4>4. QED
                BY <4>2, <4>3
        <3>3. QED
            BY <1>2, <1>7, <3>1, <3>2
    <2>4. QED
        BY <2>2, <2>3 DEF Own, Bits
<1>11. OnTop(s, k, a)
    <2>1. /\ Holds(st, s.treehash[k].next_idx, k, a) /\ Falling(st)
          /\ s.treehash[k].stackusage = Cardinality(Own(s, k))
        BY <1>1 DEF Nested, st
    <2>2. QED
        BY <1>2, <1>10, <2>1 DEF OnTop, Carries, Own, st
<1>12. \A i \in Open(s) : i < k => \E l \in Own(s, k) : l < i
    <2>1. SUFFICES ASSUME NEW i \in Open(s), i < k
                   PROVE  \E l \in Own(s, k) : l < i
        OBVIOUS
    <2>2. Need(s, i) = i /\ i \in Nat
        BY <1>2, <1>4, <1>9, <2>1
    <2>3. Own(s, k) # {}
        <3>1. SUFFICES ASSUME Own(s, k) = {}
                       PROVE  FALSE
            OBVIOUS
        <3>2. Need(s, k) = k
            BY <1>1, <1>4, <3>1
        <3>3. QED
            BY <1>1, <1>7, <2>1, <2>2, <3>2
    <2>4. Need(s, k) = top /\ Len(st) >= 1
        BY <1>1, <1>4, <2>3
    <2>5. top < i /\ top \in Nat
        <3>1. top \in Nat
            BY <1>1, <1>6, <2>3
        <3>2. QED
            BY <1>1, <1>7, <2>1, <2>2, <2>4, <3>1
    <2>6. Bit(s.treehash[k].next_idx, top) = 1
        <3>1. Len(st) \in 1 .. Len(st) /\ st[Len(st)].level = top
            BY <1>2, <2>4 DEF top
        <3>2. top < k
            BY <1>7, <2>1, <2>2, <2>5
        <3>3. QED
            BY <1>10, <3>1, <3>2 DEF HoldsOnly
    <2>7. top \in Own(s, k)
        BY <1>7, <2>1, <2>2, <2>5, <2>6 DEF Own, Bits
    <2>8. QED
        BY <2>5, <2>7
<1>13. QED
    BY <1>8, <1>9, <1>11, <1>12 DEF k

\* The other instances have their nodes at its level and above it.
LEMMA OthersAbove ==
    ASSUME tree_height \in Nat, NEW s \in States, NEW a, Nested(s, a), Open(s) # {}
    PROVE  /\ Neediest(s) \in Open(s) /\ Neediest(s) \in Levels /\ Neediest(s) \in Nat
           /\ \A i \in Open(s) : /\ i # Neediest(s) => \A l \in Own(s, i) : l >= Neediest(s)
                                 /\ i < Neediest(s) => Own(s, i) = {}
<1>1. Neediest(s) \in Open(s)
    BY LeastNeed
<1>2. Open(s) \subseteq Levels /\ \A i \in Levels : i \in Nat
    BY InstanceTypes
<1>3. /\ \A i \in Open(s) : i < Neediest(s) => Own(s, i) = {}
      /\ Own(s, Neediest(s)) = {} => \A i \in Open(s) : \A l \in Own(s, i) : l >= Neediest(s)
    BY Chosen
<1>4. \A i \in Open(s) : Neediest(s) < i /\ Own(s, Neediest(s)) # {} => \A l \in Own(s, i) : l >= Neediest(s)
    BY <1>1 DEF Nested
<1>5. \A i \in Open(s) : i < Neediest(s) \/ i = Neediest(s) \/ Neediest(s) < i
    BY <1>1, <1>2
<1> HIDE DEF Own
<1>6. QED
    BY <1>1, <1>2, <1>3, <1>4, <1>5

\* An instance that is done takes its nodes off the stack.
LEMMA DoneRight ==
    ASSUME tree_height \in Nat, NEW s \in States, NEW a \in Addresses, Nested(s, a), Open(s) # {},
           Ones(s.treehash[Neediest(s)].next_idx, Neediest(s))
    PROVE  LET k == Neediest(s)
               x == Done(s, k, a)
           IN  /\ x \in States /\ Nested(x, a) /\ Open(x) = Open(s) \ {k}
               /\ x.treehash[k] = CompletedOf(s.treehash[k].next_idx,
                                              NodeAt(a, k, Above(s.treehash[k].next_idx, k)))
               /\ \A i \in Levels : i # k => x.treehash[i] = s.treehash[i]
<1> DEFINE k == Neediest(s)
           st == s.stack
           n == s.treehash[k].next_idx
           low == SubSeq(st, 1, Len(st) - k)
           made == CompletedOf(n, NodeAt(a, k, Above(n, k)))
           x == Done(s, k, a)
<1>1. /\ k \in Open(s) /\ k \in Levels /\ k \in Nat
      /\ \A i \in Open(s) : i # k => \A l \in Own(s, i) : l >= k
    BY OthersAbove
<1>2. /\ DOMAIN s.treehash = Levels /\ Open(s) \subseteq Levels
      /\ n \in Nat /\ st \in Seq(SlotSet) /\ Len(st) \in Nat
      /\ \A i \in Levels : i \notin Open(s) <=> s.treehash[i].completed
    BY <1>1, InstanceTypes
<1>3. /\ s.peak \in Nat /\ s.auth \in [Levels -> NodeSet] /\ s.treehash \in [Levels -> Instances]
      /\ s.keep \in [0 .. (tree_height \div 2) - 1 -> NodeSet] /\ s.next_leaf \in Nat
    BY StateFields
<1>4. OnTop(s, k, a)
    BY Chosen
<1>5. /\ k <= Len(st)
      /\ \A m \in 0 .. k - 1 : st[Len(st) - m] = Slot(NodeAt(a, m, Above(n, m) - 1), m)
      /\ \A p \in 1 .. Len(st) - k : st[p].level \in Nat /\ st[p].level >= k
    <2>1. Carries(st, n, k, a) /\ Ones(n, k) /\ k \in 0 .. k
        BY <1>1, <1>4 DEF OnTop
    <2> HIDE DEF k, st, n
    <2>2. QED
        BY <1>1, <1>2, <2>1, TopOfStack
<1>6. \A p \in Len(st) - k + 1 .. Len(st) : st[p].level < k
    <2>1. SUFFICES ASSUME NEW p \in Len(st) - k + 1 .. Len(st)
                   PROVE  st[p].level < k
        OBVIOUS
    <2> DEFINE m == Len(st) - p
    <2>2. m \in 0 .. k - 1 /\ p = Len(st) - m
        BY <1>1, <1>2, <2>1
    <2> HIDE DEF m, st, k, n
    <2>3. st[Len(st) - m] = Slot(NodeAt(a, m, Above(n, m) - 1), m)
        BY <1>5, <2>2
    <2>4. st[p] = Slot(NodeAt(a, m, Above(n, m) - 1), m)
        BY <2>2, <2>3
    <2>5. st[p].level = m
        BY <2>4 DEF Slot
    <2>6. QED
        BY <1>1, <2>2, <2>5
<1>7. /\ low \in Seq(SlotSet) /\ Len(low) = Len(st) - k
      /\ \A p \in 1 .. Len(low) : low[p] = st[p]
    <2> HIDE DEF st, k, n
    <2>1. QED
        BY <1>1, <1>2, <1>5
<1>8. made \in Instances
    <2>1. Above(n, k) \in Nat
        BY <1>1, <1>2, AboveType
    <2>2. NodeAt(a, k, Above(n, k)) \in NodeSet
        BY <1>1, <2>1, NodeAtType
    <2> HIDE DEF n, k
    <2>3. QED
        BY <1>2, <2>2 DEF Instances, CompletedOf, InstanceOf
<1>9. /\ x.stack = low /\ x.peak = s.peak /\ x.auth = s.auth /\ x.keep = s.keep
      /\ x.treehash = [s.treehash EXCEPT ![k] = made] /\ x.next_leaf = s.next_leaf
      /\ x = StateOf(low, s.peak, s.auth, s.keep, [s.treehash EXCEPT ![k] = made], s.next_leaf)
    <2>1. x = StateOf(low, s.peak, s.auth, s.keep, [s.treehash EXCEPT ![k] = made], s.next_leaf)
        BY DEF Done
    <2> HIDE DEF x, low, made, k
    <2>2. QED
        BY <2>1 DEF StateOf
<1> HIDE DEF x, low, made, k, st, n
<1>10. /\ DOMAIN x.treehash = Levels /\ x.treehash[k] = made
       /\ \A i \in Levels : i # k => x.treehash[i] = s.treehash[i]
       /\ x.treehash \in [Levels -> Instances]
    BY <1>1, <1>3, <1>8, <1>9
<1>11. x \in States
    BY <1>3, <1>7, <1>9, <1>10 DEF States, StateOf
<1>12. /\ Open(x) = Open(s) \ {k}
       /\ \A i \in Open(x) : i \in Open(s) /\ i # k /\ Own(x, i) = Own(s, i)
    <2>1. made.completed = TRUE
        BY DEF made, CompletedOf, InstanceOf
    <2>2. Open(x) = Open(s) \ {k}
        BY <1>2, <1>10, <2>1 DEF Open
    <2>3. \A i \in Open(x) : i \in Open(s) /\ i # k
        BY <2>2
    <2>4. \A i \in Open(x) : Own(x, i) = Own(s, i)
        BY <1>2, <1>10, <2>3 DEF Own
    <2>5. QED
        BY <2>2, <2>3, <2>4
<1>13. Falling(low)
    <2>1. Falling(st)
        BY DEF Nested, st
    <2>2. QED
        BY <1>1, <1>2, <1>7, <2>1 DEF Falling
<1>14. ASSUME NEW i \in Open(x)
       PROVE  /\ Holds(low, x.treehash[i].next_idx, i, a)
              /\ x.treehash[i].stackusage = Cardinality(Own(x, i))
    <2>1. i \in Open(s) /\ i # k /\ Own(x, i) = Own(s, i) /\ x.treehash[i] = s.treehash[i]
        BY <1>2, <1>10, <1>12
    <2>2. s.treehash[i].stackusage = Cardinality(Own(s, i)) /\ Holds(st, s.treehash[i].next_idx, i, a)
        BY <2>1 DEF Nested, st
    <2>3. ASSUME NEW l \in 0 .. i - 1, Bit(s.treehash[i].next_idx, l) = 1
          PROVE  \E p \in 1 .. Len(low) :
                    low[p] = Slot(NodeAt(a, l, Above(s.treehash[i].next_idx, l) - 1), l)
        <3>1. PICK p \in 1 .. Len(st) :
                     st[p] = Slot(NodeAt(a, l, Above(s.treehash[i].next_idx, l) - 1), l)
            BY <2>2, <2>3 DEF Holds
        <3>2. st[p].level = l
            BY <3>1 DEF Slot
        <3>3. l >= k
            <4>1. l \in Own(s, i)
                BY <2>3 DEF Own, Bits
            <4>2. QED
                BY <1>1, <2>1, <4>1
        <3>4. p \in 1 .. Len(low)
            <4>1. ~(st[p].level < k)
                BY <1>1, <3>2, <3>3
            <4>2. QED
                BY <1>1, <1>2, <1>6, <1>7, <4>1
        <3>5. QED
            BY <1>7, <3>1, <3>4
    <2>4. QED
        BY <2>1, <2>2, <2>3 DEF Holds
<1>15. ASSUME NEW p \in 1 .. Len(low)
       PROVE  \E i \in Open(x) : low[p].level \in Own(x, i)
    <2>1. p \in 1 .. Len(st) /\ p \in 1 .. Len(st) - k /\ low[p] = st[p]
        BY <1>1, <1>2, <1>7
    <2>2. PICK i \in Open(s) : st[p].level \in Own(s, i)
        BY <2>1 DEF Nested, st
    <2>3. i # k
        <3>1. \A l \in Own(s, k) : l \in 0 .. k - 1
            BY DEF Own, Bits
        <3>2. QED
            BY <1>1, <1>5, <2>1, <2>2, <3>1
    <2>4. i \in Open(x)
        BY <1>12, <2>3
    <2>5. Own(x, i) = Own(s, i)
        BY <1>12, <2>4
    <2>6. QED
        BY <2>1, <2>2, <2>4, <2>5
<1>16. ASSUME NEW i \in Open(x), NEW j \in Open(x), i < j, Own(x, i) # {}, NEW l \in Own(x, j)
       PROVE  l >= i
    <2>1. i \in Open(s) /\ j \in Open(s) /\ Own(s, i) # {} /\ l \in Own(s, j)
        BY <1>12, <1>16
    <2>2. QED
        BY <1>16, <2>1 DEF Nested
<1>17. Nested(x, a)
    BY <1>9, <1>13, <1>14, <1>15, <1>16 DEF Nested
<1>18. QED
    BY <1>10, <1>11, <1>12, <1>17 DEF x, k, n, made

\* An instance that goes on replaces the nodes for the ones at the end of its
\* tail leaf by one.
LEMMA GoesOnRight ==
    ASSUME tree_height \in Nat, NEW s \in States, NEW a \in Addresses, Nested(s, a), Open(s) # {},
           NEW t \in Nat, t < Neediest(s), Ones(s.treehash[Neediest(s)].next_idx, t),
           Bit(s.treehash[Neediest(s)].next_idx, t) = 0
    PROVE  LET k == Neediest(s)
               x == GoesOn(s, k, t, a)
           IN  /\ x \in States /\ Nested(x, a) /\ Open(x) = Open(s)
               /\ x.peak = Larger(s.peak, Len(x.stack))
               /\ x.treehash[k].next_idx = s.treehash[k].next_idx + 1
               /\ x.treehash[k].node = s.treehash[k].node
               /\ \A i \in Levels : i # k => x.treehash[i] = s.treehash[i]
<1> DEFINE k == Neediest(s)
           st == s.stack
           n == s.treehash[k].next_idx
           usage == s.treehash[k].stackusage
           high == Carried(st, n, t, a)
           peak == Larger(s.peak, Len(st) - t + 1)
           made == InstanceOf(n + 1, usage - t + 1, s.treehash[k].completed, s.treehash[k].node)
           x == GoesOn(s, k, t, a)
<1>1. /\ k \in Open(s) /\ k \in Levels /\ k \in Nat
      /\ \A i \in Open(s) : /\ i # k => \A l \in Own(s, i) : l >= k
                            /\ i < k => Own(s, i) = {}
    BY OthersAbove
<1>2. /\ DOMAIN s.treehash = Levels /\ Open(s) \subseteq Levels
      /\ n \in Nat /\ st \in Seq(SlotSet) /\ Len(st) \in Nat
      /\ \A i \in Levels : i \notin Open(s) <=> s.treehash[i].completed
    BY <1>1, InstanceTypes
<1>3. /\ s.peak \in Nat /\ s.auth \in [Levels -> NodeSet] /\ s.treehash \in [Levels -> Instances]
      /\ s.keep \in [0 .. (tree_height \div 2) - 1 -> NodeSet] /\ s.next_leaf \in Nat
    BY StateFields
<1>4. OnTop(s, k, a)
    BY Chosen
<1>5. t \in 0 .. k - 1 /\ t \in 0 .. k /\ t < k
    BY <1>1
<1>6. Carries(st, n, k, a) /\ Ones(n, t) /\ Bit(n, t) = 0 /\ usage = Cardinality(Bits(n, k))
    BY <1>4 DEF OnTop
<1>7. /\ Carries(high, n + 1, k, a) /\ Len(high) = Len(st) - t + 1
      /\ \A p \in 1 .. Len(st) - t : high[p] = st[p]
    <2> HIDE DEF k, st, n
    <2>1. QED
        BY <1>1, <1>2, <1>5, <1>6, CarryOver
<1>8. /\ t <= Len(st)
      /\ \A m \in 0 .. t - 1 : st[Len(st) - m] = Slot(NodeAt(a, m, Above(n, m) - 1), m)
    <2> HIDE DEF k, st, n
    <2>1. QED
        BY <1>1, <1>2, <1>5, <1>6, TopOfStack
<1>9. \A p \in Len(st) - t + 1 .. Len(st) : st[p].level < t
    <2>1. SUFFICES ASSUME NEW p \in Len(st) - t + 1 .. Len(st)
                   PROVE  st[p].level < t
        OBVIOUS
    <2> DEFINE m == Len(st) - p
    <2>2. m \in 0 .. t - 1 /\ p = Len(st) - m
        BY <1>2, <1>5, <2>1
    <2> HIDE DEF m, st, k, n
    <2>3. st[Len(st) - m] = Slot(NodeAt(a, m, Above(n, m) - 1), m)
        BY <1>8, <2>2
    <2>4. st[p] = Slot(NodeAt(a, m, Above(n, m) - 1), m)
        BY <2>2, <2>3
    <2>5. st[p].level = m
        BY <2>4 DEF Slot
    <2>6. QED
        BY <2>2, <2>5
<1>10. /\ t <= usage /\ usage \in Nat
       /\ Cardinality(Bits(n + 1, k)) = usage - t + 1
    <2>1. Cardinality(Bits(n, k)) \in Nat
        <3>1. Cardinality(Bits(n, k)) \in 0 .. k
            BY <1>1, <1>2, BitsCount
        <3> HIDE DEF k, n
        <3>2. QED
            BY <1>1, <3>1
    <2> HIDE DEF k, st, n, usage
    <2>2. QED
        BY <1>1, <1>2, <1>5, <1>6, <2>1, BitsCarried
<1>11. /\ made \in Instances /\ made.next_idx = n + 1 /\ made.stackusage = usage - t + 1
       /\ made.completed = s.treehash[k].completed /\ made.node = s.treehash[k].node
    <2>1. s.treehash[k].completed \in BOOLEAN /\ s.treehash[k].node \in NodeSet
        BY <1>1, <1>3 DEF Instances
    <2>2. n + 1 \in Nat /\ usage - t + 1 \in Nat
        <3> HIDE DEF n, usage
        <3>1. QED
            BY <1>2, <1>10
    <2> HIDE DEF n, usage
    <2>3. QED
        BY <2>1, <2>2 DEF Instances, InstanceOf
<1>12. peak \in Nat
    <2> HIDE DEF st
    <2>1. QED
        BY <1>2, <1>3, <1>8 DEF Larger
<1>13. x = StateOf(high, peak, s.auth, s.keep, [s.treehash EXCEPT ![k] = made], s.next_leaf)
    BY DEF GoesOn
<1> HIDE DEF high, peak, made, x, k, st, n, usage
<1>14. /\ x.stack = high /\ x.peak = peak /\ x.auth = s.auth /\ x.keep = s.keep
       /\ x.treehash = [s.treehash EXCEPT ![k] = made] /\ x.next_leaf = s.next_leaf
    BY <1>13 DEF StateOf
<1>15. /\ DOMAIN x.treehash = Levels /\ x.treehash[k] = made
       /\ \A i \in Levels : i # k => x.treehash[i] = s.treehash[i]
       /\ x.treehash \in [Levels -> Instances]
    BY <1>1, <1>3, <1>11, <1>14
<1>16. high \in Seq(SlotSet) /\ Falling(high)
    BY <1>7 DEF Carries
<1>17. x \in States
    BY <1>3, <1>12, <1>13, <1>15, <1>14, <1>16 DEF States, StateOf
<1>18. /\ Open(x) = Open(s)
       /\ \A i \in Open(s) : i # k => Own(x, i) = Own(s, i)
       /\ Own(x, k) = Bits(n + 1, k)
    <2>1. Open(x) = Open(s)
        BY <1>1, <1>2, <1>11, <1>15 DEF Open, k
    <2>2. \A i \in Open(s) : i # k => Own(x, i) = Own(s, i)
        BY <1>2, <1>15 DEF Own
    <2>3. QED
        BY <1>11, <1>15, <2>1, <2>2 DEF Own
<1>19. ASSUME NEW i \in Open(s), i # k
       PROVE  /\ Holds(high, x.treehash[i].next_idx, i, a)
              /\ x.treehash[i].stackusage = Cardinality(Own(x, i))
    <2>1. Own(x, i) = Own(s, i) /\ x.treehash[i] = s.treehash[i]
        BY <1>2, <1>15, <1>18, <1>19
    <2>2. s.treehash[i].stackusage = Cardinality(Own(s, i)) /\ Holds(st, s.treehash[i].next_idx, i, a)
        BY DEF Nested, st
    <2>3. ASSUME NEW l \in 0 .. i - 1, Bit(s.treehash[i].next_idx, l) = 1
          PROVE  \E p \in 1 .. Len(high) :
                    high[p] = Slot(NodeAt(a, l, Above(s.treehash[i].next_idx, l) - 1), l)
        <3>1. PICK p \in 1 .. Len(st) :
                     st[p] = Slot(NodeAt(a, l, Above(s.treehash[i].next_idx, l) - 1), l)
            BY <2>2, <2>3 DEF Holds
        <3>2. st[p].level = l
            BY <3>1 DEF Slot
        <3>3. l >= k
            <4>1. l \in Own(s, i)
                BY <2>3 DEF Own, Bits
            <4>2. QED
                BY <1>1, <1>19, <4>1
        <3>4. p \in 1 .. Len(st) - t
            <4>1. ~(st[p].level < t)
                BY <1>1, <1>5, <3>2, <3>3
            <4>2. QED
                BY <1>2, <1>5, <1>8, <1>9, <4>1
        <3>5. p \in 1 .. Len(high) /\ high[p] = st[p]
            BY <1>2, <1>5, <1>7, <1>8, <3>4
        <3>6. QED
            BY <3>1, <3>5
    <2>4. QED
        BY <2>1, <2>2, <2>3 DEF Holds
<1>20. /\ Holds(high, x.treehash[k].next_idx, k, a)
       /\ x.treehash[k].stackusage = Cardinality(Own(x, k))
    <2>1. Holds(high, n + 1, k, a)
        BY <1>7 DEF Carries
    <2>2. QED
        BY <1>10, <1>11, <1>15, <1>18, <2>1
<1>21. ASSUME NEW p \in 1 .. Len(high)
       PROVE  \E i \in Open(s) : high[p].level \in Own(x, i)
    <2>1. HoldsOnly(high, n + 1, k)
        BY <1>7 DEF Carries
    <2>2. high[p].level \in Nat
        <3>1. \A slot \in SlotSet : slot.level \in Nat
            BY DEF SlotSet
        <3>2. high[p] \in SlotSet
            BY <1>16
        <3>3. QED
            BY <3>1, <3>2
    <2>3. CASE high[p].level < k
        <3>1. Bit(n + 1, high[p].level) = 1
            BY <2>1, <2>3 DEF HoldsOnly
        <3>2. high[p].level \in Own(x, k)
            BY <1>1, <1>18, <2>2, <2>3, <3>1 DEF Bits
        <3>3. QED
            BY <1>1, <3>2
    <2>4. CASE ~(high[p].level < k)
        <3>1. p \in 1 .. Len(st) - t
            <4>1. p # Len(high)
                <5>1. high[Len(high)].level = t
                    <6> DEFINE low == SubSeq(st, 1, Len(st) - t)
                               slot == Slot(NodeAt(a, t, Above(n, t)), t)
                    <6>1. high = Append(low, slot)
                        BY DEF high, Carried
                    <6>2. low \in Seq(SlotSet) /\ Len(low) \in Nat
                        BY <1>2, <1>5, <1>8
                    <6>3. slot.level = t
                        BY DEF Slot
                    <6> HIDE DEF low, slot
                    <6>4. QED
                        BY <6>1, <6>2, <6>3
                <5>2. QED
                    BY <1>5, <2>4, <5>1
            <4>2. p \in 1 .. Len(high) /\ Len(high) = Len(st) - t + 1
                BY <1>7
            <4>3. QED
                BY <1>2, <1>5, <1>8, <4>1, <4>2
        <3>2. high[p] = st[p] /\ p \in 1 .. Len(st)
            BY <1>2, <1>5, <1>7, <1>8, <3>1
        <3>3. PICK i \in Open(s) : st[p].level \in Own(s, i)
            BY <3>2 DEF Nested, st
        <3>4. i # k
            <4>1. \A l \in Own(s, k) : l \in 0 .. k - 1
                BY DEF Own, Bits
            <4>2. QED
                BY <1>1, <2>4, <3>2, <3>3, <4>1
        <3>5. Own(x, i) = Own(s, i)
            BY <1>18, <3>4
        <3>6. QED
            BY <3>2, <3>3, <3>5
    <2>5. QED
        BY <2>3, <2>4
<1>22. ASSUME NEW i \in Open(s), NEW j \in Open(s), i < j, Own(x, i) # {}, NEW l \in Own(x, j)
       PROVE  l >= i
    <2>1. CASE i = k
        <3>1. j # k /\ Own(x, j) = Own(s, j)
            BY <1>1, <1>18, <1>22, <2>1
        <3>2. QED
            BY <1>1, <1>22, <2>1, <3>1
    <2>2. CASE j = k
        <3>1. i # k /\ Own(x, i) = Own(s, i)
            BY <1>1, <1>18, <1>22, <2>2
        <3>2. QED
            BY <1>1, <1>22, <2>2, <3>1
    <2>3. CASE i # k /\ j # k
        <3>1. Own(x, i) = Own(s, i) /\ Own(x, j) = Own(s, j)
            BY <1>18, <2>3
        <3>2. QED
            BY <1>22, <3>1 DEF Nested
    <2>4. QED
        BY <2>1, <2>2, <2>3
<1>23. Nested(x, a)
    <2>1. \A i \in Open(s) : /\ Holds(high, x.treehash[i].next_idx, i, a)
                             /\ x.treehash[i].stackusage = Cardinality(Own(x, i))
        BY <1>19, <1>20
    <2>2. QED
        BY <1>14, <1>16, <1>18, <1>21, <1>22, <2>1 DEF Nested
<1>24. x.peak = Larger(s.peak, Len(x.stack))
    BY <1>7, <1>14 DEF peak
<1>25. x.treehash[k].next_idx = s.treehash[k].next_idx + 1 /\ x.treehash[k].node = s.treehash[k].node
    BY <1>11, <1>15 DEF n
<1>26. QED
    BY <1>15, <1>17, <1>18, <1>23, <1>24, <1>25 DEF x, k

\* An update of instance k: it got its node from its last leaf, or is one leaf
\* further.
Updated(r, x, k, a) ==
    \/ Ones(r.next_idx, k) /\ x = CompletedOf(r.next_idx, NodeAt(a, k, Above(r.next_idx, k)))
    \/ /\ ~Ones(r.next_idx, k) /\ x.next_idx = r.next_idx + 1
       /\ x.completed = r.completed /\ x.node = r.node

\* What an update leaves alone: everything but one instance and the stack.
LEMMA UpdateRight ==
    ASSUME tree_height \in Nat, NEW s \in States, NEW a \in Addresses, Nested(s, a), Open(s) # {}
    PROVE  LET k == Neediest(s)
               x == treehash_update(s, k, a)
           IN  /\ x \in States /\ Nested(x, a)
               /\ x.auth = s.auth /\ x.keep = s.keep /\ x.next_leaf = s.next_leaf
               /\ s.peak <= tree_height => x.peak <= tree_height
               /\ Updated(s.treehash[k], x.treehash[k], k, a)
               /\ \A i \in Levels : i # k => x.treehash[i] = s.treehash[i]
<1> DEFINE k == Neediest(s)
           n == s.treehash[k].next_idx
           x == treehash_update(s, k, a)
<1>1. k \in Open(s) /\ k \in Levels /\ k \in Nat
    BY OthersAbove
<1>2. n \in Nat /\ \A i \in Levels : i \notin Open(s) <=> s.treehash[i].completed
    BY <1>1, InstanceTypes
<1>3. OnTop(s, k, a)
    BY Chosen
<1>4. CASE Ones(n, k)
    <2> DEFINE y == Done(s, k, a)
    <2>1. /\ y \in States /\ Nested(y, a)
          /\ y.treehash[k] = CompletedOf(n, NodeAt(a, k, Above(n, k)))
          /\ \A i \in Levels : i # k => y.treehash[i] = s.treehash[i]
        BY <1>4, DoneRight
    <2>2. x = y
        <3>1. k \in 0 .. k /\ (k < k => Bit(n, k) = 0)
            BY <1>1
        <3>2. QED
            BY <1>1, <1>3, <1>4, <3>1, UpdatedTo
    <2>3. y.auth = s.auth /\ y.keep = s.keep /\ y.next_leaf = s.next_leaf /\ y.peak = s.peak
        BY DEF Done, StateOf
    <2> HIDE DEF x, y, k, n
    <2>4. Updated(s.treehash[k], y.treehash[k], k, a)
        BY <1>4, <2>1 DEF Updated, n
    <2>5. QED
        BY <2>1, <2>2, <2>3, <2>4 DEF x, k
<1>5. CASE ~Ones(n, k)
    <2>1. PICK t \in 0 .. k - 1 : Ones(n, t) /\ Bit(n, t) = 0
        BY <1>1, <1>2, <1>5, FirstZero
    <2>2. t \in Nat /\ t < k /\ t \in 0 .. k
        BY <1>1, <2>1
    <2> DEFINE y == GoesOn(s, k, t, a)
    <2>3. /\ y \in States /\ Nested(y, a) /\ y.peak = Larger(s.peak, Len(y.stack))
          /\ y.treehash[k].next_idx = n + 1
          /\ y.treehash[k].node = s.treehash[k].node
          /\ \A i \in Levels : i # k => y.treehash[i] = s.treehash[i]
          /\ Open(y) = Open(s)
        BY <2>1, <2>2, GoesOnRight
    <2>4. x = y
        BY <1>1, <1>3, <2>1, <2>2, UpdatedTo
    <2>5. y.auth = s.auth /\ y.keep = s.keep /\ y.next_leaf = s.next_leaf
        BY DEF GoesOn, StateOf
    <2> HIDE DEF x, y, k, n
    <2>6. y.treehash[k].completed = s.treehash[k].completed
        <3>1. \A i \in Levels : /\ y.treehash[i].completed \in BOOLEAN
                                /\ i \notin Open(y) <=> y.treehash[i].completed
            BY <2>3, InstanceTypes
        <3>2. s.treehash[k].completed \in BOOLEAN
            BY <1>1, InstanceTypes
        <3>3. QED
            BY <1>1, <1>2, <2>3, <3>1, <3>2
    <2>7. s.peak <= tree_height => y.peak <= tree_height
        <3>1. Len(y.stack) <= tree_height
            BY <2>3, StackLevels
        <3>2. QED
            BY <2>3, <3>1 DEF Larger
    <2>8. Updated(s.treehash[k], y.treehash[k], k, a)
        BY <1>5, <2>3, <2>6 DEF Updated, n
    <2>9. QED
        BY <2>3, <2>4, <2>5, <2>7, <2>8 DEF x, k
<1>6. QED
    BY <1>4, <1>5

-----------------------------------------------------------------------------
(* What the instances must have ready, and the updates they wait for *)

\* While leaf n is next, instance i prepares the right sibling that the path
\* takes from it last: the second node after the one above n, or the third.
Target(n, i) == 2 * Above(n, i + 1) + 3
Needed(h, n, i) == Target(n, i) < 2 ^ (h - i)
InTree(h, node, a) == node = NoNode \/ \E l \in 0 .. h, m \in 0 .. 2 ^ h - 1 : node = NodeAt(a, l, m)
InstanceRight(h, r, n, i, a) ==
    /\ r.next_idx < 2 ^ h /\ InTree(h, r.node, a)
    /\ r.completed => r.stackusage = 0 /\ (Needed(h, n, i) => r.node = NodeAt(a, i, Target(n, i)))
    /\ ~r.completed => Needed(h, n, i) /\ Above(r.next_idx, i) = Target(n, i) /\ i <= h - 3

\* The number of leaves an instance still needs, and what it costs instance i
\* to wait for instance k, in half updates: two for each update that k gets
\* first, and as many as were saved since k was restarted.
Left(r, k) == IF r.completed THEN 0 ELSE 2 ^ k - Below(r.next_idx, k)
Cost(r, n, i, k) ==
    IF k < i THEN 2 * Left(r, k) + Below(n, k + 1)
    ELSE IF k = i THEN 2 * Left(r, k) + 2 * Below(n, k + 1)
    ELSE IF r.completed \/ Below(r.next_idx, i) = 0 THEN 0
    ELSE 2 * (2 ^ i - Below(r.next_idx, i))
Costs(h, s, n, i) == [k \in 1 .. h |-> Cost(s.treehash[k - 1], n, i, k - 1)]
Total(h, s, n, i) == AddUp(Costs(h, s, n, i))

\* An update of an open instance keeps it right.
LEMMA UpdateKeepsRight ==
    ASSUME NEW h \in Nat, NEW n \in Nat, NEW i \in 0 .. h - 1, NEW a, NEW r \in Instances, NEW x,
           InstanceRight(h, r, n, i, a), ~r.completed, Updated(r, x, i, a)
    PROVE  InstanceRight(h, x, n, i, a)
<1>1. /\ r.next_idx \in Nat /\ i \in Nat /\ i \in 0 .. h /\ r.completed = FALSE
    BY DEF Instances
<1>2. /\ r.next_idx < 2 ^ h /\ InTree(h, r.node, a)
      /\ Needed(h, n, i) /\ Above(r.next_idx, i) = Target(n, i) /\ i <= h - 3
    BY DEF InstanceRight
<1>3. Target(n, i) < 2 ^ (h - i) /\ Target(n, i) \in Nat
    <2>1. i + 1 \in Nat
        BY <1>1
    <2>2. Above(n, i + 1) \in Nat
        BY <2>1, AboveType
    <2>3. QED
        BY <1>2, <2>2 DEF Needed, Target
<1>4. CASE Ones(r.next_idx, i)
    <2> DEFINE m == Target(n, i)
    <2>1. x = CompletedOf(r.next_idx, NodeAt(a, i, m))
        BY <1>2, <1>4 DEF Updated
    <2>2. 2 ^ (h - i) <= 2 ^ h
        <3>1. h - i \in Nat /\ h - i <= h
            BY <1>1
        <3>2. QED
            BY <3>1, PowersGrow
    <2>3. 2 ^ h \in Nat /\ 2 ^ (h - i) \in Nat
        <3>1. h - i \in Nat
            BY <1>1
        <3>2. QED
            BY <3>1, Powers
    <2>4. m \in 0 .. 2 ^ h - 1
        BY <1>3, <2>2, <2>3
    <2> HIDE DEF m
    <2>5. InTree(h, NodeAt(a, i, m), a)
        BY <1>1, <2>4 DEF InTree
    <2>6. /\ x.next_idx = r.next_idx /\ x.node = NodeAt(a, i, m) /\ x.completed = TRUE
          /\ x.stackusage = 0
        BY <2>1 DEF CompletedOf, InstanceOf
    <2>7. QED
        BY <1>2, <2>5, <2>6 DEF InstanceRight, m
<1>5. CASE ~Ones(r.next_idx, i)
    <2>1. /\ x.next_idx = r.next_idx + 1
          /\ x.completed = FALSE /\ x.node = r.node
        BY <1>1, <1>5 DEF Updated
    <2>2. Above(r.next_idx + 1, i) = Target(n, i)
        BY <1>1, <1>2, <1>5, NextLeaf
    <2>3. r.next_idx + 1 < 2 ^ h
        <3>1. r.next_idx + 1 \in Nat
            BY <1>1
        <3>2. QED
            BY <1>1, <1>3, <2>2, <3>1, AboveInTree
    <2>4. QED
        BY <1>2, <2>1, <2>2, <2>3 DEF InstanceRight
<1>6. QED
    BY <1>4, <1>5

\* What is waited for is a number.
LEMMA CostType ==
    ASSUME NEW r \in Instances, NEW n \in Nat, NEW i \in Nat, NEW k \in Nat
    PROVE  /\ Left(r, k) \in 0 .. 2 ^ k /\ Cost(r, n, i, k) \in Nat
           /\ ~r.completed => Left(r, k) >= 1
           /\ k > i => Cost(r, n, i, k) <= 2 * (2 ^ i - 1)
<1>1. r.next_idx \in Nat /\ r.completed \in BOOLEAN /\ k + 1 \in Nat
    BY DEF Instances
<1>2. /\ Below(r.next_idx, k) \in 0 .. 2 ^ k - 1 /\ Below(r.next_idx, i) \in 0 .. 2 ^ i - 1
      /\ Below(n, k + 1) \in 0 .. 2 ^ (k + 1) - 1
    BY <1>1, OneUp
<1>3. 2 ^ k \in Nat \ {0} /\ 2 ^ i \in Nat \ {0} /\ 2 ^ (k + 1) \in Nat \ {0}
    BY <1>1, Powers
<1> DEFINE pk == 2 ^ k
           pi == 2 ^ i
           pn == 2 ^ (k + 1)
           bk == Below(r.next_idx, k)
           bi == Below(r.next_idx, i)
           bn == Below(n, k + 1)
<1>4. /\ bk \in 0 .. pk - 1 /\ bi \in 0 .. pi - 1 /\ bn \in 0 .. pn - 1
      /\ pk \in Nat \ {0} /\ pi \in Nat \ {0} /\ pn \in Nat \ {0}
    BY <1>2, <1>3
<1>5. /\ Left(r, k) = IF r.completed THEN 0 ELSE pk - bk
      /\ Cost(r, n, i, k) = IF k < i THEN 2 * Left(r, k) + bn
                            ELSE IF k = i THEN 2 * Left(r, k) + 2 * bn
                            ELSE IF r.completed \/ bi = 0 THEN 0 ELSE 2 * (pi - bi)
    BY DEF Left, Cost
<1> HIDE DEF pk, pi, pn, bk, bi, bn
<1>6. Left(r, k) \in 0 .. pk /\ (~r.completed => Left(r, k) >= 1)
    BY <1>4, <1>5
<1>7. Cost(r, n, i, k) \in Nat /\ (k > i => Cost(r, n, i, k) <= 2 * (pi - 1))
    BY <1>4, <1>5, <1>6
<1>8. QED
    BY <1>6, <1>7 DEF pk, pi

\* Each update brings it down by one update.
LEMMA CostFalls ==
    ASSUME NEW r \in Instances, NEW n \in Nat, NEW i \in Nat, NEW k \in Nat, NEW a, NEW x,
           ~r.completed, Updated(r, x, k, a), i < k => \E l \in Bits(r.next_idx, k) : l < i
    PROVE  Cost(x, n, i, k) = Cost(r, n, i, k) - 2
<1> DEFINE m == r.next_idx
<1>1. m \in Nat /\ m + 1 \in Nat /\ r.completed = FALSE
    BY DEF Instances
<1>2. i < k => Below(m, i) # 0
    <2>1. SUFFICES ASSUME i < k
                   PROVE  Below(m, i) # 0
        OBVIOUS
    <2>2. PICK l \in Bits(m, k) : l < i
        BY <2>1
    <2>3. l \in 0 .. i - 1 /\ Bit(m, l) = 1
        BY <2>2 DEF Bits
    <2> HIDE DEF m
    <2>4. QED
        BY <1>1, <2>3, ZerosBelow
<1>3. Below(m, k) \in 0 .. 2 ^ k - 1 /\ Below(m, i) \in 0 .. 2 ^ i - 1
    BY <1>1, OneUp
<1>4. 2 ^ k \in Nat \ {0} /\ 2 ^ i \in Nat \ {0}
    BY Powers
<1>5. i < k /\ Ones(m, k) => Ones(m, i)
    BY DEF Ones
<1>6. Below(n, k + 1) \in Nat
    <2>1. k + 1 \in Nat /\ 2 ^ (k + 1) \in Nat
        BY Powers
    <2>2. Below(n, k + 1) \in 0 .. 2 ^ (k + 1) - 1
        BY <2>1, OneUp
    <2>3. QED
        BY <2>1, <2>2
<1> DEFINE pk == 2 ^ k
           pi == 2 ^ i
           bn == Below(n, k + 1)
<1>7. CASE Ones(m, k)
    <2>1. x.completed = TRUE
        BY <1>7 DEF Updated, CompletedOf, InstanceOf
    <2>2. Below(m, k) = pk - 1
        BY <1>1, <1>7, OnesBelow
    <2>3. i < k => Below(m, i) = pi - 1
        BY <1>1, <1>5, <1>7, OnesBelow
    <2>4. Cost(x, n, i, k) = IF k < i THEN 2 * 0 + bn ELSE IF k = i THEN 2 * 0 + 2 * bn ELSE 0
        BY <2>1 DEF Left, Cost
    <2>5. Cost(r, n, i, k) = IF k < i THEN 2 * (pk - Below(m, k)) + bn
                             ELSE IF k = i THEN 2 * (pk - Below(m, k)) + 2 * bn
                             ELSE IF Below(m, i) = 0 THEN 0 ELSE 2 * (pi - Below(m, i))
        BY <1>1 DEF Left, Cost
    <2>6. pk \in Nat /\ pi \in Nat /\ bn \in Nat
        BY <1>4, <1>6
    <2> HIDE DEF pk, pi, bn, m
    <2>7. QED
        BY <1>2, <2>2, <2>3, <2>4, <2>5, <2>6
<1>8. CASE ~Ones(m, k)
    <2>1. x.completed = FALSE /\ x.next_idx = m + 1
        BY <1>1, <1>8 DEF Updated
    <2>2. Below(m + 1, k) = Below(m, k) + 1
        BY <1>1, <1>8, NextLeaf
    <2>3. /\ Ones(m, i) => Below(m + 1, i) = 0 /\ Below(m, i) = pi - 1
          /\ ~Ones(m, i) => Below(m + 1, i) = Below(m, i) + 1
        BY <1>1, NextLeaf, OnesBelow
    <2> DEFINE bk == Below(m + 1, k)
               bi == Below(m + 1, i)
    <2>4. Cost(x, n, i, k) = IF k < i THEN 2 * (pk - bk) + bn
                             ELSE IF k = i THEN 2 * (pk - bk) + 2 * bn
                             ELSE IF bi = 0 THEN 0 ELSE 2 * (pi - bi)
        BY <2>1 DEF Left, Cost
    <2>5. Cost(r, n, i, k) = IF k < i THEN 2 * (pk - Below(m, k)) + bn
                             ELSE IF k = i THEN 2 * (pk - Below(m, k)) + 2 * bn
                             ELSE IF Below(m, i) = 0 THEN 0 ELSE 2 * (pi - Below(m, i))
        BY <1>1 DEF Left, Cost
    <2>6. pk \in Nat /\ pi \in Nat /\ bn \in Nat
        BY <1>4, <1>6
    <2>7. /\ bk = Below(m, k) + 1
          /\ Ones(m, i) => bi = 0 /\ Below(m, i) = pi - 1
          /\ ~Ones(m, i) => bi = Below(m, i) + 1
          /\ Below(m, i) \in 0 .. pi - 1 /\ Below(m, k) \in 0 .. pk - 1
        BY <1>3, <2>2, <2>3
    <2> HIDE DEF pk, pi, bn, bk, bi, m
    <2>8. QED
        BY <1>2, <2>4, <2>5, <2>6, <2>7
<1>9. QED
    BY <1>7, <1>8

\* What every update of a state keeps, and what the state is after the updates
\* of one leaf: an instance that is still open waits for that many less.
Sound(h, s, n, a) ==
    /\ Nested(s, a) /\ s.peak <= h /\ s.next_leaf = 0
    /\ \A i \in 0 .. h - 1 : InstanceRight(h, s.treehash[i], n, i, a)

\* The sum that an instance waits for is one of numbers.
LEMMA CostsType ==
    ASSUME tree_height \in Nat, NEW s \in States, NEW n \in Nat, NEW i \in Nat
    PROVE  /\ Costs(tree_height, s, n, i) \in [1 .. tree_height -> Int]
           /\ \A k \in 1 .. tree_height :
                /\ Costs(tree_height, s, n, i)[k] = Cost(s.treehash[k - 1], n, i, k - 1)
                /\ k - 1 \in Levels /\ k - 1 \in Nat /\ s.treehash[k - 1] \in Instances
<1>1. s.treehash \in [Levels -> Instances]
    BY StateFields
<1>2. ASSUME NEW k \in 1 .. tree_height
      PROVE  /\ Cost(s.treehash[k - 1], n, i, k - 1) \in Int
             /\ k - 1 \in Levels /\ k - 1 \in Nat /\ s.treehash[k - 1] \in Instances
    <2>1. k - 1 \in Levels /\ k - 1 \in Nat
        BY DEF Levels
    <2>2. s.treehash[k - 1] \in Instances
        BY <1>1, <2>1
    <2>3. Cost(s.treehash[k - 1], n, i, k - 1) \in Nat
        BY <2>1, <2>2, CostType
    <2>4. QED
        BY <2>1, <2>2, <2>3
<1>3. QED
    BY <1>2 DEF Costs

\* One update more.
LEMMA TotalFalls ==
    ASSUME tree_height \in Nat, NEW s \in States, NEW a \in Addresses, NEW n \in Nat,
           Sound(tree_height, s, n, a), Open(s) # {}
    PROVE  LET x == treehash_update(s, Neediest(s), a)
           IN  /\ x \in States /\ Sound(tree_height, x, n, a)
               /\ x.auth = s.auth /\ x.keep = s.keep
               /\ \A i \in Open(x) :
                    i \in Open(s) /\ Total(tree_height, x, n, i) <= Total(tree_height, s, n, i) - 2
<1> DEFINE k == Neediest(s)
           x == treehash_update(s, k, a)
           h == tree_height
<1>1. k \in Open(s) /\ k \in Levels /\ k \in Nat
    BY OthersAbove DEF Sound
<1>2. /\ x \in States /\ Nested(x, a)
      /\ x.auth = s.auth /\ x.keep = s.keep /\ x.next_leaf = s.next_leaf
      /\ s.peak <= tree_height => x.peak <= tree_height
      /\ Updated(s.treehash[k], x.treehash[k], k, a)
      /\ \A i \in Levels : i # k => x.treehash[i] = s.treehash[i]
    BY UpdateRight DEF Sound
<1>3. \A i \in Open(s) : i < k => \E l \in Own(s, k) : l < i
    BY Chosen DEF Sound
<1>4. /\ Open(s) \subseteq Levels /\ Open(x) \subseteq Levels
      /\ \A i \in Levels : /\ i \in Nat /\ s.treehash[i] \in Instances /\ s.treehash[i].completed \in BOOLEAN
                           /\ i \notin Open(s) <=> s.treehash[i].completed
                           /\ i \notin Open(x) <=> x.treehash[i].completed
    <2>1. x \in States
        BY <1>2
    <2> HIDE DEF x
    <2>2. QED
        BY <2>1, InstanceTypes
<1> HIDE DEF x, k
<1>5. \A i \in Levels : InstanceRight(h, x.treehash[i], n, i, a)
    <2>1. SUFFICES ASSUME NEW i \in Levels
                   PROVE  InstanceRight(h, x.treehash[i], n, i, a)
        OBVIOUS
    <2>2. InstanceRight(h, s.treehash[i], n, i, a) /\ i \in 0 .. h - 1
        BY DEF Sound, Levels
    <2>3. CASE i = k
        <3>1. ~s.treehash[k].completed /\ s.treehash[k] \in Instances
            BY <1>1, <1>4
        <3>2. QED
            BY <1>2, <2>2, <2>3, <3>1, UpdateKeepsRight
    <2>4. CASE i # k
        BY <1>2, <2>2, <2>4
    <2>5. QED
        BY <2>3, <2>4
<1>6. Sound(h, x, n, a)
    BY <1>2, <1>5 DEF Sound, Levels
<1>7. ASSUME NEW i \in Open(x)
      PROVE  i \in Open(s) /\ Total(h, x, n, i) <= Total(h, s, n, i) - 2
    <2>1. i \in Levels /\ i \in Nat
        BY <1>4
    <2>2. i \in Open(s)
        <3>1. i # k => x.treehash[i] = s.treehash[i]
            BY <1>2, <2>1
        <3>2. QED
            BY <1>1, <1>4, <2>1, <3>1
    <2> DEFINE f == Costs(h, s, n, i)
               g == Costs(h, x, n, i)
               c == [j \in 0 .. h |-> IF j <= k THEN 0 ELSE 0 - 2]
    <2>3. /\ f \in [1 .. h -> Int] /\ g \in [1 .. h -> Int]
          /\ \A j \in 1 .. h : /\ f[j] = Cost(s.treehash[j - 1], n, i, j - 1)
                               /\ g[j] = Cost(x.treehash[j - 1], n, i, j - 1)
                               /\ j - 1 \in Levels
        <3>1. tree_height \in Nat /\ s \in States /\ x \in States /\ n \in Nat /\ i \in Nat
            BY <1>2, <2>1
        <3>2. /\ f \in [1 .. h -> Int]
              /\ \A j \in 1 .. h : f[j] = Cost(s.treehash[j - 1], n, i, j - 1) /\ j - 1 \in Levels
            BY ONLY <3>1, CostsType, ZenonT(30)
        <3>3. /\ g \in [1 .. h -> Int]
              /\ \A j \in 1 .. h : g[j] = Cost(x.treehash[j - 1], n, i, j - 1)
            BY ONLY <3>1, CostsType, ZenonT(30)
        <3>4. QED
            BY ONLY <3>2, <3>3
    <2>4. Cost(x.treehash[k], n, i, k) = Cost(s.treehash[k], n, i, k) - 2
        <3>1. ~s.treehash[k].completed /\ s.treehash[k] \in Instances
            BY <1>1, <1>4
        <3>2. i < k => \E l \in Bits(s.treehash[k].next_idx, k) : l < i
            BY <1>3, <2>2 DEF Own
        <3>3. QED
            BY <1>1, <1>2, <2>1, <3>1, <3>2, CostFalls
    <2>5. c \in [0 .. h -> Int] /\ c[0] = 0 /\ c[h] = 0 - 2 /\ h \in Nat
        BY <1>1 DEF Levels
    <2>6. ASSUME NEW j \in 1 .. h
          PROVE  g[j] - f[j] <= c[j] - c[j - 1]
        <3>1. f[j] \in Int /\ g[j] \in Int /\ j \in 0 .. h /\ j - 1 \in 0 .. h
            BY <2>3
        <3>2. CASE j - 1 = k
            <4>1. c[j] = 0 - 2 /\ c[j - 1] = 0
                BY <1>1, <3>1, <3>2
            <4>2. g[j] = f[j] - 2
                BY <2>3, <2>4, <3>2
            <4> HIDE DEF f, g, c
            <4>3. QED
                BY <3>1, <4>1, <4>2
        <3>3. CASE j - 1 # k
            <4>1. c[j] = c[j - 1] /\ c[j] \in Int
                BY <1>1, <3>1, <3>3
            <4>2. g[j] = f[j]
                BY <1>2, <2>3, <3>3
            <4> HIDE DEF f, g, c
            <4>3. QED
                BY <3>1, <4>1, <4>2
        <3>4. QED
            BY <3>2, <3>3
    <2> HIDE DEF f, g, c
    <2>7. Bounded(h, f, g, c)
        BY <2>6 DEF Bounded
    <2>8. AddUp(f) \in Int /\ AddUp(g) \in Int /\ AddUp(g) - AddUp(f) <= c[h] - c[0]
        BY <2>3, <2>5, <2>7, SumDifference
    <2>9. AddUp(g) <= AddUp(f) - 2
        BY <2>5, <2>8
    <2>10. QED
        BY <2>2, <2>9 DEF f, g, Total
<1>8. QED
    BY <1>2, <1>6, <1>7 DEF x, k

\* A total is a number.
LEMMA TotalType ==
    ASSUME tree_height \in Nat, NEW s \in States, NEW n \in Nat, NEW i \in Nat
    PROVE  Total(tree_height, s, n, i) \in Int
<1> DEFINE h == tree_height
           f == Costs(h, s, n, i)
           c == [k \in 0 .. h |-> 0]
<1>1. f \in [1 .. h -> Int] /\ h \in Nat
    BY CostsType
<1>2. c \in [0 .. h -> Int] /\ \A k \in 1 .. h : c[k] - c[k - 1] = 0
    <2>1. \A k \in 1 .. h : k \in 0 .. h /\ k - 1 \in 0 .. h
        BY <1>1
    <2>2. QED
        BY <2>1
<1> HIDE DEF f, c
<1>3. Bounded(h, f, f, c)
    <2>1. \A k \in 1 .. h : f[k] \in Int
        BY <1>1
    <2>2. \A k \in 1 .. h : f[k] - f[k] <= c[k] - c[k - 1]
        BY <1>2, <2>1
    <2>3. QED
        BY <2>2 DEF Bounded
<1>4. AddUp(f) \in Int
    BY <1>1, <1>2, <1>3, SumDifference
<1>5. QED
    BY <1>4 DEF f, Total

UpdateOp(a, k, j) == UpdateOne(k, a)
Updates == INSTANCE SequenceFolds WITH op <- UpdateOp

\* What m updates make of the state: whatever is still open has waited for
\* each of them.
After(h, s, x, n, a, m) ==
    /\ x \in States /\ Sound(h, x, n, a) /\ x.auth = s.auth /\ x.keep = s.keep
    /\ \A i \in Open(x) : i \in Open(s) /\ Total(h, x, n, i) <= Total(h, s, n, i) - 2 * m

\* One update more.
LEMMA UpdateAfter ==
    ASSUME tree_height \in Nat, NEW s \in States, NEW a \in Addresses, NEW n \in Nat, NEW m \in Nat,
           NEW k, After(tree_height, s, k.state, n, a, m)
    PROVE  After(tree_height, s, UpdateOne(k, a).state, n, a, m + 1)
<1> DEFINE x == k.state
           y == treehash_update(x, Neediest(x), a)
           h == tree_height
<1>1. /\ x \in States /\ Sound(h, x, n, a) /\ x.auth = s.auth /\ x.keep = s.keep
      /\ \A i \in Open(x) : i \in Open(s) /\ Total(h, x, n, i) <= Total(h, s, n, i) - 2 * m
    BY DEF After
<1>2. CASE Open(x) = {}
    <2>1. UpdateOne(k, a).state = x
        <3>1. Waiting(x) = {}
            <4>1. \A i \in Levels : i \notin Open(x)
                BY <1>2
            <4>2. \A i \in Levels : Need(x, i) = tree_height
                BY <1>1, <4>1, NeedOf DEF Sound
            <4>3. QED
                BY <4>2 DEF Waiting
        <3>2. QED
            BY <3>1 DEF UpdateOne
    <2>2. QED
        BY <1>1, <1>2, <2>1 DEF After
<1>3. CASE Open(x) # {}
    <2>1. Waiting(x) # {}
        BY <1>1, <1>3, LeastNeed DEF Sound
    <2>2. UpdateOne(k, a).state = y
        BY <2>1 DEF UpdateOne
    <2>3. /\ y \in States /\ Sound(h, y, n, a) /\ y.auth = x.auth /\ y.keep = x.keep
          /\ \A i \in Open(y) : i \in Open(x) /\ Total(h, y, n, i) <= Total(h, x, n, i) - 2
        <3> HIDE DEF x
        <3>1. QED
            BY <1>1, <1>3, TotalFalls DEF y
    <2> HIDE DEF x, y
    <2>4. ASSUME NEW i \in Open(y)
          PROVE  i \in Open(s) /\ Total(h, y, n, i) <= Total(h, s, n, i) - 2 * (m + 1)
        <3>1. /\ i \in Open(x) /\ i \in Open(s)
              /\ Total(h, y, n, i) <= Total(h, x, n, i) - 2
              /\ Total(h, x, n, i) <= Total(h, s, n, i) - 2 * m
            BY <1>1, <2>3
        <3>2. i \in Nat
            BY <3>1, InstanceTypes
        <3>3. Total(h, y, n, i) \in Int /\ Total(h, x, n, i) \in Int /\ Total(h, s, n, i) \in Int
            BY <1>1, <2>3, <3>2, TotalType
        <3>4. QED
            BY <3>1, <3>3
    <2>5. QED
        BY <1>1, <2>2, <2>3, <2>4 DEF After
<1>4. QED
    BY <1>2, <1>3

\* All of them.
LEMMA UpdatesRight ==
    ASSUME tree_height \in Nat, NEW s \in States, NEW a \in Addresses, NEW n \in Nat, NEW m \in Nat,
           Sound(tree_height, s, n, a)
    PROVE  After(tree_height, s, bds_treehash_update(s, m, a).state, n, a, m)
<1> DEFINE seq == [j \in 1 .. m |-> j]
           base == [state |-> s, left |-> m]
           end == bds_treehash_update(s, m, a)
           h == tree_height
<1>1. DOMAIN seq = 1 .. m
    OBVIOUS
<1>2. Updates!Fold(a, base, seq) = end
    <2>1. end = FoldLeft(LAMBDA k, j : UpdateOne(k, a), base,
                         [j \in 1 .. (IF m < 0 THEN Leaves ELSE m) |-> j])
        BY DEF bds_treehash_update
    <2>2. (IF m < 0 THEN Leaves ELSE m) = m
        OBVIOUS
    <2>3. end = FoldLeft(LAMBDA k, j : UpdateOne(k, a), base, seq)
        BY <2>1, <2>2
    <2> HIDE DEF end, base, seq
    <2>4. QED
        BY <2>3 DEF Updates!Fold, UpdateOp, FoldLeft, MapThenFoldSet, Max,
                    Updates!FoldLeft, Updates!MapThenFoldSet, Updates!Max
<1>3. base.state = s
    OBVIOUS
<1> HIDE DEF seq, base, end
<1>4. m \in Nat /\ DOMAIN seq = 1 .. m /\ Updates!Fold(a, base, seq) = end
    BY <1>1, <1>2
<1>5. PICK fold : /\ fold[0] = base
                  /\ \A k \in 1 .. m : fold[k] = UpdateOp(a, fold[k - 1], seq[k])
                  /\ fold[m] = end
    <2>1. PICK fold : Updates!IsFold(fold, a, base, seq, m)
        BY ONLY <1>4, Updates!FoldExists
    <2>2. QED
        BY <1>4, <2>1 DEF Updates!IsFold
<1>6. \A k \in 1 .. m : fold[k] = UpdateOne(fold[k - 1], a)
    BY <1>5 DEF UpdateOp
<1> DEFINE S == {k \in Nat : k <= m => After(h, s, fold[k].state, n, a, k)}
<1>7. 0 \in S
    <2>1. \A i \in Open(s) : Total(h, s, n, i) <= Total(h, s, n, i) - 2 * 0
        <3>1. \A i \in Open(s) : i \in Nat
            BY InstanceTypes
        <3>2. \A i \in Open(s) : Total(h, s, n, i) \in Int
            BY <3>1, TotalType
        <3>3. QED
            BY <3>2
    <2>2. After(h, s, s, n, a, 0)
        BY <2>1 DEF After
    <2>3. QED
        BY <1>3, <1>5, <2>2
<1>8. ASSUME NEW k \in Nat, k \in S
      PROVE  k + 1 \in S
    <2>1. ASSUME k + 1 <= m
          PROVE  After(h, s, fold[k + 1].state, n, a, k + 1)
        <3>1. k + 1 \in 1 .. m /\ (k + 1) - 1 = k /\ k <= m
            BY <2>1
        <3>2. fold[k + 1] = UpdateOne(fold[k], a)
            BY <1>6, <3>1
        <3>3. After(h, s, fold[k].state, n, a, k)
            BY <1>8, <3>1
        <3>4. QED
            BY <3>2, <3>3, UpdateAfter
    <2>2. QED
        BY <2>1
<1>9. m \in S
    <2> HIDE DEF S
    <2>1. QED
        BY <1>7, <1>8, Sums!InductionOnNat
<1>10. QED
    BY <1>5, <1>9 DEF end

-----------------------------------------------------------------------------
(* A round *)

\* The first zero of a leaf is its tau.
LEMMA TauIs ==
    ASSUME tree_height \in Nat, NEW n \in Nat, NEW t \in 0 .. tree_height - 1, Ones(n, t), Bit(n, t) = 0
    PROVE  Tau(n) = t
<1> DEFINE Q(u) == (\A i \in 0 .. u - 1 : Bit(n, i) = 1) /\ (u < tree_height => Bit(n, u) = 0)
<1>1. t \in 0 .. tree_height /\ t \in Nat /\ Q(t)
    BY DEF Ones
<1>2. ASSUME NEW u \in 0 .. tree_height, Q(u)
      PROVE  u = t
    <2>1. ~(u < t)
        <3>1. SUFFICES ASSUME u < t
                       PROVE  FALSE
            OBVIOUS
        <3>2. u \in 0 .. t - 1 /\ u < tree_height
            BY <1>1, <3>1
        <3>3. Bit(n, u) = 1 /\ Bit(n, u) = 0
            BY <1>2, <3>2 DEF Ones
        <3>4. QED
            BY <3>3
    <2>2. ~(t < u)
        <3>1. SUFFICES ASSUME t < u
                       PROVE  FALSE
            OBVIOUS
        <3>2. t \in 0 .. u - 1
            BY <1>1, <3>1
        <3>3. Bit(n, t) = 1
            BY <1>2, <3>2
        <3>4. QED
            BY <3>3
    <2>3. QED
        BY <1>1, <2>1, <2>2
<1>3. Tau(n) = CHOOSE u \in 0 .. tree_height : Q(u)
    BY DEF Tau
<1> HIDE DEF Q
<1>4. QED
    BY <1>1, <1>2, <1>3

\* What an open instance may still wait for.
Budget(h, s, n) == \A i \in Open(s) : Total(h, s, n, i) <= 6 * 2 ^ i - 4 - 2 * (h \div 2)

\* An instance whose node the next path takes has waited for all it had to.
LEMMA FinishedInTime ==
    ASSUME tree_height \in Nat, NEW s \in States, NEW a, NEW n \in Nat,
           Sound(tree_height, s, n, a), Budget(tree_height, s, n), NEW t \in Nat, Ones(n, t),
           NEW i \in Open(s), i < t
    PROVE  FALSE
<1> DEFINE h == tree_height
           f == Costs(h, s, n, i)
           g == [k \in 1 .. h |-> 0]
           Low(p) == 0 - (2 * 2 ^ p - 2 - p)
           c == [p \in 0 .. h |-> IF p <= i THEN Low(p) ELSE 0 - (6 * 2 ^ i - 2 - i)]
<1>1. i \in Levels /\ i \in Nat /\ s.treehash[i] \in Instances /\ ~s.treehash[i].completed
    BY InstanceTypes
<1>2. /\ f \in [1 .. h -> Int]
      /\ \A k \in 1 .. h : /\ f[k] = Cost(s.treehash[k - 1], n, i, k - 1)
                           /\ k - 1 \in Levels /\ k - 1 \in Nat /\ s.treehash[k - 1] \in Instances
    BY <1>1, CostsType
<1>3. i <= h - 3
    BY <1>1 DEF Sound, InstanceRight, Levels
<1>4. \A p \in Nat : 2 ^ p \in Nat \ {0} /\ 2 ^ (p + 1) = 2 * 2 ^ p /\ 2 ^ 0 = 1
    BY Powers
<1>5. c \in [0 .. h -> Int] /\ g \in [1 .. h -> Int]
    <2>1. \A p \in 0 .. h : (IF p <= i THEN Low(p) ELSE 0 - (6 * 2 ^ i - 2 - i)) \in Int
        BY <1>1, <1>4
    <2> HIDE DEF Low
    <2>2. c \in [0 .. h -> Int]
        BY <2>1
    <2>3. g \in [1 .. h -> Int]
        BY 0 \in Int
    <2>4. QED
        BY <2>2, <2>3
<1>6. c[0] = 0 /\ c[h] = 0 - (6 * 2 ^ i - 2 - i)
    <2>1. 0 \in 0 .. h /\ h \in 0 .. h /\ ~(h <= i) /\ 0 <= i
        BY <1>1, <1>3
    <2>2. c[0] = Low(0)
        BY <2>1
    <2>3. Low(0) = 0
        BY <1>4
    <2>4. QED
        BY <2>1, <2>2, <2>3
<1>7. \A k \in Nat : k <= i => Below(n, k + 1) = 2 ^ (k + 1) - 1
    <2>1. SUFFICES ASSUME NEW k \in Nat, k <= i
                   PROVE  Below(n, k + 1) = 2 ^ (k + 1) - 1
        OBVIOUS
    <2>2. Ones(n, k + 1)
        BY <1>1, <2>1 DEF Ones
    <2>3. QED
        BY <2>2, OnesBelow
<1>8. ASSUME NEW k \in 1 .. h
      PROVE  g[k] - f[k] <= c[k] - c[k - 1]
    <2> DEFINE l == k - 1
               r == s.treehash[l]
               p == 2 ^ l
               pi == 2 ^ i
    <2>1. /\ l \in Nat /\ l + 1 = k /\ k \in 0 .. h /\ l \in 0 .. h /\ r \in Instances /\ g[k] = 0
          /\ f[k] = Cost(r, n, i, l) /\ f[k] \in Int
        BY <1>2
    <2>2. /\ Left(r, l) \in Nat /\ Cost(r, n, i, l) \in Nat
          /\ l = i => Left(r, l) >= 1
        <3>1. Left(r, l) \in 0 .. 2 ^ l /\ Cost(r, n, i, l) \in Nat /\ (~r.completed => Left(r, l) >= 1)
            BY <1>1, <2>1, CostType
        <3>2. Left(r, l) \in Nat
            BY <1>4, <2>1, <3>1
        <3>3. l = i => ~r.completed
            BY <1>1
        <3>4. QED
            BY <3>1, <3>2, <3>3
    <2>3. p \in Nat \ {0} /\ 2 ^ k = 2 * p /\ pi \in Nat \ {0} /\ (l = i => p = pi)
        BY <1>1, <1>4, <2>1
    <2>4. l <= i => Below(n, k) = 2 * p - 1
        BY <1>7, <2>1, <2>3
    <2>5. /\ k <= i => c[k] = 0 - (2 * 2 ^ k - 2 - k)
          /\ k > i => c[k] = 0 - (6 * pi - 2 - i)
          /\ l <= i => c[l] = 0 - (2 * p - 2 - l)
          /\ l > i => c[l] = 0 - (6 * pi - 2 - i)
        BY <1>1, <2>1
    <2>6. /\ l < i => f[k] = 2 * Left(r, l) + Below(n, k)
          /\ l = i => f[k] = 2 * Left(r, l) + 2 * Below(n, k)
        <3>1. f[k] = Cost(r, n, i, l) /\ l + 1 = k /\ i \in Nat /\ l \in Nat
            BY <1>1, <2>1
        <3> DEFINE fk == f[k]
        <3> HIDE DEF f, l, r, fk
        <3>2. fk = Cost(r, n, i, l)
            BY <3>1 DEF fk
        <3>3. /\ l < i => fk = 2 * Left(r, l) + Below(n, k)
              /\ l = i => fk = 2 * Left(r, l) + 2 * Below(n, k)
            BY ONLY <3>1, <3>2 DEF Cost
        <3>4. QED
            BY <3>3 DEF fk
    <2> DEFINE fk == f[k]
               gk == g[k]
               ck == c[k]
               cl == c[l]
               left == Left(r, l)
               below == Below(n, k)
               pk == 2 ^ k
    <2>7. /\ l \in Nat /\ l + 1 = k /\ gk = 0 /\ fk \in Nat /\ left \in Nat /\ (l = i => left >= 1)
          /\ p \in Nat \ {0} /\ pk = 2 * p /\ pi \in Nat \ {0} /\ (l = i => p = pi)
          /\ (l <= i => below = 2 * p - 1)
          /\ k <= i => ck = 0 - (2 * pk - 2 - k)
          /\ k > i => ck = 0 - (6 * pi - 2 - i)
          /\ l <= i => cl = 0 - (2 * p - 2 - l)
          /\ l > i => cl = 0 - (6 * pi - 2 - i)
          /\ l < i => fk = 2 * left + below
          /\ l = i => fk = 2 * left + 2 * below
        BY <2>1, <2>2, <2>3, <2>4, <2>5, <2>6
    <2>8. gk - fk <= ck - cl
        <3> HIDE DEF fk, gk, ck, cl, left, below, pk, p, pi, l
        <3>1. CASE l < i
            <4>1. /\ ck = 0 - (2 * pk - 2 - k) /\ cl = 0 - (2 * p - 2 - l)
                  /\ fk = 2 * left + below /\ below = 2 * p - 1
                BY <1>1, <2>7, <3>1
            <4>2. QED
                BY <2>7, <4>1
        <3>2. CASE l = i
            <4>1. /\ ck = 0 - (6 * pi - 2 - i) /\ cl = 0 - (2 * p - 2 - l) /\ p = pi
                  /\ fk = 2 * left + 2 * below /\ below = 2 * p - 1 /\ left >= 1
                BY <1>1, <2>7, <3>2
            <4>2. QED
                BY <2>7, <3>2, <4>1
        <3>3. CASE l > i
            <4>1. ck = 0 - (6 * pi - 2 - i) /\ cl = 0 - (6 * pi - 2 - i)
                BY <1>1, <2>7, <3>3
            <4>2. QED
                BY <1>1, <2>7, <4>1
        <3>4. QED
            BY <1>1, <2>7, <3>1, <3>2, <3>3
    <2>9. QED
        BY <2>8
<1> HIDE DEF f, g, c
<1>9. Bounded(h, f, g, c)
    BY <1>8 DEF Bounded
<1>10. AddUp(f) \in Int /\ AddUp(g) \in Int /\ AddUp(g) - AddUp(f) <= c[h] - c[0]
    BY <1>2, <1>5, <1>9, SumDifference
<1>11. AddUp(g) = 0
    BY SumOfZeros DEF g
<1>12. AddUp(f) <= 6 * 2 ^ i - 4 - 2 * (h \div 2)
    BY DEF Budget, Total, f
<1> DEFINE pi == 2 ^ i
           total == AddUp(f)
<1>13. /\ pi \in Nat /\ total \in Int /\ 0 - total <= 0 - (6 * pi - 2 - i)
       /\ total <= 6 * pi - 4 - 2 * (h \div 2)
    BY <1>1, <1>4, <1>6, <1>10, <1>11, <1>12
<1> HIDE DEF pi, total
<1>14. QED
    BY <1>1, <1>3, <1>13

\* The authentication path of leaf n, and the left siblings kept for the next
\* paths.
Sibling(n, i) == IF Bit(n, i) = 1 THEN Above(n, i) - 1 ELSE Above(n, i) + 1
PathRight(h, auth, n, a) == \A i \in 0 .. h - 1 : auth[i] = NodeAt(a, i, Sibling(n, i))
KeptRight(h, keep, n, a) ==
    \A i \in 0 .. h - 2 :
        Bit(n, i) = 1 /\ Bit(n, i + 1) = 0 => keep[i \div 2] = NodeAt(a, i, Above(n, i))

\* A sibling is a node of the same tree.
LEMMA SiblingType ==
    ASSUME NEW n \in Nat, NEW h \in Nat, NEW i \in 0 .. h - 1, n < 2 ^ h
    PROVE  Sibling(n, i) \in Nat /\ Sibling(n, i) < 2 ^ (h - i) /\ Above(n, i) < 2 ^ (h - i)
<1>1. i \in Nat /\ i \in 0 .. h /\ h - (i + 1) \in Nat /\ (h - (i + 1)) + 1 = h - i /\ i + 1 \in Nat
    OBVIOUS
<1>2. /\ Above(n, i) = 2 * Above(n, i + 1) + Bit(n, i) /\ Bit(n, i) \in 0 .. 1
      /\ Above(n, i + 1) \in Nat
    BY <1>1, OneUp
<1>3. Above(n, i) < 2 ^ (h - i)
    BY <1>1, AboveInTree
<1> DEFINE p == 2 ^ (h - (i + 1))
           up == Above(n, i + 1)
           bit == Bit(n, i)
<1>4. p \in Nat /\ 2 ^ (h - i) = 2 * p
    BY <1>1, Powers
<1>5. /\ up \in Nat /\ bit \in 0 .. 1 /\ 2 * up + bit < 2 * p
      /\ Sibling(n, i) = IF bit = 1 THEN 2 * up + bit - 1 ELSE 2 * up + bit + 1
    BY <1>2, <1>3, <1>4 DEF Sibling
<1> HIDE DEF p, up, bit
<1>6. Sibling(n, i) \in Nat /\ Sibling(n, i) < 2 * p
    BY <1>4, <1>5
<1>7. QED
    BY <1>3, <1>4, <1>6

\* The path of the next leaf: below the first zero the nodes that the
\* instances prepared, at it the node above the leaf, over it the same.
LEMMA NextSiblings ==
    ASSUME NEW n \in Nat, NEW t \in Nat, Ones(n, t), Bit(n, t) = 0
    PROVE  /\ \A i \in 0 .. t - 1 : Sibling(n + 1, i) = Target(n, i)
           /\ Sibling(n + 1, t) = Above(n, t) /\ Above(n + 1, t) = Sibling(n, t)
           /\ \A l \in Nat : l > t => Sibling(n + 1, l) = Sibling(n, l)
<1>1. /\ \A l \in 0 .. t - 1 : Bit(n + 1, l) = 0
      /\ Bit(n + 1, t) = 1
      /\ \A l \in Nat : l > t => Bit(n + 1, l) = Bit(n, l) /\ Above(n + 1, l) = Above(n, l)
      /\ \A l \in 0 .. t : Above(n + 1, l) = Above(n, l) + 1
    BY NextBits
<1>2. ASSUME NEW i \in 0 .. t - 1
      PROVE  Sibling(n + 1, i) = Target(n, i)
    <2>1. i \in Nat /\ i + 1 \in Nat
        OBVIOUS
    <2>2. Above(n, i) = 2 * Above(n, i + 1) + Bit(n, i)
        BY <2>1, OneUp
    <2>3. Bit(n, i) = 1
        BY DEF Ones
    <2>4. Above(n, i + 1) \in Nat
        BY <2>1, AboveType
    <2>5. Sibling(n + 1, i) = (Above(n, i) + 1) + 1
        <3>1. i \in 0 .. t /\ Bit(n + 1, i) = 0
            BY <1>1
        <3>2. Above(n + 1, i) = Above(n, i) + 1
            BY <1>1, <3>1
        <3>3. QED
            BY <3>1, <3>2 DEF Sibling
    <2>6. QED
        BY <2>2, <2>3, <2>4, <2>5 DEF Target
<1>3. Sibling(n + 1, t) = Above(n, t) /\ Above(n + 1, t) = Sibling(n, t)
    <2>1. Above(n, t) \in Nat /\ t \in 0 .. t
        BY AboveType
    <2>2. Above(n + 1, t) = Above(n, t) + 1
        BY <1>1, <2>1
    <2>3. QED
        BY <1>1, <2>1, <2>2 DEF Sibling
<1>4. \A l \in Nat : l > t => Sibling(n + 1, l) = Sibling(n, l)
    BY <1>1 DEF Sibling
<1>5. QED
    BY <1>2, <1>3, <1>4

\* The round gives the next leaf its path.
LEMMA PathMoves ==
    ASSUME tree_height \in Nat, NEW s \in States, NEW a \in Addresses, NEW n \in Nat,
           n + 1 < Leaves, NEW t \in 0 .. tree_height - 1, Ones(n, t), Bit(n, t) = 0,
           PathRight(tree_height, s.auth, n, a), KeptRight(tree_height, s.keep, n, a),
           \A i \in 0 .. t - 1 : s.treehash[i].node = NodeAt(a, i, Target(n, i))
    PROVE  /\ PathRight(tree_height, NextAuth(s, n, t, a), n + 1, a)
           /\ NextAuth(s, n, t, a) \in [Levels -> NodeSet]
<1> DEFINE h == tree_height
           auth == NextAuth(s, n, t, a)
<1>1. /\ \A i \in 0 .. t - 1 : Sibling(n + 1, i) = Target(n, i)
      /\ Sibling(n + 1, t) = Above(n, t)
      /\ \A l \in Nat : l > t => Sibling(n + 1, l) = Sibling(n, l)
    <2>1. n \in Nat /\ t \in Nat /\ Ones(n, t) /\ Bit(n, t) = 0
        OBVIOUS
    <2>2. QED
        BY ONLY <2>1, NextSiblings
<1>2. ASSUME NEW i \in 0 .. h - 1
      PROVE  auth[i] = NodeAt(a, i, Sibling(n + 1, i))
    <2>1. i \in Levels /\ i \in Nat
        BY DEF Levels
    <2>2. CASE i < t
        <3>1. i \in 0 .. t - 1
            BY <2>2
        <3>2. auth[i] = s.treehash[i].node
            BY <2>1, <2>2 DEF NextAuth
        <3>3. QED
            BY <1>1, <3>1, <3>2
    <2>3. CASE i > t
        <3>1. auth[i] = s.auth[i]
            BY <2>1, <2>3 DEF NextAuth
        <3>2. s.auth[i] = NodeAt(a, i, Sibling(n, i))
            BY DEF PathRight
        <3>3. QED
            BY <1>1, <2>1, <2>3, <3>1, <3>2
    <2>4. CASE i = t /\ t = 0
        <3>1. auth[i] = Leaf(a.layer, a.tree, n)
            BY <2>1, <2>4 DEF NextAuth
        <3>2. Above(n, 0) = n
            BY OneUp
        <3>3. QED
            BY <1>1, <2>4, <3>1, <3>2 DEF Leaf, NodeAt
    <2>5. CASE i = t /\ t # 0
        <3> DEFINE m == t - 1
        <3>1. m \in Nat /\ m + 1 = t /\ m \in 0 .. h - 2 /\ m \in 0 .. h - 1 /\ m \in 0 .. t - 1
            BY <2>5
        <3>2. auth[i] = thash_h(s.auth[m], s.keep[m \div 2], a, m, n \div 2 ^ t)
            BY <2>1, <2>5 DEF NextAuth
        <3>3. Bit(n, m) = 1
            BY <3>1 DEF Ones
        <3>4. s.keep[m \div 2] = NodeAt(a, m, Above(n, m))
            <4>1. Bit(n, m + 1) = 0
                BY <3>1
            <4> HIDE DEF m
            <4>2. QED
                BY <3>1, <3>3, <4>1 DEF KeptRight
        <3>5. s.auth[m] = NodeAt(a, m, Above(n, m) - 1)
            <4> HIDE DEF m
            <4>1. QED
                BY <3>1, <3>3 DEF PathRight, Sibling
        <3> HIDE DEF m
        <3>6. thash_h(NodeAt(a, m, Above(n, m) - 1), NodeAt(a, m, Above(n, m)), a, m, n \div 2 ^ (m + 1))
                = NodeAt(a, m + 1, Above(n, m + 1))
            BY <3>1, <3>3, ParentOfSiblings
        <3>7. auth[i] = NodeAt(a, t, Above(n, t))
            BY <3>1, <3>2, <3>4, <3>5, <3>6
        <3>8. QED
            BY <1>1, <2>5, <3>7
    <2>6. QED
        BY <2>1, <2>2, <2>3, <2>4, <2>5
<1>3. ASSUME NEW i \in Levels
      PROVE  auth[i] \in NodeSet
    <2>1. i \in 0 .. h - 1 /\ i \in Nat
        BY DEF Levels
    <2>2. Sibling(n + 1, i) \in Nat
        <3>1. n + 1 \in Nat /\ n + 1 < 2 ^ h
            BY DEF Leaves
        <3>2. QED
            BY <2>1, <3>1, SiblingType
    <2>3. NodeAt(a, i, Sibling(n + 1, i)) \in NodeSet
        BY <2>1, <2>2, NodeAtType
    <2>4. QED
        BY <1>2, <2>1, <2>3
<1>4. auth \in [Levels -> NodeSet]
    <2>1. auth = [i \in Levels |-> auth[i]]
        BY DEF NextAuth
    <2> HIDE DEF auth
    <2>2. QED
        BY <1>3, <2>1
<1>5. PathRight(h, auth, n + 1, a)
    BY <1>2 DEF PathRight
<1>6. QED
    BY <1>4, <1>5

\* And keeps the left sibling that a later path needs.
LEMMA KeptMoves ==
    ASSUME tree_height \in Nat, tree_height >= 2, NEW s \in States, NEW a \in Addresses, NEW n \in Nat,
           NEW t \in 0 .. tree_height - 1, Ones(n, t), Bit(n, t) = 0,
           PathRight(tree_height, s.auth, n, a), KeptRight(tree_height, s.keep, n, a)
    PROVE  /\ KeptRight(tree_height, KeepNode(s, n, t), n + 1, a)
           /\ KeepNode(s, n, t) \in [0 .. (tree_height \div 2) - 1 -> NodeSet]
<1> DEFINE h == tree_height
           keep == KeepNode(s, n, t)
           K == 0 .. (h \div 2) - 1
<1>1. s.keep \in [K -> NodeSet] /\ s.auth \in [Levels -> NodeSet] /\ t \in Levels /\ t \in Nat
    BY StateFields DEF Levels
<1>2. s.auth[t] \in NodeSet
    BY <1>1
<1>3. keep = IF Bit(n, t + 1) = 0 /\ t < h - 1 THEN [s.keep EXCEPT ![t \div 2] = s.auth[t]] ELSE s.keep
    BY DEF KeepNode
<1>4. keep \in [K -> NodeSet]
    <2> HIDE DEF keep, K
    <2>1. QED
        BY <1>1, <1>2, <1>3
<1>5. ASSUME NEW i \in 0 .. h - 2, Bit(n + 1, i) = 1, Bit(n + 1, i + 1) = 0
      PROVE  keep[i \div 2] = NodeAt(a, i, Above(n + 1, i))
    <2>1. /\ \A l \in 0 .. t - 1 : Bit(n + 1, l) = 0
          /\ \A l \in Nat : l > t => Bit(n + 1, l) = Bit(n, l) /\ Above(n + 1, l) = Above(n, l)
        BY <1>1, NextBits
    <2>2. Above(n + 1, t) = Sibling(n, t)
        BY <1>1, NextSiblings
    <2>3. i \in Nat /\ i + 1 \in Nat /\ i >= t /\ i \div 2 \in K
        <3>1. i >= t
            BY <1>1, <1>5, <2>1
        <3>2. QED
            BY <3>1
    <2>4. CASE i = t
        <3>1. Bit(n, t + 1) = 0
            <4>1. t + 1 \in Nat /\ t + 1 > t
                BY <1>1
            <4>2. QED
                BY <1>5, <2>1, <2>4, <4>1
        <3>2. t < h - 1 /\ t \div 2 \in DOMAIN s.keep
            BY <1>1, <2>3, <2>4
        <3>3. keep[t \div 2] = s.auth[t]
            <4> HIDE DEF keep, K
            <4>1. QED
                BY <1>3, <3>1, <3>2
        <3>4. s.auth[t] = NodeAt(a, t, Sibling(n, t))
            BY <1>1 DEF PathRight
        <3>5. QED
            BY <2>2, <2>4, <3>3, <3>4
    <2>5. CASE i > t
        <3>1. /\ Bit(n, i) = 1 /\ Bit(n, i + 1) = 0
              /\ Above(n + 1, i) = Above(n, i)
            BY <1>1, <1>5, <2>1, <2>3, <2>5
        <3>2. s.keep[i \div 2] = NodeAt(a, i, Above(n, i))
            BY <3>1 DEF KeptRight
        <3>3. Bit(n, t + 1) = 0 => i \div 2 # t \div 2
            <4>1. Bit(n, t + 1) = 0 => i # t + 1
                BY <3>1
            <4>2. i >= t + 2 => i \div 2 # t \div 2
                BY <1>1, <2>3
            <4>3. i # t + 1 => i >= t + 2
                BY <1>1, <2>3, <2>5
            <4>4. QED
                BY <4>1, <4>2, <4>3
        <3>4. keep[i \div 2] = s.keep[i \div 2]
            <4>1. i \div 2 \in DOMAIN s.keep
                BY <1>1, <2>3
            <4> HIDE DEF keep, K
            <4>2. QED
                BY <1>3, <3>3, <4>1
        <3>5. QED
            BY <3>1, <3>2, <3>4
    <2>6. QED
        BY <1>1, <2>3, <2>4, <2>5
<1>6. KeptRight(h, keep, n + 1, a)
    BY <1>5 DEF KeptRight
<1>7. QED
    BY <1>4, <1>6

\* Where an instance starts again: at the first leaf of the subtree that the
\* next leaf wants from it.
LEMMA StartsAgain ==
    ASSUME NEW n \in Nat, NEW t \in Nat, Ones(n, t), NEW i \in 0 .. t - 1
    PROVE  /\ StartIdx(n, i) \in Nat /\ Above(StartIdx(n, i), i) = Target(n + 1, i)
           /\ Below(StartIdx(n, i), i) = 0 /\ Bits(StartIdx(n, i), i) = {}
           /\ Target(n + 1, i) >= 5 /\ Target(n + 1, i) \in Nat
<1> DEFINE m == 2 ^ i
           A == Above(n + 1, i)
           B == Above(n + 1, i + 1)
           x == StartIdx(n, i)
           q == Above(x, i)
           r == Below(x, i)
<1>1. i \in Nat /\ i + 1 \in Nat /\ n + 1 \in Nat /\ m \in Nat \ {0} /\ 2 ^ (i + 1) = 2 * m
    BY Powers
<1>2. Ones(n, i) /\ Ones(n, i + 1)
    BY DEF Ones
<1>3. Below(n + 1, i) = 0 /\ Below(n + 1, i + 1) = 0
    BY <1>1, <1>2, NextLeaf
<1>4. /\ n + 1 = m * A + Below(n + 1, i) /\ A \in Nat /\ A = 2 * B + Bit(n + 1, i)
      /\ Below(n + 1, i + 1) = Below(n + 1, i) + m * Bit(n + 1, i) /\ Bit(n + 1, i) \in 0 .. 1
    BY <1>1, OneUp
<1>5. n + 1 = 2 ^ (i + 1) * B + Below(n + 1, i + 1) /\ B \in Nat
    BY <1>1, OneUp
<1>6. A = 2 * B
    <2> DEFINE bit == Bit(n + 1, i)
    <2>1. 0 = 0 + m * bit /\ bit \in 0 .. 1
        BY <1>3, <1>4
    <2> HIDE DEF bit, m
    <2>2. bit = 0
        <3>1. bit = 0 \/ bit = 1
            BY <2>1
        <3>2. bit # 1
            <4>1. SUFFICES ASSUME bit = 1
                           PROVE  FALSE
                OBVIOUS
            <4>2. 0 = 0 + m * 1
                BY <2>1, <4>1
            <4>3. m * 1 = m
                BY <1>1
            <4>4. QED
                BY <1>1, <4>2, <4>3
        <3>3. QED
            BY <3>1, <3>2
    <2> HIDE DEF A, B
    <2>3. QED
        BY <1>4, <1>5, <2>2 DEF bit
<1>7. B >= 1
    <2>1. n + 1 = (2 * m) * B /\ n + 1 > 0
        BY <1>1, <1>3, <1>5
    <2> HIDE DEF B, m
    <2>2. B # 0
        <3>1. SUFFICES ASSUME B = 0
                       PROVE  FALSE
            OBVIOUS
        <3>2. (2 * m) * 0 = 0
            BY <1>1
        <3>3. QED
            BY <2>1, <3>1, <3>2
    <2>3. QED
        BY <1>5, <2>2
<1>8. x \in Nat /\ x = m * A + 3 * m
    <2>1. x = (n + 1) + 3 * m
        BY DEF StartIdx
    <2>2. n + 1 = m * A
        <3>1. m * A \in Nat
            <4> HIDE DEF m, A
            <4>1. QED
                BY <1>1, <1>4
        <3> HIDE DEF m, A
        <3>2. QED
            BY <1>3, <1>4, <3>1
    <2> HIDE DEF m, A, x
    <2>3. QED
        BY <1>1, <2>1, <2>2
<1>9. x = m * q + r /\ q \in Nat /\ r \in 0 .. m - 1
    <2>1. x \in Nat
        BY <1>8
    <2> HIDE DEF x
    <2>2. QED
        BY <1>1, <2>1, OneUp
<1>10. q = A + 3 /\ r = 0
    <2> HIDE DEF m, A, B, x, q, r
    <2> DEFINE e == q - A - 3
    <2>1. m * q + r = m * A + 3 * m
        BY <1>8, <1>9
    <2>2. e \in Int /\ q = e + A + 3
        BY <1>4, <1>9
    <2> HIDE DEF e
    <2>3. m * q = m * e + m * A + 3 * m
        BY <1>1, <1>4, <2>2
    <2> DEFINE me == m * e
               ma == m * A
               mq == m * q
    <2>4. me \in Int /\ ma \in Int /\ mq \in Int
        BY <1>1, <1>4, <1>9, <2>2
    <2>5. e >= 1 => me >= m
        BY <1>1, <2>2
    <2>6. e <= 0 - 1 => me <= 0 - m
        BY <1>1, <2>2
    <2>7. e = 0 => me = 0
        BY <1>1
    <2>8. mq + r = ma + 3 * m /\ mq = me + ma + 3 * m
        BY <2>1, <2>3
    <2> HIDE DEF me, ma, mq
    <2>9. e = 0
        BY <1>1, <1>9, <2>2, <2>4, <2>5, <2>6, <2>8
    <2>10. r = 0
        BY <1>1, <1>9, <2>4, <2>7, <2>8, <2>9
    <2>11. QED
        BY <1>4, <2>2, <2>9, <2>10
<1>11. Bits(x, i) = {}
    <2>1. Below(x, i) = 0 /\ x \in Nat
        BY <1>8, <1>10
    <2> HIDE DEF x
    <2>2. \A l \in 0 .. i - 1 : Bit(x, l) = 0
        BY <1>1, <2>1, ZerosBelow
    <2>3. QED
        BY <2>2 DEF Bits
<1>12. Target(n + 1, i) = 2 * B + 3
    BY DEF Target
<1> HIDE DEF m, A, B
<1>13. q = Target(n + 1, i) /\ Target(n + 1, i) >= 5 /\ Target(n + 1, i) \in Nat
    BY <1>5, <1>6, <1>7, <1>10, <1>12
<1>14. QED
    BY <1>8, <1>10, <1>11, <1>13 DEF x

\* What an instance is after the round.
RestartedAt(h, r, n, i, t) ==
    IF i < t /\ StartIdx(n, i) < 2 ^ h THEN InstanceOf(StartIdx(n, i), 0, FALSE, r.node) ELSE r

\* An instance keeps right, whether it is restarted or not.
LEMMA RoundKeepsRight ==
    ASSUME NEW h \in Nat, NEW n \in Nat, NEW t \in 0 .. h - 1, Ones(n, t), Bit(n, t) = 0,
           NEW i \in 0 .. h - 1, NEW a, NEW r \in Instances, InstanceRight(h, r, n, i, a),
           i < t => r.completed
    PROVE  /\ RestartedAt(h, r, n, i, t) \in Instances
           /\ InstanceRight(h, RestartedAt(h, r, n, i, t), n + 1, i, a)
<1>1. i \in Nat /\ i + 1 \in Nat /\ t \in Nat /\ r.completed \in BOOLEAN /\ r.node \in NodeSet
    BY DEF Instances
<1>2. CASE i < t
    <2>1. /\ StartIdx(n, i) \in Nat /\ Above(StartIdx(n, i), i) = Target(n + 1, i)
          /\ Target(n + 1, i) >= 5 /\ Target(n + 1, i) \in Nat
        BY <1>1, <1>2, StartsAgain
    <2>2. StartIdx(n, i) < 2 ^ h <=> Needed(h, n + 1, i)
        <3>1. i \in 0 .. h
            BY <1>1
        <3>2. QED
            BY <2>1, <3>1, AboveInTree DEF Needed
    <2>3. CASE StartIdx(n, i) < 2 ^ h
        <3> DEFINE x == InstanceOf(StartIdx(n, i), 0, FALSE, r.node)
        <3>1. RestartedAt(h, r, n, i, t) = x
            BY <1>2, <2>3 DEF RestartedAt
        <3>2. x \in Instances
            <4> DEFINE false == FALSE
            <4>1. false \in BOOLEAN
                OBVIOUS
            <4> HIDE DEF false
            <4>2. InstanceOf(StartIdx(n, i), 0, false, r.node) \in Instances
                BY <1>1, <2>1, <4>1 DEF Instances, InstanceOf
            <4>3. QED
                BY <4>2 DEF false
        <3>3. x.next_idx = StartIdx(n, i) /\ x.node = r.node /\ x.completed = FALSE
            BY DEF InstanceOf
        <3>4. i <= h - 3
            <4>1. Target(n + 1, i) < 2 ^ (h - i)
                BY <2>2, <2>3 DEF Needed
            <4>2. i <= h - 2
                BY <1>1, <1>2
            <4>3. i # h - 2
                <5>1. SUFFICES ASSUME i = h - 2
                               PROVE  FALSE
                    OBVIOUS
                <5>2. h - i = 2
                    BY <5>1
                <5>3. 2 ^ 2 = 4
                    <6>1. 2 ^ 0 = 1 /\ 2 ^ (0 + 1) = 2 * 2 ^ 0 /\ 2 ^ (1 + 1) = 2 * 2 ^ 1
                        BY Powers
                    <6>2. QED
                        BY <6>1
                <5>4. QED
                    BY <2>1, <4>1, <5>2, <5>3
            <4>4. QED
                BY <1>1, <4>2, <4>3
        <3> HIDE DEF x
        <3>5. InstanceRight(h, x, n + 1, i, a)
            BY <2>1, <2>2, <2>3, <3>3, <3>4 DEF InstanceRight
        <3>6. QED
            BY <3>1, <3>2, <3>5
    <2>4. CASE ~(StartIdx(n, i) < 2 ^ h)
        <3>1. RestartedAt(h, r, n, i, t) = r /\ r.completed = TRUE /\ ~Needed(h, n + 1, i)
            BY <1>1, <1>2, <2>2, <2>4 DEF RestartedAt
        <3>2. QED
            BY <3>1 DEF InstanceRight
    <2>5. QED
        BY <2>3, <2>4
<1>3. CASE ~(i < t)
    <2>1. Above(n + 1, i + 1) = Above(n, i + 1)
        <3>1. i + 1 > t
            BY <1>1, <1>3
        <3>2. QED
            BY <1>1, <3>1, NextBits
    <2>2. Target(n + 1, i) = Target(n, i)
        BY <2>1 DEF Target
    <2>3. RestartedAt(h, r, n, i, t) = r
        BY <1>3 DEF RestartedAt
    <2>4. QED
        BY <2>2, <2>3 DEF InstanceRight, Needed
<1>4. QED
    BY <1>2, <1>3

\* An instance that starts again.
LEMMA InstanceRestarted ==
    ASSUME NEW r \in Instances, NEW m
    PROVE  [r EXCEPT !.next_idx = m, !.completed = FALSE, !.stackusage = 0]
             = InstanceOf(m, 0, FALSE, r.node)
<1> DEFINE next == r.next_idx
           usage == r.stackusage
           completed == r.completed
           node == r.node
           false == FALSE
           f == [r EXCEPT !.next_idx = m]
           g == [f EXCEPT !.completed = false]
           new == [r EXCEPT !.next_idx = m, !.completed = FALSE, !.stackusage = 0]
<1>1. r = InstanceOf(next, usage, completed, node)
    BY DEF Instances, InstanceOf
<1>2. new = [g EXCEPT !.stackusage = 0]
    OBVIOUS
<1> HIDE DEF next, usage, completed, node, false, new
<1>3. f = InstanceOf(m, usage, completed, node)
    BY <1>1 DEF InstanceOf
<1> HIDE DEF f
<1>4. g = InstanceOf(m, usage, false, node)
    BY <1>3 DEF InstanceOf
<1> HIDE DEF g
<1>5. [g EXCEPT !.stackusage = 0] = InstanceOf(m, 0, false, node)
    BY <1>4 DEF InstanceOf
<1>6. QED
    BY <1>2, <1>5 DEF false, node, new

\* The state after a round.
LEMMA RoundFields ==
    ASSUME tree_height \in Nat, NEW s \in States, NEW a, NEW n \in Nat,
           NEW t \in 0 .. tree_height - 1, Ones(n, t), Bit(n, t) = 0
    PROVE  LET x == bds_round(s, n, a)
           IN  /\ x = StateOf(s.stack, s.peak, NextAuth(s, n, t, a), KeepNode(s, n, t),
                              x.treehash, s.next_leaf)
               /\ x.stack = s.stack /\ x.peak = s.peak /\ x.next_leaf = s.next_leaf
               /\ x.auth = NextAuth(s, n, t, a) /\ x.keep = KeepNode(s, n, t)
               /\ x.treehash = [i \in Levels |-> RestartedAt(tree_height, s.treehash[i], n, i, t)]
<1> DEFINE auth == NextAuth(s, n, t, a)
           keep == KeepNode(s, n, t)
           th == Restarted(s, n, t)
           st == s.stack
           peak == s.peak
           next == s.next_leaf
           x == bds_round(s, n, a)
<1>1. Tau(n) = t
    BY TauIs
<1>2. x = [s EXCEPT !.auth = auth, !.keep = keep, !.treehash = th]
    BY <1>1 DEF bds_round
<1>3. s = [stack |-> st, peak |-> peak, auth |-> s.auth, keep |-> s.keep,
           treehash |-> s.treehash, next_leaf |-> next]
    BY StateFields
<1>4. x = StateOf(st, peak, auth, keep, th, next)
    <2> DEFINE auth0 == s.auth
               keep0 == s.keep
               th0 == s.treehash
    <2>1. s = [stack |-> st, peak |-> peak, auth |-> auth0, keep |-> keep0,
               treehash |-> th0, next_leaf |-> next]
        BY <1>3
    <2> HIDE DEF x, auth, keep, th, st, peak, next, auth0, keep0, th0
    <2>2. QED
        BY <1>2, <2>1 DEF StateOf
<1>5. th = [i \in Levels |-> RestartedAt(tree_height, s.treehash[i], n, i, t)]
    <2>1. s.treehash \in [Levels -> Instances]
        BY StateFields
    <2>2. ASSUME NEW i \in Levels
          PROVE  th[i] = RestartedAt(tree_height, s.treehash[i], n, i, t)
        <3> DEFINE r == s.treehash[i]
                   m == StartIdx(n, i)
        <3>1. r \in Instances
            BY <2>1
        <3>2. [r EXCEPT !.next_idx = m, !.completed = FALSE, !.stackusage = 0]
                = InstanceOf(m, 0, FALSE, r.node)
            <4> HIDE DEF r, m
            <4>1. QED
                BY <3>1, InstanceRestarted
        <3>3. th[i] = IF i < t /\ StartIdx(n, i) < Leaves
                      THEN [r EXCEPT !.next_idx = m, !.completed = FALSE, !.stackusage = 0]
                      ELSE r
            BY DEF Restarted
        <3>4. QED
            BY <3>2, <3>3, Zenon DEF RestartedAt, Leaves
    <2>3. th = [i \in Levels |-> th[i]]
        BY DEF Restarted
    <2> HIDE DEF th
    <2>4. QED
        BY <2>2, <2>3
<1> HIDE DEF x, auth, keep, th, st, peak, next
<1>6. /\ x.stack = st /\ x.peak = peak /\ x.auth = auth /\ x.keep = keep
      /\ x.treehash = th /\ x.next_leaf = next
    BY <1>4 DEF StateOf
<1>7. QED
    BY <1>4, <1>5, <1>6 DEF x, auth, keep, th, st, peak, next

\* The instances after a round: those below the first zero start again, unless
\* there is no subtree left for them.
LEMMA RoundSound ==
    ASSUME tree_height \in Nat, tree_height >= 2, NEW s \in States, NEW a \in Addresses, NEW n \in Nat,
           n + 1 < Leaves, NEW t \in 0 .. tree_height - 1, Ones(n, t), Bit(n, t) = 0,
           Sound(tree_height, s, n, a), \A i \in 0 .. t - 1 : i \notin Open(s),
           PathRight(tree_height, s.auth, n, a), KeptRight(tree_height, s.keep, n, a)
    PROVE  LET x == bds_round(s, n, a)
           IN  /\ x \in States /\ Sound(tree_height, x, n + 1, a)
               /\ PathRight(tree_height, x.auth, n + 1, a) /\ KeptRight(tree_height, x.keep, n + 1, a)
<1> DEFINE h == tree_height
           x == bds_round(s, n, a)
           auth == NextAuth(s, n, t, a)
           keep == KeepNode(s, n, t)
           th == x.treehash
<1>1. /\ x = StateOf(s.stack, s.peak, auth, keep, th, s.next_leaf)
      /\ x.stack = s.stack /\ x.peak = s.peak /\ x.next_leaf = s.next_leaf
      /\ x.auth = auth /\ x.keep = keep
      /\ th = [i \in Levels |-> RestartedAt(h, s.treehash[i], n, i, t)]
    BY RoundFields
<1>2. /\ s.treehash \in [Levels -> Instances] /\ s.stack \in Seq(SlotSet) /\ s.peak \in Nat
      /\ s.next_leaf \in Nat
    BY StateFields
<1>3. /\ Open(s) \subseteq Levels
      /\ \A i \in Levels : /\ i \in Nat /\ s.treehash[i] \in Instances
                           /\ i \notin Open(s) <=> s.treehash[i].completed
                           /\ i < t => s.treehash[i].completed
    <2>1. /\ Open(s) \subseteq Levels
          /\ \A i \in Levels : /\ i \in Nat /\ s.treehash[i] \in Instances
                               /\ i \notin Open(s) <=> s.treehash[i].completed
        BY InstanceTypes
    <2>2. \A i \in Levels : i < t => i \in 0 .. t - 1
        BY <2>1
    <2>3. QED
        BY <2>1, <2>2
<1>4. \A i \in Levels : InstanceRight(h, s.treehash[i], n, i, a)
    BY DEF Sound, Levels
<1>5. ASSUME NEW i \in Levels
      PROVE  th[i] \in Instances /\ InstanceRight(h, th[i], n + 1, i, a)
    <2>1. th[i] = RestartedAt(h, s.treehash[i], n, i, t) /\ i \in 0 .. h - 1
        BY <1>1 DEF Levels
    <2>2. QED
        BY <1>3, <1>4, <2>1, RoundKeepsRight
<1>6. th \in [Levels -> Instances] /\ DOMAIN th = Levels
    <2>1. DOMAIN th = Levels /\ th = [i \in Levels |-> th[i]]
        BY <1>1
    <2> HIDE DEF th
    <2>2. QED
        BY <1>5, <2>1
<1>7. ASSUME NEW i \in 0 .. t - 1
      PROVE  s.treehash[i].node = NodeAt(a, i, Target(n, i))
    <2>1. i \in Levels /\ i \in Nat /\ i < t /\ i \in 0 .. h - 1
        BY DEF Levels
    <2>2. s.treehash[i].completed
        BY <1>3, <2>1
    <2>3. Needed(h, n, i)
        <3>1. Sibling(n + 1, i) < 2 ^ (h - i)
            <4>1. n + 1 \in Nat /\ n + 1 < 2 ^ h
                BY DEF Leaves
            <4>2. QED
                BY <2>1, <4>1, SiblingType
        <3>2. Sibling(n + 1, i) = Target(n, i)
            BY NextSiblings
        <3>3. QED
            BY <3>1, <3>2 DEF Needed
    <2>4. QED
        BY <1>4, <2>1, <2>2, <2>3 DEF InstanceRight
<1>8. PathRight(h, auth, n + 1, a) /\ auth \in [Levels -> NodeSet]
    BY <1>7, PathMoves
<1>9. KeptRight(h, keep, n + 1, a) /\ keep \in [0 .. (h \div 2) - 1 -> NodeSet]
    BY KeptMoves
<1> HIDE DEF x, auth, keep, th
<1>10. x \in States
    <2> DEFINE st == s.stack
               peak == s.peak
               next == s.next_leaf
    <2>1. st \in Seq(SlotSet) /\ peak \in Nat /\ next \in Nat /\ x = StateOf(st, peak, auth, keep, th, next)
        BY <1>1, <1>2
    <2> HIDE DEF st, peak, next
    <2>2. QED
        BY <1>6, <1>8, <1>9, <2>1 DEF States, StateOf
<1>11. ASSUME NEW i \in Levels
       PROVE  \/ /\ i < t /\ th[i].next_idx = StartIdx(n, i) /\ th[i].stackusage = 0
                 /\ Own(x, i) = {} /\ i \notin Open(s)
              \/ th[i] = s.treehash[i] /\ Own(x, i) = Own(s, i) /\ (i \in Open(x) <=> i \in Open(s))
    <2>1. th[i] = RestartedAt(h, s.treehash[i], n, i, t) /\ x.treehash[i] = th[i] /\ DOMAIN x.treehash = Levels
        BY <1>1, <1>6 DEF th
    <2>2. CASE i < t /\ StartIdx(n, i) < 2 ^ h
        <3>1. th[i] = InstanceOf(StartIdx(n, i), 0, FALSE, s.treehash[i].node)
            BY <2>1, <2>2 DEF RestartedAt
        <3>2. th[i].next_idx = StartIdx(n, i) /\ th[i].stackusage = 0
            BY <3>1 DEF InstanceOf
        <3>3. Bits(StartIdx(n, i), i) = {}
            <4>1. i \in 0 .. t - 1 /\ t \in Nat
                BY <1>3, <2>2
            <4>2. QED
                BY <4>1, StartsAgain
        <3>4. QED
            BY <1>3, <2>1, <2>2, <3>2, <3>3 DEF Own
    <2>3. CASE ~(i < t /\ StartIdx(n, i) < 2 ^ h)
        <3>1. th[i] = s.treehash[i]
            BY <2>1, <2>3 DEF RestartedAt
        <3>2. i \in Open(x) <=> i \in Open(s)
            BY <1>2, <2>1, <3>1 DEF Open
        <3>3. QED
            BY <2>1, <3>1, <3>2 DEF Own
    <2>4. QED
        BY <2>2, <2>3
<1>12. Open(x) \subseteq Levels /\ Nested(s, a)
    BY <1>6 DEF Open, Sound, th
<1>13. ASSUME NEW i \in Open(x)
       PROVE  /\ Holds(x.stack, x.treehash[i].next_idx, i, a)
              /\ x.treehash[i].stackusage = Cardinality(Own(x, i))
    <2>1. i \in Levels /\ x.treehash[i] = th[i]
        BY <1>12 DEF th
    <2>2. CASE th[i].stackusage = 0 /\ Own(x, i) = {}
        <3>1. Cardinality(Own(x, i)) = 0
            BY <2>2, FS_EmptySet
        <3>2. Holds(x.stack, x.treehash[i].next_idx, i, a)
            <4>1. \A l \in 0 .. i - 1 : Bit(x.treehash[i].next_idx, l) # 1
                BY <2>2 DEF Own, Bits
            <4>2. QED
                BY <4>1 DEF Holds
        <3>3. QED
            BY <2>1, <2>2, <3>1, <3>2
    <2>3. CASE th[i] = s.treehash[i] /\ Own(x, i) = Own(s, i) /\ i \in Open(s)
        BY <1>1, <1>12, <2>1, <2>3 DEF Nested
    <2>4. QED
        BY <1>11, <1>13, <2>1, <2>2, <2>3
<1>14. ASSUME NEW p \in 1 .. Len(x.stack)
       PROVE  \E i \in Open(x) : x.stack[p].level \in Own(x, i)
    <2>1. PICK i \in Open(s) : s.stack[p].level \in Own(s, i)
        BY <1>1, <1>12 DEF Nested
    <2>2. Own(x, i) = Own(s, i) /\ i \in Open(x)
        BY <1>3, <1>11, <2>1
    <2>3. QED
        BY <1>1, <2>1, <2>2
<1>15. ASSUME NEW i \in Open(x), NEW j \in Open(x), i < j, Own(x, i) # {}, NEW l \in Own(x, j)
       PROVE  l >= i
    <2>1. i \in Open(s) /\ j \in Open(s) /\ Own(x, i) = Own(s, i) /\ Own(x, j) = Own(s, j)
        BY <1>11, <1>12, <1>15
    <2>2. QED
        BY <1>12, <1>15, <2>1 DEF Nested
<1>16. Nested(x, a)
    <2>1. Falling(x.stack)
        BY <1>1, <1>12 DEF Nested
    <2>2. QED
        BY <1>13, <1>14, <1>15, <2>1 DEF Nested
<1>17. Sound(h, x, n + 1, a)
    <2>1. x.peak <= h /\ x.next_leaf = 0
        BY <1>1 DEF Sound
    <2>2. \A i \in 0 .. h - 1 : InstanceRight(h, x.treehash[i], n + 1, i, a)
        BY <1>5 DEF th, Levels
    <2>3. QED
        BY <1>16, <2>1, <2>2 DEF Sound
<1>18. QED
    BY <1>1, <1>8, <1>9, <1>10, <1>17 DEF x, auth, keep

-----------------------------------------------------------------------------
(* The updates of a round are enough *)

\* What a round adds to the wait for an instance that it does not close: one
\* for each lower instance, two for the instance itself.
LEMMA CostRises ==
    ASSUME NEW h \in Nat, NEW r \in Instances, NEW n \in Nat, NEW t \in Nat, Ones(n, t), Bit(n, t) = 0,
           NEW k \in Nat, k < t => r.completed, NEW i \in Nat, t <= i
    PROVE  Cost(RestartedAt(h, r, n, k, t), n + 1, i, k) - Cost(r, n, i, k)
             <= (IF k < i THEN 1 ELSE IF k = i THEN 2 ELSE 0)
<1> DEFINE x == RestartedAt(h, r, n, k, t)
           p == 2 ^ (k + 1)
           b == Below(n, k + 1)
           b2 == Below(n + 1, k + 1)
<1>1. k + 1 \in Nat /\ p \in Nat \ {0} /\ p = 2 * 2 ^ k /\ 2 ^ k \in Nat
    BY Powers
<1>2. b \in Nat /\ b2 \in Nat /\ b2 <= b + 1
    <2>1. b \in 0 .. p - 1 /\ b2 \in 0 .. p - 1
        <3>1. n \in Nat /\ n + 1 \in Nat /\ k + 1 \in Nat
            BY <1>1
        <3>2. QED
            BY ONLY <3>1, OneUp
    <2>2. b2 = 0 \/ b2 = b + 1
        BY <1>1, NextLeaf
    <2> HIDE DEF b, b2, p
    <2>3. QED
        BY <1>1, <2>1, <2>2
<1>3. CASE k < t
    <2>1. Ones(n, k + 1)
        BY <1>3 DEF Ones
    <2>2. b = p - 1 /\ b2 = 0
        BY <1>1, <2>1, OnesBelow, NextLeaf
    <2>3. k < i /\ r.completed
        BY <1>3
    <2>4. Cost(r, n, i, k) = 2 * 0 + b
        BY <2>3 DEF Cost, Left
    <2>5. Cost(x, n + 1, i, k) = 2 * Left(x, k) + b2
        BY <2>3 DEF Cost
    <2>6. Left(x, k) \in 0 .. 2 ^ k
        <3>1. CASE StartIdx(n, k) < 2 ^ h
            <4>1. x = InstanceOf(StartIdx(n, k), 0, FALSE, r.node)
                BY <1>3, <3>1 DEF RestartedAt
            <4>2. x.completed = FALSE /\ x.next_idx = StartIdx(n, k)
                BY <4>1 DEF InstanceOf
            <4>3. Below(StartIdx(n, k), k) = 0
                BY <1>3, StartsAgain
            <4>4. Left(x, k) = 2 ^ k - 0
                BY <4>2, <4>3 DEF Left
            <4>5. QED
                BY <1>1, <4>4
        <3>2. CASE ~(StartIdx(n, k) < 2 ^ h)
            <4>1. x = r
                BY <3>2 DEF RestartedAt
            <4>2. QED
                BY <1>1, <2>3, <4>1 DEF Left
        <3>3. QED
            BY <3>1, <3>2
    <2> DEFINE left == Left(x, k)
               pk == 2 ^ k
               cx == Cost(x, n + 1, i, k)
               cr == Cost(r, n, i, k)
    <2>7. cx = 2 * left + b2 /\ cr = 2 * 0 + b /\ left \in 0 .. pk /\ pk \in Nat /\ p = 2 * pk
        BY <1>1, <2>4, <2>5, <2>6
    <2>8. cx - cr <= 1
        <3> HIDE DEF cx, cr, left, pk, p, b, b2, x
        <3>1. QED
            BY <1>2, <2>2, <2>7
    <2>9. QED
        BY <2>3, <2>8
<1>4. CASE ~(k < t)
    <2>1. x = r
        BY <1>4 DEF RestartedAt
    <2>2. Left(r, k) \in Nat
        <3>1. Left(r, k) \in 0 .. 2 ^ k
            BY CostType
        <3>2. QED
            BY <1>1, <3>1
    <2> DEFINE left == Left(r, k)
               other == IF r.completed \/ Below(r.next_idx, i) = 0 THEN 0 ELSE 2 * (2 ^ i - Below(r.next_idx, i))
               cx == Cost(x, n + 1, i, k)
               cr == Cost(r, n, i, k)
    <2>3. /\ cx = IF k < i THEN 2 * left + b2 ELSE IF k = i THEN 2 * left + 2 * b2 ELSE other
          /\ cr = IF k < i THEN 2 * left + b ELSE IF k = i THEN 2 * left + 2 * b ELSE other
        BY <2>1 DEF Cost
    <2>4. k > i => other \in Nat
        <3>1. Cost(r, n, i, k) \in Nat
            BY CostType
        <3> HIDE DEF other
        <3>2. QED
            BY <2>3, <3>1
    <2> HIDE DEF cx, cr, left, other, b, b2, x
    <2>5. cx - cr <= (IF k < i THEN 1 ELSE IF k = i THEN 2 ELSE 0)
        BY <1>2, <2>2, <2>3, <2>4 DEF left
    <2>6. QED
        BY <2>5 DEF cx, cr, x
<1>5. QED
    BY <1>3, <1>4

\* All together, i + 2.
LEMMA TotalRises ==
    ASSUME tree_height \in Nat, NEW s \in States, NEW x \in States, NEW n \in Nat,
           NEW t \in Nat, Ones(n, t), Bit(n, t) = 0,
           \A k \in Levels : /\ k < t => s.treehash[k].completed
                             /\ x.treehash[k] = RestartedAt(tree_height, s.treehash[k], n, k, t),
           NEW i \in Levels, t <= i
    PROVE  Total(tree_height, x, n + 1, i) <= Total(tree_height, s, n, i) + i + 2
<1> DEFINE h == tree_height
           f == Costs(h, s, n, i)
           g == Costs(h, x, n + 1, i)
           c == [p \in 0 .. h |-> IF p <= i THEN p ELSE i + 2]
<1>1. i \in Nat /\ i < h
    BY DEF Levels
<1>2. /\ f \in [1 .. h -> Int]
      /\ \A k \in 1 .. h : /\ f[k] = Cost(s.treehash[k - 1], n, i, k - 1)
                           /\ k - 1 \in Levels /\ k - 1 \in Nat /\ s.treehash[k - 1] \in Instances
    <2>1. tree_height \in Nat /\ s \in States /\ n \in Nat /\ i \in Nat
        BY <1>1
    <2>2. /\ f \in [1 .. h -> Int]
          /\ \A k \in 1 .. h : f[k] = Cost(s.treehash[k - 1], n, i, k - 1)
        BY ONLY <2>1, CostsType, ZenonT(30)
    <2>3. \A k \in 1 .. h : k - 1 \in Levels /\ k - 1 \in Nat /\ s.treehash[k - 1] \in Instances
        BY ONLY <2>1, CostsType, ZenonT(30)
    <2>4. QED
        BY ONLY <2>2, <2>3
<1>3. /\ g \in [1 .. h -> Int]
      /\ \A k \in 1 .. h : g[k] = Cost(x.treehash[k - 1], n + 1, i, k - 1)
    <2> DEFINE n1 == n + 1
    <2>1. tree_height \in Nat /\ x \in States /\ n1 \in Nat /\ i \in Nat
        BY <1>1
    <2>2. n1 = n + 1
        OBVIOUS
    <2> HIDE DEF n1
    <2>3. g = Costs(h, x, n1, i)
        BY ONLY <2>2
    <2> HIDE DEF g
    <2>4. Costs(tree_height, x, n1, i) \in [1 .. tree_height -> Int]
        BY ONLY <2>1, CostsType
    <2>5. ASSUME NEW k \in 1 .. tree_height
          PROVE  Costs(tree_height, x, n1, i)[k] = Cost(x.treehash[k - 1], n1, i, k - 1)
        BY ONLY <2>1, CostsType
    <2>6. QED
        BY ONLY <2>2, <2>3, <2>4, <2>5, Zenon
<1>4. c \in [0 .. h -> Int] /\ c[0] = 0 /\ c[h] = i + 2
    BY <1>1
<1>5. ASSUME NEW k \in 1 .. h
      PROVE  g[k] - f[k] <= c[k] - c[k - 1]
    <2> DEFINE l == k - 1
               r == s.treehash[l]
    <2>1. l \in Levels /\ l \in Nat /\ r \in Instances /\ l + 1 = k /\ l \in 0 .. h /\ k \in 0 .. h
        BY <1>2
    <2>2. /\ f[k] = Cost(r, n, i, l) /\ g[k] = Cost(RestartedAt(h, r, n, l, t), n + 1, i, l)
          /\ (l < t => r.completed)
        BY <1>2, <1>3, <2>1
    <2>3. g[k] - f[k] <= (IF l < i THEN 1 ELSE IF l = i THEN 2 ELSE 0)
        <3>1. Cost(RestartedAt(h, r, n, l, t), n + 1, i, l) - Cost(r, n, i, l)
                <= (IF l < i THEN 1 ELSE IF l = i THEN 2 ELSE 0)
            <4> HIDE DEF l, r
            <4>1. QED
                BY <1>1, <2>1, <2>2, CostRises
        <3>2. QED
            BY <2>2, <3>1
    <2>4. /\ c[k] = IF k <= i THEN k ELSE i + 2
          /\ c[l] = IF l <= i THEN l ELSE i + 2
        BY <2>1
    <2> DEFINE ck == c[k]
               cl == c[l]
               d1 == g[k] - f[k]
    <2>5. d1 \in Int
        <3>1. f[k] \in Int /\ g[k] \in Int
            BY <1>2, <1>3
        <3> HIDE DEF f, g
        <3>2. QED
            BY ONLY <3>1
    <2>6. d1 <= ck - cl
        <3>1. /\ d1 <= (IF l < i THEN 1 ELSE IF l = i THEN 2 ELSE 0)
              /\ ck = (IF k <= i THEN k ELSE i + 2) /\ cl = (IF l <= i THEN l ELSE i + 2)
            BY <2>3, <2>4
        <3> HIDE DEF d1, ck, cl, l
        <3>2. QED
            BY <1>1, <2>1, <2>5, <3>1
    <2>7. QED
        BY <2>6
<1> HIDE DEF f, g, c
<1>6. Bounded(h, f, g, c)
    BY <1>5 DEF Bounded
<1>7. AddUp(f) \in Int /\ AddUp(g) \in Int /\ AddUp(g) - AddUp(f) <= c[h] - c[0]
    BY <1>2, <1>3, <1>4, <1>6, SumDifference
<1>8. AddUp(g) <= AddUp(f) + i + 2
    BY <1>1, <1>4, <1>7
<1>9. QED
    BY <1>8 DEF f, g, Total

\* Of the higher instances at most one is in the way: one that has a node below
\* the level of the instance.
LEMMA OneInTheWay ==
    ASSUME tree_height \in Nat, NEW s \in States, NEW a, Nested(s, a), NEW n \in Nat, NEW i \in Levels
    PROVE  \E K \in i + 1 .. tree_height :
              \A k \in Levels : k > i /\ k # K => Cost(s.treehash[k], n, i, k) = 0
<1> DEFINE W == {k \in Levels : k > i /\ Cost(s.treehash[k], n, i, k) # 0}
<1>1. /\ i \in Nat /\ i < tree_height
      /\ \A k \in Levels : /\ k \in Nat /\ k \in 0 .. tree_height - 1
                           /\ k \notin Open(s) <=> s.treehash[k].completed
                           /\ s.treehash[k].next_idx \in Nat
    BY InstanceTypes DEF Levels
<1>2. ASSUME NEW k \in W
      PROVE  k \in Open(s) /\ k \in Nat /\ k > i /\ \E l \in Own(s, k) : l < i /\ l \in Nat
    <2>1. k \in Levels /\ k \in Nat /\ k > i /\ Cost(s.treehash[k], n, i, k) # 0
        BY <1>1
    <2>2. ~(s.treehash[k].completed \/ Below(s.treehash[k].next_idx, i) = 0)
        BY <1>1, <2>1 DEF Cost
    <2>3. PICK l \in 0 .. i - 1 : Bit(s.treehash[k].next_idx, l) # 0
        <3> DEFINE m == s.treehash[k].next_idx
        <3>1. m \in Nat /\ Below(m, i) # 0
            BY <1>1, <2>1, <2>2
        <3> HIDE DEF m
        <3>2. \E l \in 0 .. i - 1 : Bit(m, l) # 0
            BY <1>1, <3>1, ZerosBelow
        <3>3. QED
            BY <3>2 DEF m
    <2>4. l \in Nat /\ l \in 0 .. k - 1 /\ l < i
        BY <1>1, <2>1
    <2>5. Bit(s.treehash[k].next_idx, l) = 1
        <3>1. Bit(s.treehash[k].next_idx, l) \in 0 .. 1
            BY <1>1, <2>1, <2>4, AboveType
        <3>2. QED
            BY <2>3, <3>1
    <2>6. l \in Own(s, k)
        BY <2>4, <2>5 DEF Own, Bits
    <2>7. QED
        BY <1>1, <2>1, <2>2, <2>4, <2>6
<1>3. ASSUME NEW j \in W, NEW k \in W, j < k
      PROVE  FALSE
    <2>1. PICK l \in Own(s, k) : l < i /\ l \in Nat
        BY <1>2
    <2>2. Own(s, j) # {} /\ j \in Open(s) /\ k \in Open(s) /\ j \in Nat /\ j > i
        BY <1>2
    <2>3. l >= j
        BY <1>3, <2>1, <2>2 DEF Nested
    <2>4. QED
        BY <1>1, <2>1, <2>2, <2>3
<1>4. \A j, k \in W : j = k
    <2>1. \A j \in W : j \in Nat
        BY <1>2
    <2> HIDE DEF W
    <2>2. QED
        BY <1>3, <2>1
<1>5. CASE W = {}
    <2>1. tree_height \in i + 1 .. tree_height
        BY <1>1
    <2>2. QED
        BY <1>5, <2>1
<1>6. CASE W # {}
    <2>1. PICK K : K \in W
        BY <1>6
    <2>2. K \in i + 1 .. tree_height
        BY <1>1, <2>1
    <2>3. \A k \in Levels : k > i /\ k # K => Cost(s.treehash[k], n, i, k) = 0
        BY <1>4, <2>1
    <2>4. QED
        BY <2>2, <2>3
<1>7. QED
    BY <1>5, <1>6

\* What an instance has to wait for that has just been restarted.
LEMMA FreshTotal ==
    ASSUME tree_height \in Nat, NEW s \in States, NEW a, Nested(s, a), NEW n \in Nat, NEW i \in Levels,
           \A k \in 0 .. i : Below(n, k + 1) = 0
    PROVE  Total(tree_height, s, n, i) <= 6 * 2 ^ i - 4
<1> DEFINE h == tree_height
           pi == 2 ^ i
           f == [k \in 1 .. h |-> 0]
           g == Costs(h, s, n, i)
<1>1. /\ i \in Nat /\ i < h
    BY DEF Levels
<1>2. /\ g \in [1 .. h -> Int]
      /\ \A k \in 1 .. h : /\ g[k] = Cost(s.treehash[k - 1], n, i, k - 1)
                           /\ k - 1 \in Levels /\ k - 1 \in Nat /\ s.treehash[k - 1] \in Instances
    BY <1>1, CostsType
<1>3. PICK K \in i + 1 .. h :
             \A k \in Levels : k > i /\ k # K => Cost(s.treehash[k], n, i, k) = 0
    BY OneInTheWay
<1>4. \A p \in Nat : 2 ^ p \in Nat \ {0} /\ 2 ^ (p + 1) = 2 * 2 ^ p /\ 2 ^ 0 = 1
    BY Powers
<1> DEFINE Low(p) == 2 * 2 ^ p - 2
           High(p) == 4 * 2 ^ i - 2 + (IF p > K THEN 2 * (2 ^ i - 1) ELSE 0)
           c == [p \in 0 .. h |-> IF p <= i + 1 THEN Low(p) ELSE High(p)]
<1>5. \A p \in Nat : Low(p) \in Int /\ High(p) \in Int
    <2>1. 2 ^ i \in Int
        BY <1>1, <1>4
    <2>2. QED
        BY <1>4, <2>1
<1>6. c \in [0 .. h -> Int] /\ f \in [1 .. h -> Int]
    <2> HIDE DEF Low, High
    <2>1. \A p \in 0 .. h : (IF p <= i + 1 THEN Low(p) ELSE High(p)) \in Int
        BY <1>5
    <2>2. c \in [0 .. h -> Int]
        BY <2>1
    <2>3. f \in [1 .. h -> Int]
        BY 0 \in Int
    <2>4. QED
        BY <2>2, <2>3
<1>7. c[0] = 0 /\ c[h] <= 6 * pi - 4 /\ c[h] \in Int /\ pi \in Nat
    <2>1. 0 \in 0 .. h /\ h \in 0 .. h /\ 0 <= i + 1
        BY <1>1
    <2>2. c[0] = Low(0) /\ Low(0) = 0
        BY <1>4, <2>1
    <2>3. pi \in Nat \ {0} /\ 2 ^ (i + 1) = 2 * pi
        BY <1>1, <1>4
    <2>4. c[h] = IF h <= i + 1 THEN Low(h) ELSE High(h)
        BY <2>1
    <2>5. h <= i + 1 => Low(h) = 4 * pi - 2
        <3>1. h <= i + 1 => h = i + 1
            BY <1>1
        <3>2. QED
            BY <2>3, <3>1
    <2>6. High(h) = 4 * pi - 2 + (IF h > K THEN 2 * (pi - 1) ELSE 0)
        OBVIOUS
    <2> HIDE DEF c, pi, Low, High
    <2>7. High(h) <= 6 * pi - 4 /\ High(h) \in Int
        BY <2>3, <2>6
    <2>8. QED
        BY <2>2, <2>3, <2>4, <2>5, <2>7
<1>8. ASSUME NEW k \in 1 .. h
      PROVE  g[k] - f[k] <= c[k] - c[k - 1]
    <2> DEFINE l == k - 1
               r == s.treehash[l]
               p == 2 ^ l
               gk == g[k]
               ck == c[k]
               cl == c[l]
    <2>1. l \in Levels /\ l \in Nat /\ r \in Instances /\ l + 1 = k /\ l \in 0 .. h /\ k \in 0 .. h
        BY <1>2
    <2>2. gk = Cost(r, n, i, l) /\ gk \in Int /\ f[k] = 0
        BY <1>2
    <2>3. /\ p \in Nat \ {0} /\ 2 ^ k = 2 * p /\ pi \in Nat \ {0} /\ 2 ^ (i + 1) = 2 * pi
          /\ l = i => p = pi
          /\ l = i + 1 => p = 2 * pi
        BY <1>1, <1>4, <2>1
    <2>4. ck = (IF k <= i + 1 THEN Low(k) ELSE High(k)) /\ cl = (IF l <= i + 1 THEN Low(l) ELSE High(l))
        BY <2>1
    <2>5. CASE l <= i
        <3>1. k <= i + 1 /\ l <= i + 1 /\ l \in 0 .. i
            BY <1>1, <2>1, <2>5
        <3>2. ck = 2 * (2 * p) - 2 /\ cl = 2 * p - 2
            BY <2>3, <2>4, <3>1
        <3>3. Below(n, k) = 0
            BY <2>1, <3>1
        <3>4. Left(r, l) \in 0 .. p
            BY <2>1, CostType
        <3>5. gk = 2 * Left(r, l) + 0
            <4>1. gk = 2 * Left(r, l) + Below(n, l + 1) \/ gk = 2 * Left(r, l) + 2 * Below(n, l + 1)
                <5>1. gk = Cost(r, n, i, l) /\ ~(l > i) /\ l \in Nat /\ i \in Nat
                    BY <1>1, <2>1, <2>2, <2>5
                <5> HIDE DEF gk, r, l
                <5>2. l < i \/ l = i
                    BY ONLY <5>1
                <5>3. QED
                    BY <5>1, <5>2 DEF Cost
            <4>2. Below(n, l + 1) = 0
                BY <2>1, <3>3
            <4>3. QED
                BY <4>1, <4>2
        <3> DEFINE left == Left(r, l)
        <3>6. left \in 0 .. p /\ gk = 2 * left + 0
            BY <3>4, <3>5
        <3> HIDE DEF left, gk, ck, cl, p
        <3>7. gk <= ck - cl
            BY <2>3, <3>2, <3>6
        <3>8. QED
            <4>1. gk - 0 <= ck - cl
                BY <2>2, <3>7
            <4>2. QED
                BY <2>2, <4>1 DEF gk, ck, cl
    <2>6. CASE l > i
        <3>1. ck = High(k)
            BY <1>1, <2>1, <2>4, <2>6
        <3>2. cl = 4 * pi - 2 + (IF l > K THEN 2 * (pi - 1) ELSE 0)
            <4>1. CASE l = i + 1
                <5>1. cl = Low(l) /\ ~(l > K)
                    BY <1>1, <2>4, <4>1
                <5>2. Low(l) = 2 * p - 2
                    OBVIOUS
                <5>3. p = 2 * pi
                    BY <2>3, <4>1
                <5> HIDE DEF cl, Low, p, pi
                <5>4. QED
                    BY <2>3, <5>1, <5>2, <5>3
            <4>2. CASE l # i + 1
                <5>1. ~(l <= i + 1)
                    BY <1>1, <2>1, <2>6, <4>2
                <5>2. QED
                    BY <2>4, <5>1
            <4>3. QED
                BY <4>1, <4>2
        <3>3. ck = 4 * pi - 2 + (IF k > K THEN 2 * (pi - 1) ELSE 0)
            BY <3>1
        <3>4. l # K => gk = 0
            BY <1>3, <2>1, <2>2, <2>6
        <3>5. gk <= 2 * (pi - 1)
            BY <1>1, <2>1, <2>2, <2>6, CostType
        <3> HIDE DEF gk, ck, cl, p, pi
        <3>6. gk <= ck - cl
            BY <1>1, <2>1, <2>2, <2>3, <3>2, <3>3, <3>4, <3>5
        <3>7. QED
            <4>1. gk - 0 <= ck - cl
                BY <2>2, <3>6
            <4>2. QED
                BY <2>2, <4>1 DEF gk, ck, cl
    <2>7. QED
        BY <1>1, <2>1, <2>5, <2>6
<1> HIDE DEF f, g, c, pi
<1>9. Bounded(h, f, g, c)
    BY <1>8 DEF Bounded
<1>10. AddUp(f) \in Int /\ AddUp(g) \in Int /\ AddUp(g) - AddUp(f) <= c[h] - c[0]
    BY <1>1, <1>2, <1>6, <1>9, SumDifference
<1>11. AddUp(f) = 0
    BY <1>1, SumOfZeros DEF f
<1>12. AddUp(g) <= 6 * pi - 4
    BY <1>7, <1>10, <1>11
<1>13. QED
    BY <1>12 DEF g, pi, Total

\* A state of which signature n is taken.
Right(h, s, n, a) ==
    /\ Sound(h, s, n, a) /\ Budget(h, s, n)
    /\ PathRight(h, s.auth, n, a) /\ KeptRight(h, s.keep, n, a)

\* A leaf that is not the last has a zero.
LEMMA FirstZeroBeforeLast ==
    ASSUME NEW h \in Nat, NEW n \in Nat, n + 1 < 2 ^ h
    PROVE  \E t \in 0 .. h - 1 : Ones(n, t) /\ Bit(n, t) = 0
<1>1. ~Ones(n, h)
    <2>1. SUFFICES ASSUME Ones(n, h)
                   PROVE  FALSE
        OBVIOUS
    <2> DEFINE p == 2 ^ h
               q == Above(n, h)
    <2>2. Below(n, h) = p - 1
        BY <2>1, OnesBelow
    <2>3. n = p * q + Below(n, h) /\ q \in Nat
        BY OneUp
    <2>4. p \in Nat
        BY Powers
    <2>5. n = p * q + (p - 1) /\ n + 1 < p
        BY <2>2, <2>3
    <2> HIDE DEF p, q
    <2>6. p * q \in Nat
        BY <2>3, <2>4
    <2> DEFINE m == p * q
    <2>7. m \in Nat /\ n = m + (p - 1)
        BY <2>5, <2>6
    <2> HIDE DEF m
    <2>8. QED
        BY <2>4, <2>5, <2>7
<1>2. QED
    BY <1>1, FirstZero

\* What a signature makes of the state is one of which the next is taken.
LEMMA StateMoves ==
    ASSUME tree_height \in Nat, tree_height >= 2, NEW s \in States, NEW a \in Addresses, NEW n \in Nat,
           n + 1 < Leaves, Right(tree_height, s, n, a)
    PROVE  LET y == bds_treehash_update(bds_round(s, n, a), tree_height \div 2, a).state
           IN  y \in States /\ Right(tree_height, y, n + 1, a)
<1> DEFINE h == tree_height
           x == bds_round(s, n, a)
           m == h \div 2
           y == bds_treehash_update(x, m, a).state
<1>1. PICK t \in 0 .. h - 1 : Ones(n, t) /\ Bit(n, t) = 0
    BY FirstZeroBeforeLast DEF Leaves
<1>2. Sound(h, s, n, a) /\ Budget(h, s, n) /\ PathRight(h, s.auth, n, a) /\ KeptRight(h, s.keep, n, a)
    BY DEF Right
<1>3. t \in Nat /\ m \in Nat /\ h <= 2 * m + 1 /\ n + 1 \in Nat
    OBVIOUS
<1>4. \A i \in 0 .. t - 1 : i \notin Open(s)
    <2>1. SUFFICES ASSUME NEW i \in 0 .. t - 1, i \in Open(s)
                   PROVE  FALSE
        OBVIOUS
    <2>2. i < t
        BY <1>3, <2>1
    <2>3. QED
        BY <1>1, <1>2, <1>3, <2>1, <2>2, FinishedInTime
<1>5. /\ x \in States /\ Sound(h, x, n + 1, a)
      /\ PathRight(h, x.auth, n + 1, a) /\ KeptRight(h, x.keep, n + 1, a)
    BY <1>1, <1>2, <1>4, RoundSound
<1>6. /\ DOMAIN x.treehash = Levels
      /\ \A i \in Levels : x.treehash[i] = RestartedAt(h, s.treehash[i], n, i, t)
    <2>1. x.treehash = [i \in Levels |-> RestartedAt(h, s.treehash[i], n, i, t)]
        BY <1>1, RoundFields
    <2>2. QED
        BY <2>1
<1> HIDE DEF x, m
<1>7. After(h, x, y, n + 1, a, m)
    BY <1>3, <1>5, UpdatesRight
<1> HIDE DEF y
<1>8. /\ y \in States /\ Sound(h, y, n + 1, a) /\ y.auth = x.auth /\ y.keep = x.keep
      /\ \A i \in Open(y) : i \in Open(x) /\ Total(h, y, n + 1, i) <= Total(h, x, n + 1, i) - 2 * m
    BY <1>7 DEF After
<1>9. ASSUME NEW i \in Open(y)
      PROVE  Total(h, y, n + 1, i) <= 6 * 2 ^ i - 4 - 2 * m
    <2>1. i \in Open(x) /\ i \in Levels /\ i \in Nat
        BY <1>5, <1>8, InstanceTypes
    <2>2. Total(h, x, n + 1, i) \in Int /\ Total(h, y, n + 1, i) \in Int /\ Total(h, s, n, i) \in Int
        BY <1>3, <1>5, <1>8, <2>1, TotalType
    <2>3. 2 ^ i \in Nat
        BY <2>1, Powers
    <2> DEFINE p == 2 ^ i
               ts == Total(h, s, n, i)
               tx == Total(h, x, n + 1, i)
               ty == Total(h, y, n + 1, i)
    <2>4. ty <= tx - 2 * m /\ ts \in Int /\ tx \in Int /\ ty \in Int /\ p \in Nat
        BY <1>8, <2>2, <2>3
    <2>5. CASE i < t
        <3>1. \A k \in 0 .. i : Below(n + 1, k + 1) = 0
            <4>1. SUFFICES ASSUME NEW k \in 0 .. i
                           PROVE  Below(n + 1, k + 1) = 0
                OBVIOUS
            <4>2. k + 1 \in Nat /\ k + 1 <= t
                BY <1>3, <2>1, <2>5
            <4>3. Ones(n, k + 1)
                BY <1>1, <4>2 DEF Ones
            <4>4. QED
                BY <4>2, <4>3, NextLeaf
        <3>2. tx <= 6 * p - 4
            <4>1. Nested(x, a)
                BY <1>5 DEF Sound
            <4>2. QED
                BY <1>3, <1>5, <2>1, <3>1, <4>1, FreshTotal
        <3> HIDE DEF p, ts, tx, ty
        <3>3. ty <= 6 * p - 4 - 2 * m
            BY <1>3, <2>4, <3>2
        <3>4. QED
            BY <3>3 DEF ty, p
    <2>6. CASE ~(i < t)
        <3>1. tx <= ts + i + 2
            <4>1. \A k \in Levels : k < t => s.treehash[k].completed
                <5>1. \A k \in Levels : k \in Nat /\ (k \notin Open(s) <=> s.treehash[k].completed)
                    BY InstanceTypes
                <5>2. \A k \in Levels : k < t => k \in 0 .. t - 1
                    BY <1>3, <5>1
                <5>3. QED
                    BY <1>4, <5>1, <5>2
            <4>2. t <= i
                BY <1>3, <2>1, <2>6
            <4>3. QED
                BY <1>1, <1>3, <1>5, <1>6, <2>1, <4>1, <4>2, TotalRises
        <3>2. i \in Open(s)
            <4>1. x.treehash[i] = s.treehash[i]
                BY <1>6, <2>1, <2>6 DEF RestartedAt
            <4>2. DOMAIN s.treehash = Levels
                BY InstanceTypes
            <4>3. QED
                BY <2>1, <4>1, <4>2 DEF Open
        <3>3. ts <= 6 * p - 4 - 2 * m
            BY <1>2, <3>2 DEF Budget, m
        <3>4. i <= h - 3
            <4>1. ~s.treehash[i].completed /\ InstanceRight(h, s.treehash[i], n, i, a)
                BY <1>2, <2>1, <3>2 DEF Open, Sound, Levels
            <4>2. QED
                BY <4>1 DEF InstanceRight
        <3> HIDE DEF p, ts, tx, ty
        <3>5. ty <= 6 * p - 4 - 2 * m
            BY <1>3, <2>1, <2>4, <3>1, <3>3, <3>4
        <3>6. QED
            BY <3>5 DEF ty, p
    <2>7. QED
        BY <2>5, <2>6
<1>10. Budget(h, y, n + 1)
    BY <1>9 DEF Budget, m
<1>11. Right(h, y, n + 1, a)
    BY <1>5, <1>8, <1>10 DEF Right
<1>12. QED
    BY <1>8, <1>11 DEF y, x, m

-----------------------------------------------------------------------------
(* The first state and the verifier *)

\* Key generation makes a state of which signature 0 is taken.
LEMMA FirstStateRight ==
    ASSUME tree_height \in Nat, tree_height >= 2, NEW a \in Addresses
    PROVE  LET s == treehash_init(EmptyState, a).state
           IN  s \in States /\ Right(tree_height, s, 0, a)
<1> DEFINE h == tree_height
           s == treehash_init(EmptyState, a).state
<1>1. /\ s \in States /\ s.stack = <<>> /\ s.peak = 0 /\ s.next_leaf = 0
      /\ \A i \in Levels :
           /\ s.auth[i] = NodeAt(a, i, 1)
           /\ s.treehash[i].completed
           /\ s.treehash[i].next_idx = 0
           /\ s.treehash[i].stackusage = 0
           /\ s.treehash[i].node \in {NoNode, NodeAt(a, i, 3)}
           /\ i <= h - 2 => s.treehash[i].node = NodeAt(a, i, 3)
    BY KeyGenerated
<1> HIDE DEF s
<1>2. Open(s) = {}
    BY <1>1, InstanceTypes
<1>3. 2 ^ 0 = 1 /\ 2 ^ 1 = 2 /\ 2 ^ 2 = 4
    <2>1. 2 ^ 0 = 1 /\ 2 ^ (0 + 1) = 2 * 2 ^ 0 /\ 2 ^ (1 + 1) = 2 * 2 ^ 1
        BY Powers
    <2>2. QED
        BY <2>1
<1>4. 2 ^ h \in Nat /\ 2 ^ h >= 4
    <2>1. 2 ^ 2 <= 2 ^ h /\ 2 ^ h \in Nat
        BY Powers, PowersGrow
    <2>2. QED
        BY <1>3, <2>1
<1>5. ASSUME NEW i \in 0 .. h - 1
      PROVE  /\ InstanceRight(h, s.treehash[i], 0, i, a)
             /\ s.auth[i] = NodeAt(a, i, Sibling(0, i))
             /\ Bit(0, i) = 0
    <2>1. i \in Levels /\ i \in Nat /\ i + 1 \in Nat /\ i \in 0 .. h
        BY DEF Levels
    <2>2. Above(0, i) = 0 /\ Bit(0, i) = 0 /\ Above(0, i + 1) = 0
        BY <2>1, NoBits
    <2>3. Target(0, i) = 3
        BY <2>2 DEF Target
    <2>4. InTree(h, s.treehash[i].node, a)
        <3> DEFINE p == 2 ^ h
        <3>1. 3 \in 0 .. p - 1
            BY <1>4
        <3> HIDE DEF p
        <3>2. InTree(h, NodeAt(a, i, 3), a)
            BY <2>1, <3>1 DEF InTree, p
        <3>3. QED
            BY <1>1, <2>1, <3>2 DEF InTree
    <2>5. Needed(h, 0, i) => i <= h - 2
        <3>1. SUFFICES ASSUME i = h - 1, 3 < 2 ^ (h - i)
                       PROVE  FALSE
            BY <2>3 DEF Needed
        <3>2. h - i = 1
            BY <3>1
        <3>3. QED
            BY <1>3, <3>1, <3>2
    <2>6. InstanceRight(h, s.treehash[i], 0, i, a)
        <3>1. s.treehash[i].next_idx < 2 ^ h
            BY <1>1, <1>4, <2>1
        <3>2. QED
            BY <1>1, <2>1, <2>3, <2>4, <2>5, <3>1 DEF InstanceRight
    <2>7. Sibling(0, i) = 1
        BY <2>2 DEF Sibling
    <2>8. QED
        BY <1>1, <2>1, <2>2, <2>6, <2>7
<1>6. Nested(s, a)
    <2>1. Len(s.stack) = 0
        BY <1>1
    <2>2. Falling(s.stack) /\ 1 .. Len(s.stack) = {}
        BY <2>1 DEF Falling
    <2>3. QED
        BY <1>2, <2>2 DEF Nested
<1>7. Sound(h, s, 0, a)
    BY <1>1, <1>5, <1>6 DEF Sound
<1>8. Budget(h, s, 0)
    BY <1>2 DEF Budget
<1>9. PathRight(h, s.auth, 0, a)
    BY <1>5 DEF PathRight
<1>10. KeptRight(h, s.keep, 0, a)
    <2>1. \A i \in 0 .. h - 2 : i \in 0 .. h - 1
        OBVIOUS
    <2>2. QED
        BY <1>5, <2>1 DEF KeptRight
<1>11. QED
    BY <1>1, <1>7, <1>8, <1>9, <1>10 DEF Right, s

RootOp(p, node, i) ==
    IF Bit(p[1], i - 1) = 1
    THEN thash_h(p[2][i - 1], node, p[3], i - 1, p[1] \div 2 ^ ((i - 1) + 1))
    ELSE thash_h(node, p[2][i - 1], p[3], i - 1, p[1] \div 2 ^ ((i - 1) + 1))
Roots == INSTANCE SequenceFolds WITH op <- RootOp

\* The path of a leaf leads from it to the root.
LEMMA RootOfPath ==
    ASSUME tree_height \in Nat, NEW n \in Nat, n < 2 ^ tree_height, NEW auth, NEW a,
           PathRight(tree_height, auth, n, a)
    PROVE  compute_root(NodeAt(a, 0, n), n, auth, a) = NodeAt(a, tree_height, 0)
<1> DEFINE h == tree_height
           seq == [i \in 1 .. h |-> i]
           p == <<n, auth, a>>
           leaf == NodeAt(a, 0, n)
           root == compute_root(leaf, n, auth, a)
<1>1. DOMAIN seq = 1 .. h /\ \A k \in 1 .. h : seq[k] = k
    OBVIOUS
<1>2. Roots!Fold(p, leaf, seq) = root
    <2>1. <<n, auth, a>>[1] = n /\ <<n, auth, a>>[2] = auth /\ <<n, auth, a>>[3] = a
        OBVIOUS
    <2> HIDE DEF leaf
    <2>2. QED
        BY <2>1 DEF compute_root, Roots!Fold, RootOp, FoldLeft, MapThenFoldSet, Max,
                    Roots!FoldLeft, Roots!MapThenFoldSet, Roots!Max
<1>3. p[1] = n /\ p[2] = auth /\ p[3] = a
    OBVIOUS
<1> HIDE DEF seq, p, leaf, root
<1>4. h \in Nat /\ DOMAIN seq = 1 .. h /\ Roots!Fold(p, leaf, seq) = root
    BY <1>1, <1>2
<1> HIDE DEF h
<1>5. PICK fold : /\ fold[0] = leaf
                  /\ \A k \in 1 .. h : fold[k] = RootOp(p, fold[k - 1], seq[k])
                  /\ fold[h] = root
    <2>1. PICK fold : Roots!IsFold(fold, p, leaf, seq, h)
        BY ONLY <1>4, Roots!FoldExists
    <2>2. QED
        BY <1>4, <2>1 DEF Roots!IsFold
<1> DEFINE S == {k \in Nat : k <= h => fold[k] = NodeAt(a, k, Above(n, k))}
<1>6. 0 \in S
    <2>1. Above(n, 0) = n
        BY OneUp
    <2>2. QED
        BY <1>5, <2>1 DEF leaf
<1>7. ASSUME NEW k \in Nat, k \in S
      PROVE  k + 1 \in S
    <2>1. ASSUME k + 1 <= h
          PROVE  fold[k + 1] = NodeAt(a, k + 1, Above(n, k + 1))
        <3>1. k + 1 \in 1 .. h /\ (k + 1) - 1 = k /\ k <= h /\ k \in 0 .. h - 1
            BY <1>4, <2>1
        <3>2. fold[k] = NodeAt(a, k, Above(n, k))
            BY <1>7, <3>1
        <3>3. fold[k + 1] = RootOp(p, fold[k], k + 1)
            BY <1>1, <1>5, <3>1 DEF h
        <3>4. fold[k + 1] = IF Bit(n, k) = 1
                            THEN thash_h(auth[k], fold[k], a, k, n \div 2 ^ (k + 1))
                            ELSE thash_h(fold[k], auth[k], a, k, n \div 2 ^ (k + 1))
            BY <1>3, <3>1, <3>3 DEF RootOp
        <3>5. auth[k] = NodeAt(a, k, Sibling(n, k))
            BY <3>1 DEF PathRight, h
        <3>6. Bit(n, k) = 1 \/ Bit(n, k) = 0
            <4>1. Bit(n, k) \in 0 .. 1
                BY AboveType
            <4>2. QED
                BY <4>1
        <3>7. CASE Bit(n, k) = 1
            <4>1. auth[k] = NodeAt(a, k, Above(n, k) - 1)
                BY <3>5, <3>7 DEF Sibling
            <4>2. fold[k + 1] = thash_h(NodeAt(a, k, Above(n, k) - 1), NodeAt(a, k, Above(n, k)),
                                        a, k, n \div 2 ^ (k + 1))
                BY <3>2, <3>4, <3>7, <4>1
            <4>3. QED
                BY <3>7, <4>2, ParentOfSiblings
        <3>8. CASE Bit(n, k) = 0
            <4>1. auth[k] = NodeAt(a, k, Above(n, k) + 1)
                BY <3>5, <3>8 DEF Sibling
            <4>2. fold[k + 1] = thash_h(NodeAt(a, k, Above(n, k)), NodeAt(a, k, Above(n, k) + 1),
                                        a, k, n \div 2 ^ (k + 1))
                BY <3>2, <3>4, <3>8, <4>1
            <4>3. QED
                BY <3>8, <4>2, ParentOfSiblings
        <3>9. QED
            BY <3>6, <3>7, <3>8
    <2>2. QED
        BY <2>1
<1>8. h \in S
    <2> HIDE DEF S
    <2>1. QED
        BY <1>4, <1>6, <1>7, Sums!InductionOnNat
<1>9. Above(n, h) = 0
    <2>1. h \in 0 .. h /\ h - h = 0 /\ 2 ^ 0 = 1
        BY <1>4, Powers
    <2> DEFINE e == h - h
               q == Above(n, h)
    <2>2. q < 2 ^ e
        BY <1>4, <2>1, AboveInTree DEF h
    <2>3. q \in Nat
        BY <1>4, AboveType
    <2>4. e = 0 /\ 2 ^ 0 = 1
        BY <1>4, <2>1
    <2> HIDE DEF e, q
    <2>5. q < 1
        BY <2>2, <2>4
    <2>6. q = 0
        BY <2>3, <2>5
    <2>7. QED
        BY <2>6 DEF q
<1>10. QED
    BY <1>4, <1>5, <1>8, <1>9 DEF h, root, leaf

OpenOp(p, value, i) ==
    LET leafidx == (p.idx \div 2 ^ (tree_height * (i - 1))) % Leaves
        tree    == p.idx \div 2 ^ (tree_height * ((i - 1) + 1))
    IN  compute_root(wots_pk_from_sig(p.layers[i - 1].wots, value, Leaf(i - 1, tree, leafidx)),
                     leafidx, p.layers[i - 1].auth, Addr(i - 1, tree))
Opens == INSTANCE SequenceFolds WITH op <- OpenOp

\* The signature of a message with leaf n of the only tree.
Tree == [layer |-> 0, tree |-> 0]
SignatureOf(n, auth) ==
    [idx |-> n, layers |-> [i \in 0 .. 0 |-> [wots |-> wots_sign(Message, Tree, n), auth |-> auth]]]

\* It verifies if the path with it is that of the leaf.
LEMMA SignatureOpens ==
    ASSUME tree_height \in Nat, d = 1, NEW n \in Nat, n < Leaves, NEW auth,
           PathRight(tree_height, auth, n, Tree)
    PROVE  xmssmt_core_sign_open(SignatureOf(n, auth))
<1> DEFINE s == SignatureOf(n, auth)
           seq == [i \in 1 .. d |-> i]
           root == FoldLeft(LAMBDA value, i : OpenOp(s, value, i), Message, seq)
<1>1. DOMAIN seq = 1 .. 1 /\ seq[1] = 1
    OBVIOUS
<1>2. xmssmt_core_sign_open(s) <=> root = PublicRoot
    BY DEF xmssmt_core_sign_open, OpenOp
<1>3. Opens!Fold(s, Message, seq) = root
    <2> HIDE DEF s, seq
    <2>1. QED
        BY DEF Opens!Fold, FoldLeft, MapThenFoldSet, Max,
               Opens!FoldLeft, Opens!MapThenFoldSet, Opens!Max
<1>4. s.idx = n /\ s.layers[0].wots = wots_sign(Message, Tree, n) /\ s.layers[0].auth = auth
    <2> DEFINE wots == wots_sign(Message, Tree, n)
    <2> HIDE DEF wots
    <2>1. s = [idx |-> n, layers |-> [i \in 0 .. 0 |-> [wots |-> wots, auth |-> auth]]]
        BY DEF SignatureOf, wots
    <2> HIDE DEF s
    <2>2. QED
        BY <2>1 DEF wots
<1> HIDE DEF s, seq, root
<1> DEFINE one == 1
<1>5. one \in Nat /\ DOMAIN seq = 1 .. one /\ Opens!Fold(s, Message, seq) = root
    BY <1>1, <1>3
<1> HIDE DEF one
<1>6. PICK fold : /\ fold[0] = Message
                  /\ \A k \in 1 .. one : fold[k] = OpenOp(s, fold[k - 1], seq[k])
                  /\ fold[one] = root
    <2>1. PICK fold : Opens!IsFold(fold, s, Message, seq, one)
        BY ONLY <1>5, Opens!FoldExists
    <2>2. QED
        BY <1>5, <2>1 DEF Opens!IsFold
<1>7. root = OpenOp(s, Message, 1)
    <2>1. one = 1 /\ 1 \in 1 .. one /\ 1 - 1 = 0
        BY DEF one
    <2>2. fold[1] = OpenOp(s, fold[0], seq[1])
        BY <1>6, <2>1
    <2>3. QED
        BY <1>1, <1>6, <2>1, <2>2
<1>8. (n \div 2 ^ (tree_height * 0)) % Leaves = n /\ n \div 2 ^ (tree_height * (0 + 1)) = 0
    <2>1. tree_height * 0 = 0 /\ tree_height * (0 + 1) = tree_height /\ 2 ^ 0 = 1
        BY Powers
    <2> DEFINE p == 2 ^ tree_height
    <2>2. p \in Nat /\ n < p /\ Leaves = p
        BY Powers DEF Leaves
    <2> HIDE DEF p
    <2>3. n \div 1 = n /\ n % p = n /\ n \div p = 0
        BY <2>2
    <2>4. QED
        BY <2>1, <2>2, <2>3 DEF p
<1> DEFINE place == Leaf(0, 0, n)
<1>9. wots_pk_from_sig(wots_sign(Message, Tree, n), Message, place) = place
    <2>1. wots_sign(Message, Tree, n) = [key |-> place, value |-> Message]
        BY DEF wots_sign, Tree
    <2> HIDE DEF place
    <2>2. QED
        BY <2>1 DEF wots_pk_from_sig
<1>10. OpenOp(s, Message, 1) = compute_root(place, n, auth, Tree)
    <2> DEFINE leafidx == (s.idx \div 2 ^ (tree_height * 0)) % Leaves
               tree == s.idx \div 2 ^ (tree_height * (0 + 1))
    <2>1. leafidx = n /\ tree = 0
        BY <1>4, <1>8
    <2>2. 1 - 1 = 0
        OBVIOUS
    <2>3. OpenOp(s, Message, 1)
            = compute_root(wots_pk_from_sig(s.layers[0].wots, Message, Leaf(0, tree, leafidx)),
                           leafidx, s.layers[0].auth, Addr(0, tree))
        BY <2>2 DEF OpenOp
    <2>4. Addr(0, 0) = Tree
        BY DEF Addr, Tree
    <2> HIDE DEF leafidx, tree
    <2>5. QED
        BY <1>4, <1>9, <2>1, <2>3, <2>4
<1>11. place = NodeAt(Tree, 0, n)
    BY DEF NodeAt, Leaf, Tree
<1>12. compute_root(NodeAt(Tree, 0, n), n, auth, Tree) = NodeAt(Tree, tree_height, 0)
    BY RootOfPath DEF Leaves
<1>13. NodeAt(Tree, tree_height, 0) = PublicRoot
    BY DEF NodeAt, PublicRoot, Tree
<1>14. QED
    BY <1>2, <1>7, <1>10, <1>11, <1>12, <1>13 DEF s

-----------------------------------------------------------------------------
(* XMSS: one tree *)

Signed(h, s) ==
    s # <<>> => /\ s.idx \in Nat /\ s.idx < 2 ^ h
                /\ s = SignatureOf(s.idx, s.layers[0].auth)
                /\ PathRight(h, s.layers[0].auth, s.idx, Tree)

\* What holds between two signatures: the state is one of which the next
\* signature is taken.
TraversalInvariant ==
    /\ d = 1 /\ tree_height \in 3 .. 20 /\ <<tree_height, d>> \in Params
    /\ idx \in 0 .. Leaves - 1
    /\ DOMAIN states = 0 .. 2 * d - 2 /\ states[0] \in States
    /\ Right(tree_height, states[0], idx, Tree)
    /\ Signed(tree_height, sm)

\* A new key of one tree.
LEMMA FirstInvariant == Init /\ d = 1 => TraversalInvariant
<1> SUFFICES ASSUME Init, d = 1
             PROVE  TraversalInvariant
    OBVIOUS
<1>1. tree_height \in 3 .. 20 /\ <<tree_height, d>> \in Params
    <2>1. PICK p \in Params : tree_height = p[1] /\ d = p[2]
        BY DEF Init
    <2>2. p \in (3 .. 20) \X (1 .. 12)
        BY <2>1, ParamsAssumption
    <2>3. p = <<tree_height, d>>
        BY <2>1, <2>2
    <2>4. QED
        BY <2>1, <2>2, <2>3
<1>2. tree_height \in Nat /\ tree_height >= 2
    BY <1>1
<1> DEFINE s == treehash_init(EmptyState, Tree).state
<1>3. s \in States /\ Right(tree_height, s, 0, Tree)
    <2>1. Tree \in Addresses
        BY DEF Tree, Addresses
    <2>2. QED
        BY <1>2, <2>1, FirstStateRight
<1>4. DOMAIN states = 0 .. 2 * d - 2 /\ states[0] = s
    <2>1. states = [i \in 0 .. 2 * d - 2 |-> IF i < d THEN FirstTrees[i].state ELSE EmptyState]
        BY DEF Init
    <2>2. 0 \in 0 .. 2 * d - 2 /\ 0 < d /\ 0 \in 0 .. d - 1
        OBVIOUS
    <2>3. states[0] = FirstTrees[0].state
        BY <2>1, <2>2
    <2>4. FirstTrees[0] = treehash_init(EmptyState, Addr(0, 0))
        BY <2>2 DEF FirstTrees
    <2>5. Addr(0, 0) = Tree
        BY DEF Addr, Tree
    <2>6. QED
        BY <2>1, <2>3, <2>4, <2>5
<1> HIDE DEF s
<1>5. idx = 0 /\ sm = <<>>
    BY DEF Init
<1>6. 0 \in 0 .. Leaves - 1
    <2>1. 2 ^ tree_height \in Nat \ {0}
        BY <1>2, Powers
    <2>2. QED
        BY <2>1 DEF Leaves
<1>7. QED
    BY <1>1, <1>3, <1>4, <1>5, <1>6 DEF TraversalInvariant, Signed

\* One signature more.
LEMMA NextInvariant == TraversalInvariant /\ [Next]_vars => TraversalInvariant'
<1> SUFFICES ASSUME TraversalInvariant, [Next]_vars
             PROVE  TraversalInvariant'
    OBVIOUS
<1>1. /\ d = 1 /\ tree_height \in 3 .. 20 /\ <<tree_height, d>> \in Params
      /\ idx \in 0 .. Leaves - 1
      /\ DOMAIN states = 0 .. 2 * d - 2 /\ states[0] \in States
      /\ Right(tree_height, states[0], idx, Tree) /\ Signed(tree_height, sm)
    BY DEF TraversalInvariant
<1>2. CASE UNCHANGED vars
    <2>1. /\ tree_height' = tree_height /\ d' = d /\ idx' = idx /\ states' = states /\ sm' = sm
        BY <1>2 DEF vars
    <2>2. Leaves' = Leaves /\ States' = States
        BY <2>1 DEF Leaves, States, Levels
    <2>3. QED
        BY <1>1, <2>1, <2>2 DEF TraversalInvariant
<1>3. CASE Next
    <2>1. xmss_core_sign
        BY <1>1, <1>3 DEF Next, xmssmt_core_sign
    <2> DEFINE h == tree_height
               s == states[0]
               y == bds_treehash_update(bds_round(s, idx, Tree), h \div 2, Tree).state
    <2>2. /\ tree_height' = tree_height /\ d' = d /\ idx' = idx + 1 /\ idx < LastIndex
          /\ states' = [states EXCEPT ![0] = y]
          /\ sm' = [idx |-> idx, layers |-> Signature]
        <3>1. Addr(0, 0) = Tree
            BY DEF Addr, Tree
        <3>2. QED
            BY <2>1, <3>1 DEF xmss_core_sign
    <2>3. Leaves' = Leaves /\ States' = States
        BY <2>2 DEF Leaves, States, Levels
    <2>4. /\ h \in Nat /\ h >= 2 /\ Leaves \in Nat /\ idx \in Nat /\ idx + 1 < Leaves
          /\ LastIndex = Leaves - 1
        <3>1. h \in Nat /\ h >= 2 /\ h * 1 = h
            BY <1>1
        <3>2. LastIndex = Leaves - 1
            BY <1>1, <3>1 DEF LastIndex, FullLeaves, Leaves
        <3>3. Leaves \in Nat
            BY <3>1, Powers DEF Leaves
        <3>4. QED
            BY <1>1, <2>2, <3>1, <3>2, <3>3
    <2>5. y \in States /\ Right(h, y, idx + 1, Tree)
        <3>1. Tree \in Addresses
            BY DEF Tree, Addresses
        <3>2. QED
            BY <1>1, <2>4, <3>1, StateMoves
    <2> HIDE DEF y
    <2>6. DOMAIN states' = 0 .. 2 * d' - 2 /\ states'[0] = y
        BY <1>1, <2>2
    <2>7. Signed(h, sm')
        <3> DEFINE auth == s.auth
        <3>1. Signature = [i \in 0 .. 0 |-> [wots |-> wots_sign(Message, Tree, idx), auth |-> auth]]
            <4>1. TreeAt(0) = 0 /\ LeafAt(0) = idx
                <5>1. h * (0 + 1) = h /\ h * 0 = 0 /\ 2 ^ 0 = 1 /\ idx < Leaves
                    BY <2>4, Powers
                <5> DEFINE p == 2 ^ h
                <5>2. p = Leaves
                    BY DEF Leaves
                <5> HIDE DEF p
                <5>3. idx \div p = 0 /\ idx \div 1 = idx /\ idx % p = idx
                    BY <2>4, <5>1, <5>2
                <5>4. QED
                    BY <5>1, <5>2, <5>3 DEF TreeAt, LeafAt, p
            <4>2. Addr(0, 0) = Tree /\ 0 .. d - 1 = 0 .. 0
                BY <1>1 DEF Addr, Tree
            <4>3. \A i \in 0 .. 0 : i = 0
                OBVIOUS
            <4>4. Signature = [i \in 0 .. 0 |->
                                 [wots |-> IF i = 0 THEN wots_sign(Message, Addr(0, TreeAt(0)), LeafAt(0))
                                           ELSE wots_sigs[i - 1],
                                  auth |-> states[i].auth]]
                BY <4>2 DEF Signature
            <4>5. QED
                BY <4>1, <4>2, <4>3, <4>4
        <3>2. sm' = SignatureOf(idx, auth)
            BY <2>2, <3>1 DEF SignatureOf
        <3>3. PathRight(h, auth, idx, Tree)
            BY <1>1 DEF Right
        <3> HIDE DEF auth
        <3>4. SignatureOf(idx, auth).idx = idx /\ SignatureOf(idx, auth).layers[0].auth = auth
            <4> DEFINE wots == wots_sign(Message, Tree, idx)
            <4> HIDE DEF wots
            <4>1. SignatureOf(idx, auth)
                    = [idx |-> idx, layers |-> [i \in 0 .. 0 |-> [wots |-> wots, auth |-> auth]]]
                BY DEF SignatureOf, wots
            <4>2. QED
                BY <4>1
        <3>5. sm'.idx = idx /\ sm'.layers[0].auth = auth
            BY <3>2, <3>4
        <3>6. idx < 2 ^ h
            BY <2>4 DEF Leaves
        <3>7. QED
            BY <2>4, <3>2, <3>3, <3>5, <3>6 DEF Signed
    <2>8. QED
        BY <1>1, <2>2, <2>3, <2>4, <2>5, <2>6, <2>7 DEF TraversalInvariant
<1>4. QED
    BY <1>2, <1>3

\* With one tree the invariant holds throughout.
THEOREM TraversalSafe == Spec /\ d = 1 => []TraversalInvariant
BY FirstInvariant, NextInvariant, PTL DEF Spec

\* The nodes of the tree have the type of nodes.
LEMMA NodesOfTree ==
    ASSUME TraversalInvariant, NEW l \in 0 .. tree_height, NEW i \in Nat, i < 2 ^ tree_height
    PROVE  NodeType(NodeAt(Tree, l, i))
<1> DEFINE node == NodeAt(Tree, l, i)
<1>1. d = 1 /\ tree_height \in Nat
    BY DEF TraversalInvariant
<1>2. node = <<0, 0, l, i>>
    BY DEF NodeAt, Node, Tree
<1>3. i \in 0 .. Leaves - 1
    <2>1. Leaves \in Nat
        BY <1>1, Powers DEF Leaves
    <2>2. i < Leaves
        BY DEF Leaves
    <2>3. QED
        BY <2>1, <2>2
<1>4. 0 \in 0 .. d - 1 /\ 0 \in 0 .. 2 ^ (tree_height * (d - 1))
    <2> DEFINE e == tree_height * (d - 1)
    <2>1. e = 0
        BY <1>1
    <2>2. 0 \in 0 .. d - 1
        BY <1>1
    <2> HIDE DEF e
    <2>3. 2 ^ e = 1
        BY <2>1, Powers
    <2>4. 0 \in 0 .. 2 ^ e
        BY <2>3
    <2>5. QED
        BY <2>2, <2>4 DEF e
<1> HIDE DEF node
<1>5. Len(node) = 4 /\ node[1] = 0 /\ node[2] = 0 /\ node[3] = l /\ node[4] = i
    BY <1>2
<1>6. QED
    BY <1>3, <1>4, <1>5 DEF NodeType, node

\* A state of which a signature is taken has its type.
LEMMA StateTypeRight ==
    ASSUME TraversalInvariant
    PROVE  StateType(states[0])
<1> DEFINE s == states[0]
           h == tree_height
           n == idx
           st == s.stack
<1>1. /\ d = 1 /\ h \in Nat /\ h >= 3 /\ s \in States /\ n \in Nat /\ n < 2 ^ h
      /\ Right(h, s, n, Tree)
    <2>1. 2 ^ h \in Nat
        <3>1. h \in Nat
            BY DEF TraversalInvariant
        <3>2. QED
            BY <3>1, Powers
    <2>2. QED
        BY <2>1 DEF TraversalInvariant, Leaves
<1>2. /\ Nested(s, Tree) /\ s.next_leaf = 0 /\ PathRight(h, s.auth, n, Tree)
      /\ \A i \in 0 .. h - 1 : InstanceRight(h, s.treehash[i], n, i, Tree)
    BY <1>1 DEF Right, Sound
<1>3. /\ Open(s) \subseteq Levels
      /\ \A i \in Levels : /\ i \in Nat /\ s.treehash[i].next_idx \in Nat
                           /\ s.treehash[i].stackusage \in Nat
                           /\ i \notin Open(s) <=> s.treehash[i].completed
    BY <1>1, InstanceTypes
<1>4. /\ \A i \in Open(s) : /\ Cardinality(Own(s, i)) \in Nat /\ Cardinality(Own(s, i)) <= Len(st)
      /\ \A p \in 1 .. Len(st) : st[p].level \in 0 .. h - 1
      /\ Len(st) <= h /\ Len(st) \in Nat
    BY <1>1, <1>2, StackLevels, InstanceTypes
<1>5. \A i \in Nat : i <= h => 2 ^ (h - i) <= 2 ^ h /\ 2 ^ (h - i) \in Nat /\ 2 ^ h \in Nat
    <2>1. SUFFICES ASSUME NEW i \in Nat, i <= h
                   PROVE  2 ^ (h - i) <= 2 ^ h /\ 2 ^ (h - i) \in Nat /\ 2 ^ h \in Nat
        OBVIOUS
    <2>2. h - i \in Nat /\ h - i <= h
        BY <1>1, <2>1
    <2>3. QED
        BY <1>1, <2>2, Powers, PowersGrow
<1>6. DOMAIN st = 1 .. Len(st)
    <2>1. st \in Seq(SlotSet)
        BY <1>1, StateFields
    <2> HIDE DEF st
    <2>2. QED
        BY <2>1
<1> HIDE DEF s, n, st, h
<1>7. ASSUME NEW p \in 1 .. Len(st)
      PROVE  NodeType(st[p].node) /\ st[p].level \in 0 .. h
    <2> DEFINE l == st[p].level
    <2>1. l \in 0 .. h - 1 /\ l \in Nat /\ l \in 0 .. h /\ l <= h
        BY <1>1, <1>4
    <2>2. PICK i \in Open(s) : l \in Own(s, i)
        BY <1>2 DEF Nested, st
    <2> DEFINE m == s.treehash[i].next_idx
    <2>3. i \in Levels /\ m \in Nat /\ l \in 0 .. i - 1 /\ Bit(m, l) = 1
        BY <1>3, <2>2 DEF Own, Bits
    <2>4. PICK q \in 1 .. Len(st) : st[q] = Slot(NodeAt(Tree, l, Above(m, l) - 1), l)
        BY <1>2, <2>2, <2>3 DEF Nested, Holds, st
    <2>5. st[q].level = l /\ st[q].node = NodeAt(Tree, l, Above(m, l) - 1)
        BY <2>4 DEF Slot
    <2>6. q = p
        <3>1. Falling(st)
            BY <1>2 DEF Nested, st
        <3>2. ~(q < p) /\ ~(p < q)
            BY <2>1, <2>5, <3>1 DEF Falling
        <3>3. QED
            BY <1>4, <3>2
    <2>7. Above(m, l) - 1 \in Nat /\ Above(m, l) - 1 < 2 ^ h
        <3>1. Above(m, l) \in Nat
            BY <2>1, <2>3, AboveType
        <3>2. Above(m, l) # 0
            BY <2>3 DEF Bit, Above
        <3>3. m < 2 ^ h
            BY <1>2, <2>3 DEF InstanceRight, Levels, h
        <3>4. Above(m, l) < 2 ^ (h - l)
            <4> HIDE DEF l, m
            <4>1. QED
                BY <1>1, <2>1, <2>3, <3>3, AboveInTree
        <3>5. 2 ^ (h - l) <= 2 ^ h /\ 2 ^ (h - l) \in Nat /\ 2 ^ h \in Nat
            BY <1>5, <2>1
        <3> DEFINE x == Above(m, l)
                   y == 2 ^ (h - l)
                   z == 2 ^ h
        <3>6. x \in Nat /\ x # 0 /\ x < y /\ y <= z /\ y \in Nat /\ z \in Nat
            BY <3>1, <3>2, <3>4, <3>5
        <3> HIDE DEF x, y, z
        <3>7. x - 1 \in Nat /\ x - 1 < z
            BY <3>6
        <3>8. QED
            BY <3>7 DEF x, z
    <2>8. NodeType(NodeAt(Tree, l, Above(m, l) - 1))
        BY <2>1, <2>7, NodesOfTree DEF h
    <2>9. QED
        BY <2>1, <2>5, <2>6, <2>8
<1>8. ASSUME NEW i \in Levels
      PROVE  /\ NodeType(s.auth[i]) /\ NodeType(s.treehash[i].node)
             /\ s.treehash[i].next_idx \in 0 .. Leaves - 1
             /\ s.treehash[i].stackusage \in 0 .. tree_height
    <2>1. i \in 0 .. h - 1 /\ i \in Nat /\ i <= h /\ i \in 0 .. h
        BY <1>1 DEF Levels, h
    <2>2. InstanceRight(h, s.treehash[i], n, i, Tree)
        BY <1>2, <2>1
    <2>3. NodeType(s.auth[i])
        <3>1. Sibling(n, i) \in Nat /\ Sibling(n, i) < 2 ^ (h - i)
            BY <1>1, <2>1, SiblingType
        <3>2. Sibling(n, i) < 2 ^ h
            BY <1>5, <2>1, <3>1
        <3>3. s.auth[i] = NodeAt(Tree, i, Sibling(n, i))
            BY <1>2, <2>1 DEF PathRight
        <3>4. QED
            BY <2>1, <3>1, <3>2, <3>3, NodesOfTree DEF h
    <2>4. NodeType(s.treehash[i].node)
        <3>1. CASE s.treehash[i].node = NoNode
            BY <3>1 DEF NodeType
        <3>2. CASE s.treehash[i].node # NoNode
            <4>1. PICK l \in 0 .. h, m \in 0 .. 2 ^ h - 1 : s.treehash[i].node = NodeAt(Tree, l, m)
                BY <2>2, <3>2 DEF InstanceRight, InTree
            <4>2. m \in Nat /\ m < 2 ^ h
                BY <1>5, <2>1
            <4>3. QED
                BY <4>1, <4>2, NodesOfTree DEF h
        <3>3. QED
            BY <3>1, <3>2
    <2>5. s.treehash[i].next_idx \in 0 .. Leaves - 1
        <3>1. s.treehash[i].next_idx \in Nat /\ s.treehash[i].next_idx < 2 ^ h
            BY <1>3, <2>2 DEF InstanceRight
        <3>2. Leaves = 2 ^ h /\ 2 ^ h \in Nat
            BY <1>5, <2>1 DEF Leaves, h
        <3>3. QED
            BY <3>1, <3>2
    <2>6. s.treehash[i].stackusage \in 0 .. tree_height
        <3>1. CASE i \in Open(s)
            <4>1. s.treehash[i].stackusage = Cardinality(Own(s, i))
                BY <1>2, <3>1 DEF Nested
            <4>2. QED
                BY <1>1, <1>4, <3>1, <4>1 DEF h
        <3>2. CASE i \notin Open(s)
            <4>1. s.treehash[i].stackusage = 0
                BY <1>3, <2>2, <3>2 DEF InstanceRight
            <4>2. QED
                BY <1>1, <4>1 DEF h
        <3>3. QED
            BY <3>1, <3>2
    <2>7. QED
        BY <2>3, <2>4, <2>5, <2>6
<1>9. s.next_leaf \in 0 .. Leaves
    <2>1. Leaves \in Nat
        BY <1>1, Powers DEF Leaves, h
    <2>2. QED
        BY <1>2, <2>1
<1>10. QED
    BY <1>6, <1>7, <1>8, <1>9 DEF StateType, s, st, h

\* A key of one tree, of any height: every signature that xmss_core_sign returns
\* carries the authentication path of its leaf, so that xmssmt_core_sign_open
\* computes the root of the public key from it.
THEOREM AllSignaturesVerify == Spec /\ d = 1 => []SignaturesVerify
<1>1. TraversalInvariant => SignaturesVerify
    <2>1. SUFFICES ASSUME TraversalInvariant, sm # <<>>
                   PROVE  xmssmt_core_sign_open(sm)
        BY DEF SignaturesVerify
    <2>2. /\ sm.idx \in Nat /\ sm.idx < Leaves /\ sm = SignatureOf(sm.idx, sm.layers[0].auth)
          /\ PathRight(tree_height, sm.layers[0].auth, sm.idx, Tree)
          /\ tree_height \in Nat /\ d = 1
        <3>1. /\ d = 1 /\ tree_height \in 3 .. 20 /\ Signed(tree_height, sm)
            BY <2>1 DEF TraversalInvariant
        <3>2. QED
            BY ONLY <2>1, <3>1 DEF Signed, Leaves
    <2>3. xmssmt_core_sign_open(SignatureOf(sm.idx, sm.layers[0].auth))
        BY <2>2, SignatureOpens
    <2>4. QED
        BY <2>2, <2>3
<1>2. QED
    BY <1>1, TraversalSafe, PTL

\* The fields of the secret key keep their types: a node that is kept is a node
\* of the tree, and the leaf that an instance starts with is one of its leaves.
THEOREM TraversalTypes == Spec /\ d = 1 => []TypeOK
<1>1. TraversalInvariant => TypeOK
    <2>1. SUFFICES ASSUME TraversalInvariant
                   PROVE  TypeOK
        OBVIOUS
    <2>2. d = 1 /\ tree_height \in Nat /\ <<tree_height, d>> \in Params /\ idx \in 0 .. Leaves - 1
          /\ DOMAIN states = 0 .. 2 * d - 2
        BY <2>1 DEF TraversalInvariant
    <2>3. LastIndex = Leaves - 1
        <3>1. tree_height * 1 = tree_height
            BY <2>2
        <3>2. QED
            BY <2>2, <3>1 DEF LastIndex, FullLeaves, Leaves
    <2>4. \A i \in DOMAIN states : StateType(states[i])
        <3>1. \A i \in DOMAIN states : i = 0
            BY <2>2
        <3>2. QED
            BY <2>1, <3>1, StateTypeRight
    <2>5. QED
        BY <2>2, <2>3, <2>4 DEF TypeOK
<1>2. QED
    BY <1>1, TraversalSafe, PTL

\* The stack that all treehash instances of a tree share never holds more nodes
\* than the secret key has room for, between signatures and during one.
THEOREM TraversalStackBound == Spec /\ d = 1 => []StackStaysInBounds
<1>1. TraversalInvariant => StackStaysInBounds
    <2>1. SUFFICES ASSUME TraversalInvariant, NEW i \in DOMAIN states
                   PROVE  states[i].peak <= tree_height + 1 /\ Len(states[i].stack) <= tree_height + 1
        BY DEF StackStaysInBounds
    <2> DEFINE s == states[0]
    <2>2. /\ d = 1 /\ tree_height \in Nat /\ DOMAIN states = 0 .. 2 * d - 2 /\ s \in States
          /\ Right(tree_height, s, idx, Tree)
        BY <2>1 DEF TraversalInvariant
    <2>3. i = 0
        BY <2>1, <2>2
    <2>4. s.peak <= tree_height /\ s.peak \in Nat /\ Nested(s, Tree)
        BY <2>2, StateFields DEF Right, Sound
    <2>5. Len(s.stack) <= tree_height /\ Len(s.stack) \in Nat
        BY <2>2, <2>4, StackLevels, InstanceTypes
    <2>6. QED
        BY <2>2, <2>3, <2>4, <2>5
<1>2. QED
    BY <1>1, TraversalSafe, PTL
=============================================================================
