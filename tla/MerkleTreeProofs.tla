-------------------------- MODULE MerkleTreeProofs --------------------------
(***************************************************************************)
(* What the algorithms of MerkleTree.tla compute for every list of leaves: *)
(* crypto/merkle.py and crypto/consistency.py. The levels of a tree and    *)
(* the hashes along an inclusion proof are folds; SequenceFolds gives the  *)
(* recursion equation of each.                                             *)
(***************************************************************************)
EXTENDS MerkleTree, SequenceTheorems, TLAPS

\* The two loops of merkle.py as the operators of a fold: the while loop of
\* build_merkle_tree, which ignores the element it is at, and the for loop of
\* verify_inclusion_proof.
GrowOp(p, tree, leaf) == GrowTree(tree)

StepOp(p, h, step) ==
    IF step.direction = "left" THEN HashNode(step.sibling_hash, h)
                               ELSE HashNode(h, step.sibling_hash)

Levels == INSTANCE SequenceFolds WITH op <- GrowOp
Path == INSTANCE SequenceFolds WITH op <- StepOp

\* A list, whatever its elements are.
IsList(s) == \E n \in Nat : s = [i \in 1 .. n |-> s[i]]

-----------------------------------------------------------------------------
(* Lists *)

\* The length of a list is a number, and its elements are at 1 .. Len(s).
LEMMA ListLength ==
    ASSUME NEW s, IsList(s)
    PROVE  /\ Len(s) \in Nat
           /\ DOMAIN s = 1 .. Len(s)
           /\ s = [i \in 1 .. Len(s) |-> s[i]]
           /\ s \in Seq({s[i] : i \in 1 .. Len(s)})
           /\ (s = <<>> <=> Len(s) = 0)
<1>1. PICK n \in Nat : s = [i \in 1 .. n |-> s[i]]
    BY DEF IsList
<1>2. s \in Seq({s[i] : i \in 1 .. n})
    BY <1>1
<1>3. QED
    BY <1>1, <1>2

\* The members of Seq(S) are lists.
LEMMA SeqIsList ==
    ASSUME NEW S, NEW s \in Seq(S)
    PROVE  IsList(s)
    BY DEF IsList

\* Equal lists are those with equal lengths and elements.
LEMMA ListsEqual ==
    ASSUME NEW s, NEW t, IsList(s), IsList(t), Len(s) = Len(t),
           \A i \in 1 .. Len(s) : s[i] = t[i]
    PROVE  s = t
<1>1. s = [i \in 1 .. Len(s) |-> s[i]] /\ t = [i \in 1 .. Len(s) |-> t[i]]
    BY ListLength
<1>2. QED
    BY <1>1, Zenon

\* Appending to a list.
LEMMA AppendToList ==
    ASSUME NEW s, NEW e, IsList(s)
    PROVE  /\ IsList(Append(s, e))
           /\ Len(Append(s, e)) = Len(s) + 1
           /\ \A i \in 1 .. Len(s) : Append(s, e)[i] = s[i]
           /\ Append(s, e)[Len(s) + 1] = e
<1> DEFINE S == {s[i] : i \in 1 .. Len(s)} \cup {e}
<1>1. s \in Seq(S) /\ e \in S /\ Len(s) \in Nat
    <2>1. Len(s) \in Nat /\ s = [i \in 1 .. Len(s) |-> s[i]]
        BY ListLength
    <2>2. \A i \in 1 .. Len(s) : s[i] \in S
        OBVIOUS
    <2>3. s \in [1 .. Len(s) -> S]
        BY <2>1, <2>2
    <2>4. QED
        BY <2>1, <2>3
<1>2. Append(s, e) \in Seq(S)
    BY <1>1
<1>3. IsList(Append(s, e))
    BY <1>2, SeqIsList
<1>4. QED
    <2> HIDE DEF S
    <2>1. QED
        BY <1>1, <1>3

\* The level above a list is a list, half as long.
LEMMA NextLevelIsList ==
    ASSUME NEW s, IsList(s)
    PROVE  /\ IsList(NextLevel(s))
           /\ Len(NextLevel(s)) = (Len(s) + 1) \div 2
           /\ \A i \in 1 .. (Len(s) + 1) \div 2 :
                NextLevel(s)[i] = HashNode(s[2 * i - 1],
                                           s[IF 2 * i <= Len(s) THEN 2 * i ELSE Len(s)])
<1>1. Len(s) \in Nat /\ (Len(s) + 1) \div 2 \in Nat
    BY ListLength
<1>2. QED
    BY <1>1 DEF NextLevel, IsList

\* A level determines the one below it, given its length.
LEMMA NextLevelInjective ==
    ASSUME NEW s, NEW t, IsList(s), IsList(t), Len(s) = Len(t), NextLevel(s) = NextLevel(t)
    PROVE  s = t
<1>1. Len(s) \in Nat
    BY ListLength
<1>2. ASSUME NEW i \in 1 .. Len(s)
      PROVE  s[i] = t[i]
    <2> DEFINE p == (i + 1) \div 2
    <2>1. p \in 1 .. (Len(s) + 1) \div 2 /\ (i = 2 * p - 1 \/ i = 2 * p)
        BY <1>1
    <2> HIDE DEF p
    <2> DEFINE r == IF 2 * p <= Len(s) THEN 2 * p ELSE Len(s)
    <2>2. HashNode(s[2 * p - 1], s[r]) = HashNode(t[2 * p - 1], t[r])
        BY <2>1, NextLevelIsList
    <2>3. s[2 * p - 1] = t[2 * p - 1] /\ s[r] = t[r]
        BY <2>2 DEF HashNode
    <2>4. CASE i = 2 * p
        BY <2>3, <2>4, <1>1
    <2>5. QED
        BY <2>1, <2>3, <2>4
<1>3. QED
    BY <1>2, ListsEqual

-----------------------------------------------------------------------------
(* The levels of a tree *)

\* A list of levels, each the next one above the one before it, which has at
\* least two nodes.
IsStack(t, leaves) ==
    /\ IsList(t) /\ Len(t) >= 1
    /\ t[1] = leaves
    /\ \A k \in 1 .. Len(t) : IsList(t[k]) /\ Len(t[k]) >= 1
    /\ \A k \in 1 .. Len(t) - 1 : Len(t[k]) > 1 /\ t[k + 1] = NextLevel(t[k])

\* The levels from the leaves to a single node.
IsTreeOf(t, leaves) == IsStack(t, leaves) /\ Len(t[Len(t)]) = 1

\* One iteration of the loop keeps a stack one, and shortens the last level.
LEMMA GrowStack ==
    ASSUME NEW t, NEW leaves, IsStack(t, leaves)
    PROVE  /\ IsStack(GrowTree(t), leaves)
           /\ Len(Last(t)) = 1 => Len(Last(GrowTree(t))) = 1
           /\ Len(Last(t)) > 1 => Len(Last(GrowTree(t))) \in 1 .. Len(Last(t)) - 1
           /\ Len(Last(t)) \in Nat
<1>1. IsList(t) /\ Len(t) \in Nat /\ Len(t) >= 1
    BY ListLength DEF IsStack
<1> DEFINE last == t[Len(t)]
           u == Append(t, NextLevel(last))
<1>2. Last(t) = last /\ IsList(last) /\ Len(last) \in Nat /\ Len(last) >= 1
    <2>1. Len(t) \in 1 .. Len(t)
        BY <1>1
    <2>2. QED
        BY <2>1, ListLength DEF Last, IsStack
<1> HIDE DEF last, u
<1>3. CASE Len(last) > 1
    <2>1. /\ IsList(u) /\ Len(u) = Len(t) + 1
          /\ \A k \in 1 .. Len(t) : u[k] = t[k]
          /\ u[Len(t) + 1] = NextLevel(last)
        BY <1>1, AppendToList DEF u
    <2>2. IsList(NextLevel(last)) /\ Len(NextLevel(last)) = (Len(last) + 1) \div 2
        BY <1>2, NextLevelIsList
    <2>3. Len(NextLevel(last)) \in 1 .. Len(last) - 1
        <3>1. \A m \in Nat : m > 1 => (m + 1) \div 2 \in 1 .. m - 1
            OBVIOUS
        <3>2. QED
            BY <1>2, <1>3, <2>2, <3>1
    <2>4. IsStack(u, leaves)
        <3>1. Len(u) >= 1 /\ u[1] = leaves
            BY <1>1, <2>1 DEF IsStack
        <3>2. ASSUME NEW k \in 1 .. Len(u)
              PROVE  IsList(u[k]) /\ Len(u[k]) >= 1
            <4>1. CASE k = Len(t) + 1
                BY <1>2, <2>1, <2>2, <2>3, <4>1
            <4>2. CASE k # Len(t) + 1
                <5>1. k \in 1 .. Len(t)
                    BY <1>1, <2>1, <4>2
                <5>2. QED
                    BY <2>1, <5>1 DEF IsStack
            <4>3. QED
                BY <4>1, <4>2
        <3>3. ASSUME NEW k \in 1 .. Len(u) - 1
              PROVE  Len(u[k]) > 1 /\ u[k + 1] = NextLevel(u[k])
            <4>1. CASE k = Len(t)
                <5>1. k \in 1 .. Len(t) /\ u[k] = last /\ u[k + 1] = NextLevel(last)
                    BY <1>1, <2>1, <4>1 DEF last
                <5>2. QED
                    BY <1>3, <5>1
            <4>2. CASE k # Len(t)
                <5>1. k \in 1 .. Len(t) - 1 /\ k + 1 \in 1 .. Len(t) /\ k \in 1 .. Len(t)
                    BY <1>1, <2>1, <4>2
                <5>2. QED
                    BY <2>1, <5>1 DEF IsStack
            <4>3. QED
                BY <4>1, <4>2
        <3>4. QED
            BY <2>1, <3>1, <3>2, <3>3 DEF IsStack
    <2>5. GrowTree(t) = u
        BY <1>2, <1>3 DEF GrowTree, u
    <2>6. Last(u) = NextLevel(last)
        BY <2>1 DEF Last
    <2>7. Last(GrowTree(t)) = NextLevel(last) /\ Len(Last(t)) = Len(last)
        BY <1>2, <2>5, <2>6
    <2>8. ~(Len(last) = 1)
        <3>1. \A m \in Nat : m > 1 => ~(m = 1)
            OBVIOUS
        <3>2. QED
            BY <1>2, <1>3, <3>1
    <2>9. QED
        BY <1>2, <2>3, <2>4, <2>5, <2>7, <2>8
<1>4. CASE Len(last) = 1
    <2>1. GrowTree(t) = t
        <3>1. ~(Len(last) > 1)
            BY <1>4
        <3>2. QED
            BY <1>2, <3>1 DEF GrowTree
    <2>2. ~(Len(last) > 1) /\ Len(Last(t)) = 1 /\ Len(Last(GrowTree(t))) = 1
        BY <1>2, <1>4, <2>1
    <2>3. QED
        BY <2>1, <2>2
<1>5. Len(last) > 1 \/ Len(last) = 1
    <2>1. \A m \in Nat : m >= 1 => m > 1 \/ m = 1
        OBVIOUS
    <2>2. QED
        BY <1>2, <2>1
<1>6. QED
    BY <1>3, <1>4, <1>5

\* build_merkle_tree ends with a single node, whatever the number of leaves:
\* as many iterations as there are leaves are enough.
THEOREM TreeShape ==
    ASSUME NEW leaves, IsList(leaves), leaves # <<>>
    PROVE  IsTreeOf(BuildMerkleTree(leaves), leaves)
<1> DEFINE n == Len(leaves)
<1>1. n \in Nat /\ n >= 1 /\ DOMAIN leaves = 1 .. n
    BY ListLength
<1>2. BuildMerkleTree(leaves) = Levels!Fold(0, <<leaves>>, leaves)
    BY DEF BuildMerkleTree, GrowOp, FoldLeft, MapThenFoldSet, Max,
           Levels!Fold, Levels!FoldLeft, Levels!MapThenFoldSet, Levels!Max
<1>3. PICK fold : /\ fold[0] = <<leaves>>
                  /\ \A k \in 1 .. n : fold[k] = GrowTree(fold[k - 1])
                  /\ BuildMerkleTree(leaves) = fold[n]
    <2> HIDE DEF n
    <2>1. QED
        BY <1>1, <1>2, Levels!FoldEquation DEF GrowOp
<1> DEFINE Bound(k) == \/ Len(Last(fold[k])) = 1
                       \/ Len(Last(fold[k])) > 1 /\ Len(Last(fold[k])) + k <= n
           S == {k \in Nat : k <= n => IsStack(fold[k], leaves) /\ Bound(k)}
<1>4. 0 \in S
    <2>1. IsList(<<leaves>>) /\ Len(<<leaves>>) = 1 /\ <<leaves>>[1] = leaves
        <3>1. <<leaves>> \in Seq({leaves}) /\ Len(<<leaves>>) = 1 /\ <<leaves>>[1] = leaves
            OBVIOUS
        <3>2. QED
            BY <3>1, SeqIsList
    <2>2. IsStack(<<leaves>>, leaves)
        BY <1>1, <2>1 DEF IsStack
    <2>3. Last(fold[0]) = leaves
        BY <1>3, <2>1 DEF Last
    <2>4. Bound(0)
        <3>1. Len(Last(fold[0])) = n
            BY <2>3
        <3> HIDE DEF n
        <3>2. n = 1 \/ (n > 1 /\ n + 0 <= n)
            BY <1>1
        <3>3. QED
            BY <3>1, <3>2
    <2>5. QED
        BY <1>3, <2>2, <2>4
<1>5. ASSUME NEW k \in Nat, k \in S
      PROVE  k + 1 \in S
    <2>1. CASE k + 1 <= n
        <3>1. fold[k + 1] = GrowTree(fold[k])
            <4>1. k + 1 \in 1 .. n /\ (k + 1) - 1 = k
                BY <1>1, <2>1
            <4>2. QED
                BY <1>3, <4>1
        <3>2. IsStack(fold[k], leaves) /\ Bound(k)
            BY <1>1, <1>5, <2>1
        <3>3. IsStack(fold[k + 1], leaves)
            BY <3>1, <3>2, GrowStack
        <3>4. Bound(k + 1)
            <4> DEFINE a == Len(Last(fold[k]))
                       b == Len(Last(fold[k + 1]))
            <4>1. /\ a = 1 => b = 1
                  /\ a > 1 => b \in 1 .. a - 1
                  /\ a \in Nat
                BY <3>1, <3>2, GrowStack
            <4>2. a = 1 \/ (a > 1 /\ a + k <= n)
                BY <3>2
            <4>3. b = 1 \/ (b > 1 /\ b + (k + 1) <= n)
                <5> HIDE DEF a, b, n
                <5>1. QED
                    BY <1>1, <4>1, <4>2
            <4>4. QED
                BY <4>3
        <3>5. QED
            BY <3>3, <3>4
    <2>2. QED
        BY <2>1
<1>6. n \in S
    <2> HIDE DEF S, n
    <2>1. QED
        BY <1>1, <1>4, <1>5, Levels!InductionOnNat
<1>7. IsStack(fold[n], leaves) /\ Len(Last(fold[n])) = 1
    BY <1>1, <1>6
<1>8. QED
    BY <1>3, <1>7 DEF IsTreeOf, Last

\* The levels above the leaves hold hashes of two nodes of the level below.
LEMMA NodesAboveTheLeaves ==
    ASSUME NEW t, NEW leaves, IsTreeOf(t, leaves),
           NEW k \in 2 .. Len(t), NEW i \in 1 .. Len(t[k])
    PROVE  \E a, b \in 1 .. Len(t[k - 1]) : t[k][i] = HashNode(t[k - 1][a], t[k - 1][b])
<1> DEFINE level == t[k - 1]
<1>1. Len(t) \in Nat
    BY ListLength DEF IsTreeOf, IsStack
<1>2. k - 1 \in 1 .. Len(t) /\ k - 1 \in 1 .. Len(t) - 1 /\ (k - 1) + 1 = k
    BY <1>1
<1>3. IsList(level) /\ Len(level) \in Nat /\ t[k] = NextLevel(level)
    BY <1>2, ListLength DEF IsTreeOf, IsStack
<1> HIDE DEF level
<1>4. i \in 1 .. (Len(level) + 1) \div 2
    BY <1>3, NextLevelIsList
<1> DEFINE a == 2 * i - 1
           b == IF 2 * i <= Len(level) THEN 2 * i ELSE Len(level)
<1>5. a \in 1 .. Len(level) /\ b \in 1 .. Len(level)
    BY <1>3, <1>4
<1>6. t[k][i] = HashNode(level[a], level[b])
    BY <1>3, <1>4, NextLevelIsList
<1>7. QED
    <2> HIDE DEF a, b
    <2>1. QED
        BY <1>5, <1>6 DEF level

\* The levels of lists of equal length have equal lengths, pairwise.
LEMMA SameShape ==
    ASSUME NEW t, NEW u, NEW x, NEW y, IsTreeOf(t, x), IsTreeOf(u, y), Len(x) = Len(y)
    PROVE  /\ Len(t) = Len(u)
           /\ \A k \in 1 .. Len(t) : Len(t[k]) = Len(u[k])
<1>1. Len(t) \in Nat /\ Len(u) \in Nat /\ Len(t) >= 1 /\ Len(u) >= 1
    BY ListLength DEF IsTreeOf, IsStack
<1> DEFINE S == {k \in Nat : k + 1 <= Len(t) /\ k + 1 <= Len(u) => Len(t[k + 1]) = Len(u[k + 1])}
<1>2. 0 \in S
    BY DEF IsTreeOf, IsStack
<1>3. ASSUME NEW k \in Nat, k \in S
      PROVE  k + 1 \in S
    <2>1. CASE k + 2 <= Len(t) /\ k + 2 <= Len(u)
        <3>1. Len(t[k + 1]) = Len(u[k + 1])
            BY <1>1, <1>3, <2>1
        <3>2. k + 1 \in 1 .. Len(t) - 1 /\ k + 1 \in 1 .. Len(u) - 1 /\ (k + 1) + 1 = k + 2
            BY <1>1, <2>1
        <3>3. k + 1 \in 1 .. Len(t) /\ k + 1 \in 1 .. Len(u)
            BY <1>1, <2>1
        <3>4. t[k + 2] = NextLevel(t[k + 1]) /\ u[k + 2] = NextLevel(u[k + 1])
            BY <3>2 DEF IsTreeOf, IsStack
        <3>5. IsList(t[k + 1]) /\ IsList(u[k + 1])
            BY <3>3 DEF IsTreeOf, IsStack
        <3>6. Len(t[k + 2]) = Len(u[k + 2])
            BY <3>1, <3>4, <3>5, NextLevelIsList
        <3>7. QED
            BY <3>2, <3>6
    <2>2. CASE ~(k + 2 <= Len(t) /\ k + 2 <= Len(u))
        <3>1. (k + 1) + 1 = k + 2
            OBVIOUS
        <3>2. QED
            BY <2>2, <3>1
    <2>3. QED
        BY <2>1, <2>2
<1>4. \A k \in Nat : k \in S
    <2> HIDE DEF S
    <2>1. QED
        BY <1>2, <1>3, Levels!InductionOnNat
<1>5. ASSUME NEW k \in Nat, k >= 1, k <= Len(t), k <= Len(u)
      PROVE  Len(t[k]) = Len(u[k])
    <2>1. k - 1 \in Nat /\ (k - 1) + 1 = k
        BY <1>5
    <2>2. k - 1 \in S
        BY <1>4, <2>1
    <2>3. QED
        BY <1>5, <2>1, <2>2
<1>6. Len(t) = Len(u)
    <2>1. ASSUME Len(t) < Len(u)
          PROVE  FALSE
        <3>1. Len(t) \in 1 .. Len(u) - 1
            BY <1>1, <2>1
        <3>2. Len(u[Len(t)]) > 1 /\ Len(t[Len(t)]) = 1
            BY <3>1 DEF IsTreeOf, IsStack
        <3>3. Len(t[Len(t)]) = Len(u[Len(t)])
            BY <1>1, <1>5, <2>1
        <3>4. 1 > 1
            BY <3>2, <3>3, Zenon
        <3>5. QED
            BY <3>4
    <2>2. ASSUME Len(u) < Len(t)
          PROVE  FALSE
        <3>1. Len(u) \in 1 .. Len(t) - 1
            BY <1>1, <2>2
        <3>2. Len(t[Len(u)]) > 1 /\ Len(u[Len(u)]) = 1
            BY <3>1 DEF IsTreeOf, IsStack
        <3>3. Len(t[Len(u)]) = Len(u[Len(u)])
            BY <1>1, <1>5, <2>2
        <3>4. 1 > 1
            BY <3>2, <3>3, Zenon
        <3>5. QED
            BY <3>4
    <2>3. QED
        BY <1>1, <2>1, <2>2
<1>7. QED
    BY <1>1, <1>5, <1>6

-----------------------------------------------------------------------------
(* The root and the size of a tree bind its leaves *)

\* Two lists of the same length with the same root are the same list.
THEOREM RootAndSizeBind ==
    ASSUME NEW x, NEW y, IsList(x), IsList(y), Len(x) = Len(y), MerkleRoot(x) = MerkleRoot(y)
    PROVE  x = y
<1>1. (x = <<>> <=> Len(x) = 0) /\ (y = <<>> <=> Len(y) = 0)
    BY ListLength
<1>2. CASE x = <<>> \/ y = <<>>
    BY <1>1, <1>2
<1>3. CASE x # <<>> /\ y # <<>>
    <2> DEFINE t == BuildMerkleTree(x)
               u == BuildMerkleTree(y)
    <2>1. IsTreeOf(t, x) /\ IsTreeOf(u, y)
        BY <1>3, TreeShape
    <2>2. MerkleRoot(x) = Last(t)[1] /\ MerkleRoot(y) = Last(u)[1]
        BY <1>3 DEF MerkleRoot
    <2> HIDE DEF t, u
    <2>3. Len(t) = Len(u) /\ \A k \in 1 .. Len(t) : Len(t[k]) = Len(u[k])
        BY <2>1, SameShape
    <2> DEFINE m == Len(t)
    <2>4. m \in Nat /\ m >= 1
        BY <2>1, ListLength DEF IsTreeOf, IsStack
    <2>5. /\ \A k \in 1 .. m : IsList(t[k]) /\ IsList(u[k])
          /\ \A k \in 1 .. m - 1 : t[k + 1] = NextLevel(t[k]) /\ u[k + 1] = NextLevel(u[k])
          /\ t[1] = x /\ u[1] = y /\ Len(t[m]) = 1 /\ Len(u[m]) = 1
        BY <2>1, <2>3 DEF IsTreeOf, IsStack
    <2>6. t[m][1] = u[m][1]
        BY <2>2, <2>3 DEF Last
    <2> HIDE DEF m
    <2> DEFINE S == {j \in Nat : j < m => t[m - j] = u[m - j]}
    <2>7. 0 \in S
        <3>1. m \in 1 .. m /\ m - 0 = m
            BY <2>4
        <3>2. \A i \in 1 .. Len(t[m]) : t[m][i] = u[m][i]
            BY <2>5, <2>6
        <3>3. t[m] = u[m]
            BY <2>5, <3>1, <3>2, ListsEqual
        <3>4. QED
            BY <3>1, <3>3
    <2>8. ASSUME NEW j \in Nat, j \in S
          PROVE  j + 1 \in S
        <3>1. CASE j + 1 < m
            <4> DEFINE k == m - (j + 1)
            <4>1. k \in 1 .. m - 1 /\ k \in 1 .. m /\ k + 1 = m - j /\ j < m
                BY <2>4, <3>1
            <4>2. t[k + 1] = u[k + 1]
                BY <2>8, <4>1
            <4> HIDE DEF k
            <4>3. NextLevel(t[k]) = NextLevel(u[k]) /\ IsList(t[k]) /\ IsList(u[k]) /\ Len(t[k]) = Len(u[k])
                BY <2>3, <2>5, <4>1, <4>2 DEF m
            <4>4. t[k] = u[k]
                BY <4>3, NextLevelInjective
            <4>5. QED
                BY <4>4 DEF k
        <3>2. QED
            BY <3>1
    <2>9. \A j \in Nat : j \in S
        <3> HIDE DEF S
        <3>1. QED
            BY <2>7, <2>8, Levels!InductionOnNat
    <2>10. t[1] = u[1]
        <3>1. m - 1 \in Nat /\ m - 1 < m /\ m - (m - 1) = 1
            BY <2>4
        <3>2. QED
            BY <2>9, <3>1
    <2>11. QED
        BY <2>5, <2>10
<1>4. QED
    BY <1>2, <1>3

-----------------------------------------------------------------------------
(* Inclusion proofs *)

\* Dividing by m and then by two.
LEMMA Halving ==
    ASSUME NEW a \in Nat, NEW m \in Nat \ {0}
    PROVE  (a \div m) \div 2 = a \div (2 * m)
    OBVIOUS

\* One step of a proof climbs one level: from the i-th node of a level to the
\* parent of that node.
LEMMA StepClimbs ==
    ASSUME NEW s, IsList(s), NEW i \in 0 .. Len(s) - 1
    PROVE  /\ i \div 2 \in 0 .. Len(NextLevel(s)) - 1
           /\ StepOp(0, s[i + 1], ProofStep(s, i)) = NextLevel(s)[(i \div 2) + 1]
<1> DEFINE q == i \div 2
           n == Len(s)
<1>1. n \in Nat /\ i \in Nat /\ i + 1 <= n
    BY ListLength
<1>2. Len(NextLevel(s)) = (n + 1) \div 2
    BY NextLevelIsList
<1>3. /\ q \in Nat /\ ((i = 2 * q /\ i % 2 = 0) \/ (i = 2 * q + 1 /\ i % 2 = 1))
      /\ q + 1 \in 1 .. (n + 1) \div 2
    <2> HIDE DEF n
    <2>1. QED
        BY <1>1
<1>4. NextLevel(s)[q + 1] = HashNode(s[2 * (q + 1) - 1],
                                     s[IF 2 * (q + 1) <= n THEN 2 * (q + 1) ELSE n])
    BY <1>3, NextLevelIsList
<1> HIDE DEF q, n
<1>5. CASE i = 2 * q /\ i % 2 = 0
    <2>1. ProofStep(s, i) = [sibling_hash |-> s[1 + (IF i + 1 < n THEN i + 1 ELSE i)],
                             direction |-> "right"]
        BY <1>5 DEF ProofStep, n
    <2>2. StepOp(0, s[i + 1], ProofStep(s, i))
          = HashNode(s[i + 1], s[1 + (IF i + 1 < n THEN i + 1 ELSE i)])
        BY <2>1 DEF StepOp
    <2>3. /\ 2 * (q + 1) - 1 = i + 1
          /\ (IF 2 * (q + 1) <= n THEN 2 * (q + 1) ELSE n)
             = 1 + (IF i + 1 < n THEN i + 1 ELSE i)
        BY <1>1, <1>3, <1>5
    <2>4. QED
        BY <1>1, <1>2, <1>3, <1>4, <2>2, <2>3 DEF q
<1>6. CASE i = 2 * q + 1 /\ i % 2 = 1
    <2>1. i - 1 < n /\ 1 + (i - 1) = i
        BY <1>1, <1>6
    <2>2. ProofStep(s, i) = [sibling_hash |-> s[i], direction |-> "left"]
        BY <1>6, <2>1 DEF ProofStep, n
    <2>3. StepOp(0, s[i + 1], ProofStep(s, i)) = HashNode(s[i], s[i + 1])
        BY <2>2 DEF StepOp
    <2>4. /\ 2 * (q + 1) - 1 = i
          /\ (IF 2 * (q + 1) <= n THEN 2 * (q + 1) ELSE n) = i + 1
        BY <1>1, <1>3, <1>6
    <2>5. QED
        BY <1>1, <1>2, <1>3, <1>4, <2>3, <2>4 DEF q
<1>7. QED
    BY <1>3, <1>5, <1>6

\* The hashes verify_inclusion_proof goes through, from the leaf to the result.
IsPath(fold, leaf, proof, n) ==
    /\ fold[0] = leaf
    /\ \A k \in 1 .. n : fold[k] = StepOp(0, fold[k - 1], proof[k])
    /\ ComputedRoot(leaf, proof) = fold[n]

\* There are such hashes for every leaf and list of steps.
LEMMA HashesAlong ==
    ASSUME NEW leaf, NEW proof, NEW n \in Nat, DOMAIN proof = 1 .. n
    PROVE  \E fold : IsPath(fold, leaf, proof, n)
<1>1. ComputedRoot(leaf, proof) = Path!Fold(0, leaf, proof)
    BY DEF ComputedRoot, StepOp, FoldLeft, MapThenFoldSet, Max,
           Path!Fold, Path!FoldLeft, Path!MapThenFoldSet, Path!Max
<1>2. QED
    BY <1>1, Path!FoldEquation DEF StepOp, IsPath

\* A step for each level below the root, as generate_inclusion_proof lists them.
IsProofOf(proof, t, index) ==
    proof = [k \in 1 .. Len(t) - 1 |-> ProofStep(t[k], index \div 2 ^ (k - 1))]

\* From a leaf, the steps of its proof climb a tree to its last node.
LEMMA ProofClimbsTree ==
    ASSUME NEW t, NEW leaves, IsTreeOf(t, leaves), NEW index \in 0 .. Len(leaves) - 1,
           IsList(leaves), NEW proof, IsProofOf(proof, t, index)
    PROVE  /\ ComputedRoot(leaves[index + 1], proof) = Last(t)[1]
           /\ Len(proof) = Len(t) - 1
<1>1. PICK n \in Nat : Len(t) = n + 1
    <2>1. Len(t) \in Nat /\ Len(t) >= 1
        BY ListLength DEF IsTreeOf, IsStack
    <2>2. Len(t) - 1 \in Nat /\ Len(t) = (Len(t) - 1) + 1
        BY <2>1
    <2>3. QED
        BY <2>2, Zenon
<1>2. /\ t[1] = leaves /\ Len(t[n + 1]) = 1
      /\ \A k \in 1 .. n + 1 : IsList(t[k])
      /\ \A k \in 1 .. n : t[k + 1] = NextLevel(t[k])
    BY <1>1 DEF IsTreeOf, IsStack
<1>3. proof = [k \in 1 .. n |-> ProofStep(t[k], index \div 2 ^ (k - 1))]
    <2>1. Len(t) - 1 = n
        BY <1>1
    <2>2. QED
        BY <2>1, Zenon DEF IsProofOf
<1>4. DOMAIN proof = 1 .. n /\ Len(proof) = n /\ Last(t) = t[n + 1] /\ Len(leaves) \in Nat
    BY <1>1, <1>3, ListLength DEF Last
<1>5. PICK leaf : leaf = leaves[index + 1]
    OBVIOUS
<1>6. PICK fold : IsPath(fold, leaf, proof, n)
    BY <1>4, HashesAlong
<1> DEFINE pos(k) == index \div 2 ^ k
           S == {k \in Nat : k <= n => /\ pos(k) \in 0 .. Len(t[k + 1]) - 1
                                       /\ fold[k] = t[k + 1][pos(k) + 1]}
<1>7. 0 \in S
    <2>1. 2 ^ 0 = 1
        BY Levels!PowersOfTwo
    <2>2. pos(0) = index
        BY <1>4, <2>1
    <2>3. QED
        BY <1>2, <1>4, <1>5, <1>6, <2>2 DEF IsPath
<1>8. ASSUME NEW k \in Nat, k \in S
      PROVE  k + 1 \in S
    <2>1. CASE k + 1 <= n
        <3> DEFINE i == pos(k)
        <3>1. i \in 0 .. Len(t[k + 1]) - 1 /\ fold[k] = t[k + 1][i + 1]
            BY <1>8, <2>1
        <3>2. k + 1 \in 1 .. n /\ k + 1 \in 1 .. n + 1 /\ (k + 1) - 1 = k
            BY <2>1
        <3>3. proof[k + 1] = ProofStep(t[k + 1], i)
            BY <1>3, <3>2
        <3>4. fold[k + 1] = StepOp(0, t[k + 1][i + 1], ProofStep(t[k + 1], i))
            BY <1>6, <3>1, <3>2, <3>3 DEF IsPath
        <3>5. pos(k + 1) = i \div 2
            <4>1. 2 ^ k \in Nat \ {0} /\ 2 ^ (k + 1) = 2 * 2 ^ k /\ index \in Nat
                BY <1>4, Levels!PowersOfTwo
            <4>2. QED
                BY <4>1, Halving
        <3> HIDE DEF i, pos
        <3>6. IsList(t[k + 1]) /\ t[(k + 1) + 1] = NextLevel(t[k + 1])
            BY <1>2, <3>2
        <3>7. /\ pos(k + 1) \in 0 .. Len(t[(k + 1) + 1]) - 1
              /\ fold[k + 1] = t[(k + 1) + 1][pos(k + 1) + 1]
            BY <3>1, <3>4, <3>5, <3>6, StepClimbs
        <3>8. QED
            BY <3>7
    <2>2. QED
        BY <2>1
<1>9. n \in S
    <2> HIDE DEF S
    <2>1. QED
        BY <1>7, <1>8, Levels!InductionOnNat
<1>10. pos(n) \in 0 .. Len(t[n + 1]) - 1 /\ fold[n] = t[n + 1][pos(n) + 1]
    <2> HIDE DEF pos
    <2>1. QED
        BY <1>9
<1>11. pos(n) = 0
    <2> HIDE DEF pos
    <2>1. QED
        BY <1>2, <1>10
<1>12. fold[n] = t[n + 1][1]
    <2> HIDE DEF pos
    <2>1. QED
        BY <1>10, <1>11
<1>13. ComputedRoot(leaves[index + 1], proof) = t[n + 1][1]
    BY <1>5, <1>6, <1>12 DEF IsPath
<1>14. Last(t) = t[n + 1] /\ Len(proof) = Len(t) - 1
    <2>1. Len(proof) = n /\ Len(t) - 1 = n
        BY <1>1, <1>4
    <2>2. QED
        BY <1>4, <2>1, Zenon
<1>15. QED
    BY <1>13, <1>14, Zenon

\* The proof generated for the leaf at any index of any list verifies against
\* the root of the list, and has a step for each level below the root.
THEOREM InclusionProofVerifies ==
    ASSUME NEW leaves, IsList(leaves), NEW index \in 0 .. Len(leaves) - 1
    PROVE  /\ VerifyInclusionProof(leaves[index + 1], GenerateInclusionProof(leaves, index),
                                   MerkleRoot(leaves))
           /\ Len(GenerateInclusionProof(leaves, index)) = Len(BuildMerkleTree(leaves)) - 1
<1>1. leaves # <<>>
    BY ListLength
<1>2. IsTreeOf(BuildMerkleTree(leaves), leaves)
    BY <1>1, TreeShape
<1>3. MerkleRoot(leaves) = Last(BuildMerkleTree(leaves))[1]
    BY <1>1 DEF MerkleRoot
<1>4. PICK t : t = BuildMerkleTree(leaves)
    OBVIOUS
<1>5. PICK proof : proof = GenerateInclusionProof(leaves, index)
    OBVIOUS
<1>6. IsProofOf(proof, t, index)
    <2>1. GenerateInclusionProof(leaves, index)
          = [k \in 1 .. Len(BuildMerkleTree(leaves)) - 1 |->
               ProofStep(BuildMerkleTree(leaves)[k], index \div 2 ^ (k - 1))]
        BY Zenon DEF GenerateInclusionProof
    <2>2. QED
        BY <1>4, <1>5, <2>1, Zenon DEF IsProofOf
<1>7. ComputedRoot(leaves[index + 1], proof) = Last(t)[1] /\ Len(proof) = Len(t) - 1
    <2>1. IsTreeOf(t, leaves)
        BY <1>2, <1>4, Zenon
    <2>2. QED
        BY <1>6, <2>1, ProofClimbsTree, Zenon
<1>8. QED
    BY <1>3, <1>4, <1>5, <1>7 DEF VerifyInclusionProof

\* Only entries of the list are proved: whatever the steps of a proof are, when
\* it leads from the hash of `data` to the root of a list of entries, that hash
\* is in the list. The prefixes of hash_leaf and hash_node keep the hash of an
\* inner node from passing as the hash of an entry.
THEOREM InclusionProofSound ==
    ASSUME NEW leaves, IsList(leaves), leaves # <<>>,
           \A i \in 1 .. Len(leaves) : \E d : leaves[i] = HashLeaf(d),
           NEW proof, IsList(proof), NEW data,
           VerifyInclusionProof(HashLeaf(data), proof, MerkleRoot(leaves))
    PROVE  \E i \in 1 .. Len(leaves) : leaves[i] = HashLeaf(data)
<1>1. PICK t : IsTreeOf(t, leaves) /\ t = BuildMerkleTree(leaves)
    BY TreeShape
<1>2. PICK n \in Nat : DOMAIN proof = 1 .. n
    BY ListLength
<1>3. PICK leaf : leaf = HashLeaf(data)
    OBVIOUS
<1>4. PICK fold : IsPath(fold, leaf, proof, n)
    BY <1>2, HashesAlong
<1>5. Len(t) \in Nat /\ Len(t) >= 1 /\ t[1] = leaves /\ Len(t[Len(t)]) = 1
    BY <1>1, ListLength DEF IsTreeOf, IsStack
<1> DEFINE InTree(h) == \E k \in 1 .. Len(t) : \E i \in 1 .. Len(t[k]) : h = t[k][i]
<1>6. \A a, b, d : HashNode(a, b) # HashLeaf(d)
    BY DEF HashNode, HashLeaf
<1>7. ASSUME NEW a, NEW b, InTree(HashNode(a, b))
      PROVE  InTree(a) /\ InTree(b)
    <2>1. PICK k \in 1 .. Len(t) : \E i \in 1 .. Len(t[k]) : HashNode(a, b) = t[k][i]
        BY <1>7
    <2> PICK i \in 1 .. Len(t[k]) : HashNode(a, b) = t[k][i]
        BY <2>1
    <2>2. k # 1
        BY <1>5, <1>6, <2>1
    <2>3. k \in 2 .. Len(t) /\ k - 1 \in 1 .. Len(t)
        BY <1>5, <2>2
    <2>4. PICK x, y \in 1 .. Len(t[k - 1]) : t[k][i] = HashNode(t[k - 1][x], t[k - 1][y])
        BY <1>1, <2>3, NodesAboveTheLeaves
    <2>5. a = t[k - 1][x] /\ b = t[k - 1][y]
        BY <2>1, <2>4 DEF HashNode
    <2>6. QED
        BY <2>3, <2>5
<1>8. InTree(fold[n])
    <2>1. MerkleRoot(leaves) = t[Len(t)][1]
        BY <1>1 DEF MerkleRoot, Last
    <2>2. fold[n] = t[Len(t)][1]
        BY <1>3, <1>4, <2>1 DEF IsPath, VerifyInclusionProof
    <2>3. Len(t) \in 1 .. Len(t) /\ 1 \in 1 .. Len(t[Len(t)])
        BY <1>5
    <2>4. QED
        BY <2>2, <2>3
<1> DEFINE S == {j \in Nat : j <= n => InTree(fold[n - j])}
<1>9. 0 \in S
    BY <1>8
<1>10. ASSUME NEW j \in Nat, j \in S
       PROVE  j + 1 \in S
    <2>1. CASE j + 1 <= n
        <3>1. PICK k \in 1 .. n : k = n - j
            BY <2>1
        <3>2. InTree(fold[k])
            <4> HIDE DEF InTree
            <4>1. QED
                BY <1>10, <2>1, <3>1
        <3>3. fold[k] = StepOp(0, fold[k - 1], proof[k])
            BY <1>4 DEF IsPath
        <3>4. InTree(fold[k - 1])
            <4> HIDE DEF InTree
            <4>1. QED
                BY <1>7, <3>2, <3>3 DEF StepOp
        <3>5. n - (j + 1) = k - 1
            BY <3>1
        <3>6. QED
            <4> HIDE DEF InTree
            <4>1. QED
                BY <3>4, <3>5
    <2>2. QED
        BY <2>1
<1>11. n \in S
    <2> HIDE DEF S
    <2>1. QED
        BY <1>9, <1>10, Levels!InductionOnNat
<1>12. InTree(leaf)
    <2> HIDE DEF InTree
    <2>1. n - n = 0 /\ n <= n
        OBVIOUS
    <2>2. InTree(fold[0])
        BY <1>11, <2>1
    <2>3. QED
        BY <1>4, <2>2 DEF IsPath
<1>13. PICK k \in 1 .. Len(t) : \E i \in 1 .. Len(t[k]) : leaf = t[k][i]
    BY <1>12
<1> PICK i \in 1 .. Len(t[k]) : leaf = t[k][i]
    BY <1>13
<1>14. k = 1
    <2>1. ASSUME k # 1
          PROVE  FALSE
        <3>1. k \in 2 .. Len(t)
            BY <1>5, <2>1
        <3>2. \E a, b : t[k][i] = HashNode(a, b)
            BY <1>1, <3>1, NodesAboveTheLeaves
        <3>3. t[k][i] = HashLeaf(data)
            BY <1>3
        <3>4. QED
            BY <1>6, <3>2, <3>3, Zenon
    <2>2. QED
        BY <2>1
<1>15. QED
    BY <1>3, <1>5, <1>13, <1>14

-----------------------------------------------------------------------------
(* Consistency proofs *)

\* A list is its prefix followed by what the consistency proof appends.
LEMMA PrefixAndRest ==
    ASSUME NEW x, NEW y, IsList(x), IsList(y), IsPrefix(x, y)
    PROVE  /\ IsList(SubSeq(y, Len(x) + 1, Len(y)))
           /\ x \o SubSeq(y, Len(x) + 1, Len(y)) = y
           /\ Len(x) <= Len(y)
<1>1. /\ Len(x) \in Nat /\ x = [i \in 1 .. Len(x) |-> x[i]]
      /\ Len(y) \in Nat /\ y = [i \in 1 .. Len(y) |-> y[i]]
    BY ListLength
<1>2. PICK S : x \in Seq(S) /\ y \in Seq(S)
    <2> DEFINE T == {x[i] : i \in 1 .. Len(x)} \cup {y[i] : i \in 1 .. Len(y)}
    <2>1. x \in [1 .. Len(x) -> T] /\ y \in [1 .. Len(y) -> T]
        BY <1>1
    <2>2. x \in Seq(T) /\ y \in Seq(T)
        <3> HIDE DEF T
        <3>1. QED
            BY <1>1, <2>1
    <2>3. QED
        BY <2>2
<1>3. Len(x) <= Len(y) /\ SubSeq(x, 1, Len(x)) = SubSeq(y, 1, Len(x))
    BY DEF IsPrefix
<1>4. \A i \in 1 .. Len(x) : x[i] = y[i]
    BY <1>1, <1>2, <1>3
<1> DEFINE rest == SubSeq(y, Len(x) + 1, Len(y))
<1>5. /\ rest \in Seq(S) /\ Len(rest) = Len(y) - Len(x)
      /\ \A i \in 1 .. Len(rest) : rest[i] = y[Len(x) + i]
    <2> DEFINE m == Len(x) + 1
               n == Len(y)
    <2>1. m \in Int /\ n \in Int /\ \A i \in m .. n : y[i] \in S
        BY <1>1, <1>2
    <2>2. n - m + 1 = n - Len(x) /\ n - Len(x) \in Nat
        BY <1>1, <1>3
    <2>3. (IF m <= n THEN n - m + 1 ELSE 0) = n - Len(x)
        <3>1. \A a, b \in Nat : a <= b => (IF a + 1 <= b THEN b - (a + 1) + 1 ELSE 0) = b - a
            OBVIOUS
        <3>2. PICK a \in Nat : a = Len(x) /\ m = a + 1 /\ a <= n
            BY <1>1, <1>3
        <3>3. QED
            BY <1>1, <3>1, <3>2, Zenon
    <2>4. /\ SubSeq(y, m, n) \in Seq(S)
          /\ Len(SubSeq(y, m, n)) = IF m <= n THEN n - m + 1 ELSE 0
          /\ \A i \in 1 .. n - m + 1 : SubSeq(y, m, n)[i] = y[m + i - 1]
        <3> HIDE DEF m, n
        <3>1. QED
            BY <2>1, SubSeqProperties
    <2>5. \A i \in 1 .. n - Len(x) : m + i - 1 = Len(x) + i
        BY <1>1
    <2>6. QED
        <3>1. rest = SubSeq(y, m, n)
            OBVIOUS
        <3> HIDE DEF rest, m, n
        <3>2. rest \in Seq(S) /\ Len(rest) = n - Len(x)
            BY <2>3, <2>4, <3>1
        <3>3. \A i \in 1 .. n - Len(x) : rest[i] = y[Len(x) + i]
            BY <2>2, <2>4, <2>5, <3>1
        <3>4. QED
            BY <3>2, <3>3 DEF n
<1> HIDE DEF rest
<1>6. /\ x \o rest \in Seq(S) /\ Len(x \o rest) = Len(y)
      /\ \A i \in 1 .. Len(y) :
            (x \o rest)[i] = IF i <= Len(x) THEN x[i] ELSE rest[i - Len(x)]
    <2>1. Len(x) + Len(rest) = Len(y)
        BY <1>1, <1>5
    <2>2. QED
        BY <1>2, <1>5, <2>1, ConcatProperties
<1>7. ASSUME NEW i \in 1 .. Len(y)
      PROVE  (x \o rest)[i] = y[i]
    <2>1. CASE i <= Len(x)
        <3>1. (x \o rest)[i] = x[i]
            BY <1>6, <2>1
        <3>2. QED
            BY <1>1, <1>4, <2>1, <3>1
    <2>2. CASE i > Len(x)
        <3>1. (x \o rest)[i] = rest[i - Len(x)]
            BY <1>1, <1>6, <2>2
        <3>2. i - Len(x) \in 1 .. Len(rest) /\ Len(x) + (i - Len(x)) = i
            BY <1>1, <1>5, <2>2
        <3>3. QED
            BY <1>5, <3>1, <3>2
    <2>3. \A a, b \in Nat : a <= b \/ a > b
        OBVIOUS
    <2>4. i <= Len(x) \/ i > Len(x)
        BY <1>1, <2>3
    <2>5. QED
        BY <2>1, <2>2, <2>4
<1>8. x \o rest = y
    BY <1>2, <1>6, <1>7, SeqIsList, ListsEqual
<1>9. QED
    BY <1>3, <1>5, <1>8, SeqIsList DEF rest

\* The proof generated for a prefix verifies.
THEOREM ConsistencyProofVerifies ==
    ASSUME NEW x, NEW y, IsList(x), IsList(y), ConsistencyProofExists(x, y)
    PROVE  VerifyConsistencyProof(GenerateConsistencyProof(x, y))
<1>1. /\ Len(x) \in Nat /\ Len(x) > 0
      /\ Len(y) \in Nat /\ Len(y) > 0
    BY ListLength DEF ConsistencyProofExists
<1>2. /\ x \o SubSeq(y, Len(x) + 1, Len(y)) = y
      /\ Len(x) <= Len(y)
    BY PrefixAndRest DEF ConsistencyProofExists
<1>3. QED
    BY <1>1, <1>2
       DEF GenerateConsistencyProof, VerifyConsistencyProof, WellFormedConsistencyProof

\* Whatever lists a proof carries, when it verifies against the sizes and the
\* roots of two lists, the old list is a prefix of the new one.
THEOREM ConsistencyProofSound ==
    ASSUME NEW x, NEW y, IsList(x), IsList(y), NEW p,
           IsList(p.old_leaf_hashes), IsList(p.appended_leaf_hashes),
           p.old_tree_size = Len(x), p.old_root_hash = MerkleRoot(x),
           p.new_tree_size = Len(y), p.new_root_hash = MerkleRoot(y),
           VerifyConsistencyProof(p)
    PROVE  IsPrefix(x, y)
<1>1. PICK a, b : a = p.old_leaf_hashes /\ b = p.appended_leaf_hashes
    OBVIOUS
<1>2. /\ IsList(a) /\ Len(a) \in Nat /\ a = [i \in 1 .. Len(a) |-> a[i]]
      /\ IsList(b) /\ Len(b) \in Nat /\ b = [i \in 1 .. Len(b) |-> b[i]]
    BY <1>1, ListLength
<1>3. PICK S : a \in Seq(S) /\ b \in Seq(S)
    <2> DEFINE T == {a[i] : i \in 1 .. Len(a)} \cup {b[i] : i \in 1 .. Len(b)}
    <2>1. a \in [1 .. Len(a) -> T] /\ b \in [1 .. Len(b) -> T]
        BY <1>2
    <2>2. a \in Seq(T) /\ b \in Seq(T)
        <3> HIDE DEF T
        <3>1. QED
            BY <1>2, <2>1
    <2>3. QED
        BY <2>2
<1>4. a \o b \in Seq(S) /\ IsList(a \o b)
    BY <1>3, ConcatProperties, SeqIsList
<1>5. /\ Len(a) = Len(x) /\ MerkleRoot(a) = MerkleRoot(x)
      /\ Len(a \o b) = Len(y) /\ MerkleRoot(a \o b) = MerkleRoot(y)
    BY <1>1 DEF VerifyConsistencyProof, WellFormedConsistencyProof
<1>6. a = x /\ a \o b = y
    BY <1>2, <1>4, <1>5, RootAndSizeBind
<1>7. IsPrefix(a, a \o b)
    BY <1>2, <1>3 DEF IsPrefix
<1>8. QED
    BY <1>6, <1>7
=============================================================================
