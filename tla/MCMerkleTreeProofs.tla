------------------------- MODULE MCMerkleTreeProofs -------------------------
(***************************************************************************)
(* The properties of MCMerkleTree, which TLC checks on short lists over    *)
(* two entries, for lists of any length over any entries.                  *)
(***************************************************************************)
EXTENDS MCMerkleTree, MerkleTreeProofs

Entries == {HashLeaf(d) : d \in Data}

\* Both lists hold hashes of entries.
TypeInv == old \in Seq(Entries) /\ new \in Seq(Entries)

\* Initially, and after each entry.
LEMMA TypeInvHolds == Spec => []TypeInv
<1>1. ASSUME old = <<>>, new = <<>>
      PROVE  TypeInv
    BY <1>1 DEF TypeInv
<1>2. ASSUME TypeInv, [\E d \in Data : AppendToOld(d) \/ AppendToNew(d)]_vars
      PROVE  TypeInv'
    <2>1. CASE UNCHANGED vars
        BY <1>2, <2>1 DEF TypeInv, vars
    <2>2. ASSUME NEW d \in Data, AppendToOld(d) \/ AppendToNew(d)
          PROVE  TypeInv'
        <3>1. HashLeaf(d) \in Entries
            BY DEF Entries
        <3>2. Append(old, HashLeaf(d)) \in Seq(Entries) /\ Append(new, HashLeaf(d)) \in Seq(Entries)
            <4> HIDE DEF Entries
            <4>1. QED
                BY <1>2, <3>1, AppendProperties DEF TypeInv
        <3>3. QED
            BY <1>2, <2>2, <3>2 DEF TypeInv, AppendToOld, AppendToNew
    <2>3. QED
        BY <1>2, <2>1, <2>2
<1>3. QED
    BY <1>1, <1>2, PTL DEF Spec

\* They are lists, of hashes of entries.
LEMMA TypeInvLists ==
    ASSUME TypeInv
    PROVE  /\ IsList(old) /\ IsList(new)
           /\ Len(old) \in Nat /\ Len(new) \in Nat
           /\ old = <<>> <=> Len(old) = 0
           /\ new = <<>> <=> Len(new) = 0
           /\ \A i \in 1 .. Len(new) : new[i] \in Entries
<1>1. IsList(old) /\ IsList(new)
    BY SeqIsList DEF TypeInv
<1>2. QED
    BY <1>1, ListLength DEF TypeInv

-----------------------------------------------------------------------------
(* The shape of a tree *)

\* Rounding up, in halves.
LEMMA RoundingUp ==
    ASSUME NEW n \in Nat, NEW m \in Nat \ {0}
    PROVE  ((n + m - 1) \div m + 1) \div 2 = (n + 2 * m - 1) \div (2 * m)
<1>1. (n + m - 1) \div m + 1 = (n + 2 * m - 1) \div m
    OBVIOUS
<1>2. n + 2 * m - 1 \in Nat
    OBVIOUS
<1>3. QED
    BY <1>1, <1>2, Halving

\* The width of each level is the one of the reference definition.
LEMMA WidthOfLevel ==
    ASSUME NEW t, NEW leaves, IsTreeOf(t, leaves), NEW h \in 0 .. Len(t) - 1
    PROVE  /\ Len(t[h + 1]) = Width(Len(leaves), h)
           /\ h <= Len(leaves) /\ Len(t[h + 1]) <= Len(leaves)
<1>1. IsList(leaves) /\ Len(t) \in Nat /\ Len(t) >= 1 /\ t[1] = leaves
    BY ListLength DEF IsTreeOf, IsStack
<1>2. PICK n \in Nat : n = Len(leaves)
    BY <1>1, ListLength
<1> DEFINE S == {k \in Nat : k < Len(t) => /\ Len(t[k + 1]) = Width(n, k)
                                          /\ Len(t[k + 1]) + k <= n}
<1>3. 0 \in S
    <2>1. 2 ^ 0 = 1 /\ (n + 1 - 1) \div 1 = n
        BY Levels!PowersOfTwo
    <2>2. QED
        BY <1>1, <1>2, <2>1 DEF Width
<1>4. ASSUME NEW k \in Nat, k \in S
      PROVE  k + 1 \in S
    <2>1. CASE k + 1 < Len(t)
        <3>1. k + 1 \in 1 .. Len(t) - 1 /\ k + 1 \in 1 .. Len(t) /\ k < Len(t)
            BY <1>1, <2>1
        <3>2. Len(t[k + 1]) = Width(n, k) /\ Len(t[k + 1]) + k <= n
            BY <1>4, <3>1
        <3>3. IsList(t[k + 1]) /\ Len(t[k + 1]) > 1 /\ t[(k + 1) + 1] = NextLevel(t[k + 1])
            BY <3>1 DEF IsTreeOf, IsStack
        <3>4. PICK w \in Nat : w = Len(t[k + 1])
            BY <3>3, ListLength
        <3>5. Len(t[(k + 1) + 1]) = (w + 1) \div 2
            BY <3>3, <3>4, NextLevelIsList
        <3>6. 2 ^ k \in Nat \ {0} /\ 2 ^ (k + 1) = 2 * 2 ^ k
            BY Levels!PowersOfTwo
        <3>7. (w + 1) \div 2 = Width(n, k + 1)
            BY <3>2, <3>4, <3>6, RoundingUp DEF Width
        <3>8. (w + 1) \div 2 + (k + 1) <= n
            <4>1. w > 1 /\ w + k <= n
                BY <3>2, <3>3, <3>4
            <4>2. (w + 1) \div 2 + 1 <= w
                BY <4>1
            <4>3. QED
                BY <4>1, <4>2
        <3>9. QED
            BY <3>5, <3>7, <3>8
    <2>2. QED
        BY <2>1
<1>5. \A k \in Nat : k \in S
    <2> HIDE DEF S
    <2>1. QED
        BY <1>3, <1>4, Levels!InductionOnNat
<1>6. h \in Nat /\ h < Len(t) /\ h + 1 \in 1 .. Len(t)
    BY <1>1
<1>7. Len(t[h + 1]) = Width(n, h) /\ Len(t[h + 1]) + h <= n
    BY <1>5, <1>6
<1>8. Len(t[h + 1]) \in Nat
    BY <1>6, ListLength DEF IsTreeOf, IsStack
<1>9. QED
    BY <1>2, <1>6, <1>7, <1>8

\* The height of the reference definition is the number of levels above the
\* leaves.
LEMMA HeightOfTree ==
    ASSUME NEW t, NEW leaves, IsTreeOf(t, leaves)
    PROVE  Height(Len(leaves)) = Len(t) - 1
<1>1. IsList(leaves) /\ Len(t) \in Nat /\ Len(t) >= 1
    BY ListLength DEF IsTreeOf, IsStack
<1>2. PICK n \in Nat : n = Len(leaves)
    BY <1>1, ListLength
<1>3. PICK m \in Nat : Len(t) = m + 1
    <2>1. Len(t) - 1 \in Nat /\ Len(t) = (Len(t) - 1) + 1
        BY <1>1
    <2>2. QED
        BY <2>1, Zenon
<1>4. \A h \in 0 .. m : Len(t[h + 1]) = Width(n, h) /\ h <= n
    BY <1>2, <1>3, WidthOfLevel
<1>5. m \in 0 .. n /\ Width(n, m) = 1
    <2>1. m \in 0 .. m
        OBVIOUS
    <2>2. Len(t[m + 1]) = 1
        BY <1>3 DEF IsTreeOf
    <2>3. Len(t[m + 1]) = Width(n, m) /\ m <= n
        BY <1>4, <2>1
    <2>4. Width(n, m) = 1
        BY <2>2, <2>3
    <2>5. m \in 0 .. n
        BY <2>3
    <2>6. QED
        BY <2>4, <2>5
<1>6. ASSUME NEW g \in 0 .. m - 1
      PROVE  Width(n, g) > 1
    <2>1. g + 1 \in 1 .. Len(t) - 1 /\ g \in 0 .. m
        BY <1>3
    <2>2. Len(t[g + 1]) > 1
        BY <2>1 DEF IsTreeOf, IsStack
    <2>3. QED
        BY <1>4, <2>1, <2>2
<1>7. ASSUME NEW h \in 0 .. n, Width(n, h) = 1, \A g \in 0 .. h - 1 : Width(n, g) > 1
      PROVE  h = m
    <2>1. ~(h < m)
        <3>1. ASSUME h < m
              PROVE  FALSE
            <4>1. Width(n, h) > 1
                BY <1>6, <3>1
            <4>2. QED
                BY <1>7, <4>1
        <3>2. QED
            BY <3>1
    <2>2. ~(m < h)
        <3>1. ASSUME m < h
              PROVE  FALSE
            <4>1. Width(n, m) > 1
                BY <1>7, <3>1
            <4>2. QED
                BY <1>5, <4>1
        <3>2. QED
            BY <3>1
    <2>3. QED
        BY <2>1, <2>2
<1>8. Height(n) = m
    BY <1>5, <1>6, <1>7 DEF Height
<1>9. QED
    BY <1>2, <1>3, <1>8

\* The recursion of the reference definition has one solution: the nodes of the
\* tree that the loop builds, each at its place.
THEOREM ReferenceIsTheTree ==
    ASSUME NEW t, NEW leaves, IsTreeOf(t, leaves), NEW p \in Places(Len(leaves))
    PROVE  ReferenceTree(leaves)[p] = t[p[1] + 1][p[2] + 1]
<1>1. IsList(leaves) /\ Len(t) \in Nat /\ Len(t) >= 1 /\ t[1] = leaves
    <2>1. /\ IsList(t) /\ Len(t) >= 1 /\ t[1] = leaves
          /\ \A k \in 1 .. Len(t) : IsList(t[k])
        BY DEF IsTreeOf, IsStack
    <2>2. Len(t) \in Nat /\ 1 \in 1 .. Len(t)
        BY <2>1, ListLength
    <2>3. QED
        BY <2>1, <2>2
<1>2. PICK n \in Nat : n = Len(leaves)
    BY <1>1, ListLength, Zenon
<1>3. PICK m \in Nat : Len(t) = m + 1 /\ m = Height(n)
    <2>1. Len(t) - 1 \in Nat /\ Len(t) = (Len(t) - 1) + 1
        BY <1>1
    <2>2. QED
        BY <1>2, <2>1, HeightOfTree, Zenon
<1>4. ASSUME NEW h \in 0 .. m
      PROVE  /\ IsList(t[h + 1]) /\ Len(t[h + 1]) = Width(n, h) /\ Width(n, h) \in Nat
             /\ h > 0 => /\ t[h + 1] = NextLevel(t[h])
                         /\ Width(n, h) = (Width(n, h - 1) + 1) \div 2
                         /\ Width(n, h - 1) \in Nat
    <2>1. /\ h + 1 \in 1 .. Len(t) /\ h \in 0 .. Len(t) - 1
          /\ h > 0 => h \in 1 .. Len(t) /\ h \in 1 .. Len(t) - 1 /\ h - 1 \in 0 .. Len(t) - 1
        BY <1>3
    <2>2. IsList(t[h + 1])
        BY <2>1 DEF IsTreeOf, IsStack
    <2>3. Len(t[h + 1]) = Width(n, h)
        BY <1>2, <2>1, WidthOfLevel
    <2>4. ASSUME h > 0
          PROVE  /\ t[h + 1] = NextLevel(t[h])
                 /\ Width(n, h) = (Width(n, h - 1) + 1) \div 2
                 /\ Width(n, h - 1) \in Nat
        <3>1. t[h + 1] = NextLevel(t[h]) /\ IsList(t[h])
            BY <2>1, <2>4 DEF IsTreeOf, IsStack
        <3>2. Len(t[(h - 1) + 1]) = Width(n, h - 1) /\ (h - 1) + 1 = h
            BY <1>2, <2>1, <2>4, WidthOfLevel
        <3>3. QED
            BY <2>3, <3>1, <3>2, NextLevelIsList, ListLength
    <2>5. QED
        BY <2>2, <2>3, <2>4, ListLength
<1> DEFINE Left(q) == <<q[1] - 1, 2 * q[2]>>
           Right(q) == <<q[1] - 1, IF 2 * q[2] + 1 >= Width(n, q[1] - 1) THEN 2 * q[2]
                                                                        ELSE 2 * q[2] + 1>>
           Node(f, q) == IF q[1] = 0 THEN leaves[q[2] + 1] ELSE HashNode(f[Left(q)], f[Right(q)])
           P == Places(n)
           At(q) == t[q[1] + 1][q[2] + 1]
\* The tree satisfies the recursion.
<1>5. ASSUME NEW q \in P, q[1] # 0
      PROVE  /\ Left(q) \in P /\ Right(q) \in P /\ q[1] - 1 \in Nat
             /\ Left(q)[1] = q[1] - 1 /\ Right(q)[1] = q[1] - 1
             /\ At(q) = HashNode(At(Left(q)), At(Right(q)))
    <2>1. PICK h \in 0 .. m, i \in 0 .. n - 1 : q = <<h, i>> /\ i < Width(n, h)
        <3>1. q \in (0 .. m) \X (0 .. n - 1) /\ q[2] < Width(n, q[1])
            BY <1>2, <1>3 DEF Places
        <3>2. q[1] \in 0 .. m /\ q[2] \in 0 .. n - 1 /\ q = <<q[1], q[2]>>
            BY <3>1
        <3>3. QED
            BY <3>1, <3>2
    <2>2. h > 0 /\ h - 1 \in 0 .. m /\ (h - 1) + 1 = h
        BY <1>5, <2>1
    <2>3. PICK w \in Nat : w = Width(n, h - 1)
        BY <1>4, <2>2
    <2>4. /\ IsList(t[h]) /\ Len(t[h]) = w
          /\ t[h + 1] = NextLevel(t[h]) /\ Width(n, h) = (w + 1) \div 2
        BY <1>4, <2>2, <2>3
    <2>5. PICK r : r = IF 2 * i + 1 >= w THEN 2 * i ELSE 2 * i + 1
        OBVIOUS
    <2>6. i \in Nat /\ i < (w + 1) \div 2
        BY <2>1, <2>4
    <2>7. 2 * i < w /\ r \in Nat /\ r < w
        BY <2>5, <2>6
    <2>8. w <= n
        <3>1. h - 1 \in 0 .. Len(t) - 1
            BY <1>3, <2>2
        <3>2. Len(t[(h - 1) + 1]) <= n
            BY <1>2, <3>1, WidthOfLevel
        <3>3. QED
            BY <2>2, <2>4, <3>2
    <2>9. <<h - 1, 2 * i>> \in P /\ <<h - 1, r>> \in P
        <3>1. 2 * i \in 0 .. n - 1 /\ r \in 0 .. n - 1
            BY <2>6, <2>7, <2>8
        <3>2. QED
            BY <1>3, <2>2, <2>3, <2>7, <3>1 DEF Places
    <2>10. t[h + 1][i + 1] = HashNode(t[h][2 * i + 1], t[h][r + 1])
        <3>1. i + 1 \in 1 .. (w + 1) \div 2
            BY <2>6
        <3>2. NextLevel(t[h])[i + 1]
              = HashNode(t[h][2 * (i + 1) - 1], t[h][IF 2 * (i + 1) <= w THEN 2 * (i + 1) ELSE w])
            BY <2>4, <3>1, NextLevelIsList
        <3>3. 2 * (i + 1) - 1 = 2 * i + 1 /\ (IF 2 * (i + 1) <= w THEN 2 * (i + 1) ELSE w) = r + 1
            BY <2>5, <2>6, <2>7
        <3>4. QED
            BY <2>4, <3>2, <3>3
    <2>11. q[1] = h /\ q[2] = i /\ Left(q) = <<h - 1, 2 * i>> /\ Right(q) = <<h - 1, r>>
        BY <2>1, <2>3, <2>5
    <2>12. /\ At(q) = t[h + 1][i + 1]
           /\ At(Left(q)) = t[h][2 * i + 1]
           /\ At(Right(q)) = t[h][r + 1]
        <3> HIDE DEF Left, Right
        <3>1. QED
            BY <2>2, <2>11
    <2>13. QED
        <3> HIDE DEF Left, Right, At, P
        <3>1. QED
            BY <2>2, <2>9, <2>10, <2>11, <2>12
<1>6. \A q \in P : q[1] = 0 => At(q) = leaves[q[2] + 1]
    BY <1>1
<1>7. \E f : f = [q \in P |-> Node(f, q)]
    <2> DEFINE g == [q \in P |-> At(q)]
    <2>1. ASSUME NEW q \in P
          PROVE  g[q] = Node(g, q)
        <3>1. CASE q[1] = 0
            BY <1>6, <3>1
        <3>2. CASE q[1] # 0
            <4>1. /\ Left(q) \in P /\ Right(q) \in P
                  /\ At(q) = HashNode(At(Left(q)), At(Right(q)))
                BY <1>5, <3>2
            <4> HIDE DEF Left, Right, At, P
            <4>2. g[Left(q)] = At(Left(q)) /\ g[Right(q)] = At(Right(q)) /\ g[q] = At(q)
                BY <4>1
            <4>3. QED
                BY <3>2, <4>1, <4>2
        <3>3. QED
            BY <3>1, <3>2
    <2>2. g = [q \in P |-> g[q]]
        OBVIOUS
    <2>3. g = [q \in P |-> Node(g, q)]
        <3> HIDE DEF g, Node
        <3>1. QED
            BY <2>1, <2>2
    <2>4. QED
        BY <2>3
<1>8. PICK f : f = ReferenceTree(leaves) /\ f = [q \in P |-> Node(f, q)]
    <2>1. ReferenceTree(leaves) = CHOOSE f : f = [q \in P |-> Node(f, q)]
        BY <1>2 DEF ReferenceTree
    <2>2. QED
        <3> HIDE DEF P, Node
        <3>1. QED
            BY <1>7, <2>1
<1> DEFINE S == {h \in Nat : \A q \in P : q[1] = h => f[q] = At(q)}
<1>9. 0 \in S
    BY <1>6, <1>8
<1>10. ASSUME NEW h \in Nat, h \in S
       PROVE  h + 1 \in S
    <2>1. ASSUME NEW q \in P, q[1] = h + 1
          PROVE  f[q] = At(q)
        <3>1. /\ Left(q) \in P /\ Right(q) \in P
              /\ Left(q)[1] = h /\ Right(q)[1] = h /\ q[1] # 0
              /\ At(q) = HashNode(At(Left(q)), At(Right(q)))
            <4>1. q[1] # 0 /\ q[1] - 1 = h
                BY <2>1
            <4> HIDE DEF Left, Right, At, P
            <4>2. QED
                BY <1>5, <4>1
        <3> HIDE DEF Left, Right, At, P
        <3>2. f[Left(q)] = At(Left(q)) /\ f[Right(q)] = At(Right(q))
            BY <1>10, <3>1
        <3>3. f[q] = HashNode(f[Left(q)], f[Right(q)])
            BY <1>8, <3>1
        <3>4. QED
            BY <3>1, <3>2, <3>3
    <2>2. QED
        BY <2>1
<1>11. \A h \in Nat : h \in S
    <2> HIDE DEF S
    <2>1. QED
        BY <1>9, <1>10, Levels!InductionOnNat
<1>12. p \in P /\ p[1] \in Nat
    BY <1>2, <1>3 DEF Places
<1>13. f[p] = At(p)
    <2> HIDE DEF At, P
    <2>1. QED
        BY <1>11, <1>12
<1>14. QED
    BY <1>8, <1>13

-----------------------------------------------------------------------------
(* The properties of a single tree *)

\* build_merkle_tree's loop computes the root that the duplicate-last rule
\* defines, whatever the number of leaves.
THEOREM RootMatchesReferenceHolds == Spec => []RootMatchesReference
<1>1. ASSUME TypeInv
      PROVE  RootMatchesReference
    <2>1. ASSUME new # <<>>
          PROVE  MerkleRoot(new) = ReferenceTree(new)[<<Height(Len(new)), 0>>]
        <3>1. PICK t : IsTreeOf(t, new) /\ t = BuildMerkleTree(new)
            BY <1>1, <2>1, TypeInvLists, TreeShape
        <3>2. PICK n \in Nat : n = Len(new) /\ n > 0
            <4>1. Len(new) \in Nat /\ Len(new) # 0
                BY <1>1, <2>1, TypeInvLists, Zenon
            <4>2. QED
                BY <4>1
        <3>3. PICK m \in Nat : Len(t) = m + 1
            <4>1. Len(t) \in Nat /\ Len(t) >= 1
                BY <3>1, ListLength DEF IsTreeOf, IsStack
            <4>2. Len(t) - 1 \in Nat /\ Len(t) = (Len(t) - 1) + 1
                BY <4>1
            <4>3. QED
                BY <4>2, Zenon
        <3>4. Height(n) = m
            BY <3>1, <3>2, <3>3, HeightOfTree
        <3>5. Len(t[m + 1]) = 1 /\ m \in 0 .. Len(t) - 1
            BY <3>1, <3>3 DEF IsTreeOf
        <3>6. Width(n, m) = 1
            BY <3>1, <3>2, <3>5, WidthOfLevel
        <3>7. <<m, 0>> \in Places(n)
            BY <3>2, <3>4, <3>6 DEF Places
        <3>8. PICK p : p = <<m, 0>>
            OBVIOUS
        <3>9. ReferenceTree(new)[p] = t[p[1] + 1][p[2] + 1]
            BY <3>1, <3>2, <3>7, <3>8, ReferenceIsTheTree
        <3>10. p[1] = m /\ p[2] + 1 = 1
            BY <3>8
        <3>11. MerkleRoot(new) = t[m + 1][1]
            BY <2>1, <3>1, <3>3 DEF MerkleRoot, Last
        <3>12. QED
            BY <3>2, <3>4, <3>8, <3>9, <3>10, <3>11
    <2>2. QED
        BY <2>1 DEF RootMatchesReference
<1>2. QED
    BY <1>1, TypeInvHolds, PTL

\* Every generated inclusion proof verifies and has a step per level, for lists
\* of any length.
THEOREM InclusionProofsCompleteHolds == Spec => []InclusionProofsComplete
<1>1. ASSUME TypeInv
      PROVE  InclusionProofsComplete
    <2>1. ASSUME NEW i \in 0 .. Len(new) - 1
          PROVE  /\ VerifyInclusionProof(new[i + 1], GenerateInclusionProof(new, i), MerkleRoot(new))
                 /\ Len(GenerateInclusionProof(new, i)) = Height(Len(new))
        <3>1. IsList(new) /\ new # <<>>
            BY <1>1, TypeInvLists
        <3>2. IsTreeOf(BuildMerkleTree(new), new)
            BY <3>1, TreeShape
        <3>3. Height(Len(new)) = Len(BuildMerkleTree(new)) - 1
            BY <3>2, HeightOfTree
        <3>4. QED
            BY <3>1, <3>3, InclusionProofVerifies
    <2>2. QED
        BY <2>1 DEF InclusionProofsComplete
<1>2. QED
    BY <1>1, TypeInvHolds, PTL

\* No list of steps proves an entry that is not in the tree.
THEOREM InclusionProofsSoundHolds == Spec => []InclusionProofsSound
<1>1. ASSUME TypeInv
      PROVE  InclusionProofsSound
    <2>1. ASSUME new # <<>>,
                 NEW leaf \in Strangers(new),
                 NEW proof \in BoundedSeq(Steps(new), Height(Len(new))),
                 VerifyInclusionProof(leaf, proof, MerkleRoot(new))
          PROVE  FALSE
        <3>1. /\ IsList(new) /\ DOMAIN new = 1 .. Len(new)
              /\ \A i \in 1 .. Len(new) : \E d : new[i] = HashLeaf(d)
            BY <1>1, TypeInvLists, ListLength DEF Entries
        <3>2. PICK d : leaf = HashLeaf(d) /\ leaf \notin ToSet(new)
            BY DEF Strangers
        <3>3. IsList(proof)
            <4>1. PICK m \in 0 .. Height(Len(new)) : proof \in [1 .. m -> Steps(new)]
                BY DEF BoundedSeq, SeqOf
            <4>2. m \in Nat
                OBVIOUS
            <4>3. proof \in Seq(Steps(new))
                BY <4>1, <4>2
            <4>4. QED
                BY <4>3, SeqIsList
        <3>4. \E i \in 1 .. Len(new) : new[i] = HashLeaf(d)
            BY <2>1, <3>1, <3>2, <3>3, InclusionProofSound
        <3>5. QED
            BY <3>1, <3>2, <3>4 DEF ToSet
    <2>2. QED
        BY <2>1 DEF InclusionProofsSound
<1>2. QED
    BY <1>1, TypeInvHolds, PTL

-----------------------------------------------------------------------------
(* The properties of two trees *)

\* The pair (tree_size, merkle_root) of a signed root binds every leaf, for
\* registries of any size.
THEOREM RootAndSizeBindLeavesHolds == Spec => []RootAndSizeBindLeaves
<1>1. ASSUME TypeInv
      PROVE  RootAndSizeBindLeaves
    BY <1>1, TypeInvLists, RootAndSizeBind DEF RootAndSizeBindLeaves
<1>2. QED
    BY <1>1, TypeInvHolds, PTL

\* Every generated consistency proof verifies.
THEOREM ConsistencyProofsCompleteHolds == Spec => []ConsistencyProofsComplete
<1>1. ASSUME TypeInv
      PROVE  ConsistencyProofsComplete
    BY <1>1, TypeInvLists, ConsistencyProofVerifies DEF ConsistencyProofsComplete
<1>2. QED
    BY <1>1, TypeInvHolds, PTL

\* A consistency proof that verifies against the roots and the sizes of two
\* registries shows that the old one is a prefix of the new one.
THEOREM ConsistencyProofsSoundHolds == Spec => []ConsistencyProofsSound
<1>1. ASSUME TypeInv
      PROVE  ConsistencyProofsSound
    <2> DEFINE Proof(leaves, k) ==
                   [old_tree_size        |-> Len(old),
                    new_tree_size        |-> Len(new),
                    old_root_hash        |-> MerkleRoot(old),
                    new_root_hash        |-> MerkleRoot(new),
                    old_leaf_hashes      |-> SubSeq(leaves, 1, k),
                    appended_leaf_hashes |-> SubSeq(leaves, k + 1, Len(leaves))]
    <2>1. ASSUME NEW leaves \in Registries, NEW k \in 0 .. MaxLeaves, k <= Len(leaves),
                 VerifyConsistencyProof(Proof(leaves, k))
          PROVE  IsPrefix(old, new)
        <3>1. k \in Nat
            BY MaxLeavesAssumption
        <3>2. leaves \in Seq(Entries)
            <4>1. PICK m \in 0 .. MaxLeaves : leaves \in [1 .. m -> Entries]
                BY DEF Registries, BoundedSeq, SeqOf, Entries
            <4>2. m \in Nat
                BY MaxLeavesAssumption
            <4>3. QED
                BY <4>1, <4>2
        <3>3. Len(leaves) \in Nat /\ \A i \in 1 .. Len(leaves) : leaves[i] \in Entries
            BY <3>2
        <3>4. SubSeq(leaves, 1, k) \in Seq(Entries)
            <4>1. \A i \in 1 .. k : leaves[i] \in Entries
                BY <2>1, <3>1, <3>3
            <4>2. QED
                BY <3>1, <4>1, SubSeqProperties
        <3>5. SubSeq(leaves, k + 1, Len(leaves)) \in Seq(Entries)
            <4>1. \A i \in k + 1 .. Len(leaves) : leaves[i] \in Entries
                BY <3>1, <3>3
            <4>2. k + 1 \in Int /\ Len(leaves) \in Int
                BY <3>1, <3>3
            <4>3. QED
                BY <4>1, <4>2, SubSeqProperties
        <3>6. IsList(Proof(leaves, k).old_leaf_hashes) /\ IsList(Proof(leaves, k).appended_leaf_hashes)
            BY <3>4, <3>5, SeqIsList
        <3>7. /\ Proof(leaves, k).old_tree_size = Len(old)
              /\ Proof(leaves, k).old_root_hash = MerkleRoot(old)
              /\ Proof(leaves, k).new_tree_size = Len(new)
              /\ Proof(leaves, k).new_root_hash = MerkleRoot(new)
            OBVIOUS
        <3>8. QED
            <4> HIDE DEF Proof
            <4>1. QED
                BY <1>1, <2>1, <3>6, <3>7, TypeInvLists, ConsistencyProofSound
    <2>2. QED
        BY <2>1 DEF ConsistencyProofsSound
<1>2. QED
    BY <1>1, TypeInvHolds, PTL
=============================================================================
