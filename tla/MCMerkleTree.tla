---------------------------- MODULE MCMerkleTree ----------------------------
(***************************************************************************)
(* Model checking of the algorithms of MerkleTree.tla over every pair of   *)
(* registries, `old` and `new`, of at most MaxLeaves leaves over Data. The *)
(* state machine only enumerates the inputs, one leaf at a time.           *)
(***************************************************************************)
EXTENDS MerkleTree, FiniteSets

CONSTANTS Data, MaxLeaves

ASSUME MaxLeavesAssumption == MaxLeaves \in Nat

VARIABLES old, new

vars == <<old, new>>

AppendToNew(d) ==
    /\ Len(new) < MaxLeaves
    /\ new' = Append(new, HashLeaf(d))
    /\ UNCHANGED old

AppendToOld(d) ==
    /\ Len(old) < MaxLeaves
    /\ new = <<>>
    /\ old' = Append(old, HashLeaf(d))
    /\ UNCHANGED new

Spec ==
    /\ old = <<>> /\ new = <<>>
    /\ [][\E d \in Data : AppendToOld(d) \/ AppendToNew(d)]_vars

Registries == BoundedSeq({HashLeaf(d) : d \in Data}, MaxLeaves)

-----------------------------------------------------------------------------
(* Reference definitions, top-down where the code works bottom-up. *)

\* The number of nodes at height h of a tree of n leaves: ceil(n / 2^h).
Width(n, h) == (n + 2^h - 1) \div 2^h

Height(n) == CHOOSE h \in 0 .. n : Width(n, h) = 1 /\ \A g \in 0 .. h - 1 : Width(n, g) > 1

\* The places <<h, i>> of the nodes of a tree of n leaves: the i-th at height h.
Places(n) == {p \in (0 .. Height(n)) \X (0 .. n - 1) : p[2] < Width(n, p[1])}

\* The node at each place, from its two children; an absent right child is its
\* sibling.
ReferenceTree(leaves) ==
    LET n == Len(leaves)
        node[p \in Places(n)] ==
            IF p[1] = 0 THEN leaves[p[2] + 1]
            ELSE LET absent == 2 * p[2] + 1 >= Width(n, p[1] - 1)
                 IN  HashNode(node[<<p[1] - 1, 2 * p[2]>>],
                              node[<<p[1] - 1, IF absent THEN 2 * p[2] ELSE 2 * p[2] + 1>>])
    IN  node

\* Every hash that occurs in the tree of `leaves`.
HashesOf(leaves) ==
    UNION {ToSet(BuildMerkleTree(leaves)[k]) : k \in DOMAIN BuildMerkleTree(leaves)}

\* The leaves outside `leaves` that a verifier may be shown: entries never
\* registered, and entries whose data is one of the tree's own hashes.
Strangers(leaves) ==
    {HashLeaf(d) : d \in Data \cup HashesOf(leaves)} \ ToSet(leaves)

Steps(leaves) ==
    [sibling_hash : HashesOf(leaves), direction : {"left", "right"}]

-----------------------------------------------------------------------------
(* Properties of crypto/merkle.py. Those of a single tree are about `new`, and *)
(* are evaluated in the states where `old` is empty: once for each list.       *)

\* The level-by-level loop computes the tree the duplicate-last rule defines.
RootMatchesReference ==
    old = <<>> /\ new # <<>> => MerkleRoot(new) = ReferenceTree(new)[<<Height(Len(new)), 0>>]

\* Every proof generated for a leaf verifies against the root of its tree,
\* at every index, whatever leaves are equal and however odd the levels are,
\* and has one step per level.
InclusionProofsComplete ==
    old = <<>> => \A i \in 0 .. Len(new) - 1 :
        LET proof == GenerateInclusionProof(new, i)
        IN  /\ VerifyInclusionProof(new[i + 1], proof, MerkleRoot(new))
            /\ Len(proof) = Height(Len(new))

\* No list of steps made of the tree's hashes proves a leaf that is not in the
\* tree: the "leaf:" and "node:" prefixes keep an inner node from passing as an
\* entry. Lists are as long as the honest proofs.
InclusionProofsSound ==
    old = <<>> /\ new # <<>> =>
        \A leaf \in Strangers(new), proof \in BoundedSeq(Steps(new), Height(Len(new))) :
            ~VerifyInclusionProof(leaf, proof, MerkleRoot(new))

\* Two registries of the same size with the same root are the same registry:
\* the pair (tree_size, merkle_root) of a signed root binds every leaf.
RootAndSizeBindLeaves ==
    /\ Len(old) = Len(new)
    /\ MerkleRoot(old) = MerkleRoot(new)
    => old = new

-----------------------------------------------------------------------------
(* Properties of crypto/consistency.py *)

\* A consistency proof is generated exactly for a non-empty prefix, and then
\* verifies.
ConsistencyProofsComplete ==
    ConsistencyProofExists(old, new) =>
        VerifyConsistencyProof(GenerateConsistencyProof(old, new))

\* Whatever leaf lists a proof carries, if it verifies against the roots and
\* the sizes of two registries then the old one is a prefix of the new one.
\* The sizes matter: without them the duplicate-last rule lets a tree of
\* three leaves stand for one of four.
ConsistencyProofsSound ==
    \A leaves \in Registries, k \in 0 .. MaxLeaves :
        (/\ k <= Len(leaves)
         /\ VerifyConsistencyProof(
                [old_tree_size        |-> Len(old),
                 new_tree_size        |-> Len(new),
                 old_root_hash        |-> MerkleRoot(old),
                 new_root_hash        |-> MerkleRoot(new),
                 old_leaf_hashes      |-> SubSeq(leaves, 1, k),
                 appended_leaf_hashes |-> SubSeq(leaves, k + 1, Len(leaves))]))
        => IsPrefix(old, new)
=============================================================================
