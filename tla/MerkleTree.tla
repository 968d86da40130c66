----------------------------- MODULE MerkleTree -----------------------------
(***************************************************************************)
(* The Merkle tree of the registry: src/api-merkle/API/app/crypto/merkle.py *)
(* and crypto/consistency.py.                                              *)
(*                                                                         *)
(* SHA-256 is modelled as an injective term constructor. The two domain    *)
(* prefixes of the code ("leaf:" and "node:") are the tags of the terms.   *)
(* Sequences are 1-based where the code's lists are 0-based; a leaf index  *)
(* stays 0-based, as in the code.                                          *)
(***************************************************************************)
EXTENDS Integers, Sequences, SequencesExt

\* Fault: no domain prefix on leaves.
HashLeafUntagged(data) == data

HashLeaf(data) == <<"leaf", data>>

HashNode(left, right) == <<"node", left, right>>

\* get_merkle_root returns the empty string for an empty list.
EmptyRoot == <<>>

\* Faults: an odd last node is lifted as it is, or forgotten.
NextLevelLifted(level) ==
    LET n == Len(level)
    IN  [i \in 1 .. (n + 1) \div 2 |->
            IF 2 * i <= n THEN HashNode(level[2 * i - 1], level[2 * i]) ELSE level[n]]

NextLevelForgotten(level) ==
    [i \in 1 .. Len(level) \div 2 |-> HashNode(level[2 * i - 1], level[2 * i])]

(***************************************************************************)
(* The body of build_merkle_tree's loop: the level above `level`. An odd   *)
(* last node is paired with itself.                                        *)
(***************************************************************************)
NextLevel(level) ==
    LET n == Len(level)
    IN  [i \in 1 .. (n + 1) \div 2 |->
            HashNode(level[2 * i - 1], level[IF 2 * i <= n THEN 2 * i ELSE n])]

\* One iteration of the `while len(current_level) > 1` loop.
GrowTree(tree) ==
    IF Len(Last(tree)) > 1 THEN Append(tree, NextLevel(Last(tree))) ELSE tree

(***************************************************************************)
(* All the levels, leaves first. The loop halves the level each time, so   *)
(* as many iterations as there are leaves are enough.                      *)
(***************************************************************************)
BuildMerkleTree(leaves) ==
    IF leaves = <<>> THEN <<>>
    ELSE FoldLeft(LAMBDA tree, leaf : GrowTree(tree), <<leaves>>, leaves)

MerkleRoot(leaves) ==
    IF leaves = <<>> THEN EmptyRoot ELSE Last(BuildMerkleTree(leaves))[1]

\* Fault: a missing right sibling is taken from the left neighbour.
ProofStepLeftNeighbour(level, i) ==
    LET sibling == IF i % 2 = 1 THEN i - 1 ELSE i + 1
    IN  [sibling_hash |-> level[1 + (IF sibling < Len(level) THEN sibling ELSE i - 1)],
         direction    |-> IF i % 2 = 1 THEN "left" ELSE "right"]

(***************************************************************************)
(* generate_inclusion_proof for index \in 0 .. Len(leaves) - 1: one step   *)
(* per level below the root.                                               *)
(***************************************************************************)
ProofStep(level, i) ==
    LET sibling == IF i % 2 = 1 THEN i - 1 ELSE i + 1
    IN  [sibling_hash |-> level[1 + (IF sibling < Len(level) THEN sibling ELSE i)],
         direction    |-> IF i % 2 = 1 THEN "left" ELSE "right"]

GenerateInclusionProof(leaves, index) ==
    LET tree == BuildMerkleTree(leaves)
    IN  [k \in 1 .. Len(tree) - 1 |-> ProofStep(tree[k], index \div 2^(k - 1))]

\* The hash verify_inclusion_proof computes from a leaf and a list of steps.
ComputedRoot(leaf_hash, proof) ==
    FoldLeft(LAMBDA h, step : IF step.direction = "left"
                              THEN HashNode(step.sibling_hash, h)
                              ELSE HashNode(h, step.sibling_hash),
             leaf_hash, proof)

VerifyInclusionProof(leaf_hash, proof, expected_root) ==
    ComputedRoot(leaf_hash, proof) = expected_root

-----------------------------------------------------------------------------
(* crypto/consistency.py *)

(***************************************************************************)
(* When generate_consistency_proof does not raise: both lists are          *)
(* non-empty and the old one is a prefix of the new one.                   *)
(***************************************************************************)
ConsistencyProofExists(old, new) ==
    old # <<>> /\ new # <<>> /\ IsPrefix(old, new)

\* Fault: the appended leaves repeat the last old one.
GenerateConsistencyProofOverlap(old, new) ==
    [old_tree_size        |-> Len(old),
     new_tree_size        |-> Len(new),
     old_root_hash        |-> MerkleRoot(old),
     new_root_hash        |-> MerkleRoot(new),
     old_leaf_hashes      |-> old,
     appended_leaf_hashes |-> SubSeq(new, Len(old), Len(new))]

GenerateConsistencyProof(old, new) ==
    [old_tree_size        |-> Len(old),
     new_tree_size        |-> Len(new),
     old_root_hash        |-> MerkleRoot(old),
     new_root_hash        |-> MerkleRoot(new),
     old_leaf_hashes      |-> old,
     appended_leaf_hashes |-> SubSeq(new, Len(old) + 1, Len(new))]

\* Fault: the number of old leaves is not compared with old_tree_size.
WellFormedWithoutOldCount(p) ==
    /\ p.old_tree_size > 0
    /\ p.new_tree_size > 0
    /\ p.old_tree_size <= p.new_tree_size
    /\ Len(p.old_leaf_hashes \o p.appended_leaf_hashes) = p.new_tree_size

\* The five checks of verify_consistency_proof that raise ValueError.
WellFormedConsistencyProof(p) ==
    /\ p.old_tree_size > 0
    /\ p.new_tree_size > 0
    /\ p.old_tree_size <= p.new_tree_size
    /\ Len(p.old_leaf_hashes) = p.old_tree_size
    /\ Len(p.old_leaf_hashes \o p.appended_leaf_hashes) = p.new_tree_size

VerifyConsistencyProof(p) ==
    /\ WellFormedConsistencyProof(p)
    /\ MerkleRoot(p.old_leaf_hashes) = p.old_root_hash
    /\ MerkleRoot(p.old_leaf_hashes \o p.appended_leaf_hashes) = p.new_root_hash
=============================================================================
