--------------------------- MODULE TransparencyLog ---------------------------
(***************************************************************************)
(* What the registry promises: "the append-only set of identity assertions"*)
(* and commitments to it (src/api-merkle/API/app/main.py, registry_info).  *)
(* The log only grows at its end, and whatever is published commits to the *)
(* first leaves of the log and is never withdrawn. How many threads serve  *)
(* requests, when a root is published and what fails is left open, and so  *)
(* are the hash of a leaf and the root of a list of leaves.                *)
(***************************************************************************)
EXTENDS Naturals, Sequences

CONSTANTS Assertions, HashLeaf(_), MerkleRoot(_)

VARIABLES log,          \* the leaf hashes, in the order of registration
          commitments   \* the published (tree_size, merkle_root) pairs

logVars == <<log, commitments>>

Commitment(n) ==
    [tree_size |-> n, merkle_root |-> MerkleRoot(SubSeq(log, 1, n))]

Init ==
    /\ log = <<>>
    /\ commitments = {}

Register(a) ==
    /\ log' = Append(log, HashLeaf(a))
    /\ UNCHANGED commitments

Publish(n) ==
    /\ commitments' = commitments \cup {Commitment(n)}
    /\ UNCHANGED log

Next ==
    \/ \E a \in Assertions : Register(a)
    \/ \E n \in 1 .. Len(log) : Publish(n)

Spec == Init /\ [][Next]_logVars
=============================================================================
