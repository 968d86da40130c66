----------------------------- MODULE MCRegistry -----------------------------
(***************************************************************************)
(* Small instances of Registry.tla for TLC. Workers and identities are only*)
(* compared with each other, so permuting them changes no safety property. *)
(***************************************************************************)
EXTENDS Registry

Symmetry == Permutations(Workers) \cup Permutations(Identities)
=============================================================================
