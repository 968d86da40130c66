---------------------------- MODULE MCConsistency ----------------------------
(***************************************************************************)
(* Small instances of ConsistencyService.tla for TLC.                      *)
(***************************************************************************)
EXTENDS ConsistencyService

Symmetry == Permutations(Workers) \cup Permutations(Identities)
=============================================================================
