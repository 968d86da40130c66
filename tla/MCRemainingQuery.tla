-------------------------- MODULE MCRemainingQuery --------------------------
(***************************************************************************)
(* Small instances of RemainingQuery.tla for TLC: the lowest byte is one   *)
(* bit, so that every second index differs above it.                       *)
(***************************************************************************)
EXTENDS RemainingQuery
=============================================================================
