--------------------------- MODULE MCStatefulKey ---------------------------
(***************************************************************************)
(* Small instances of StatefulKey.tla for TLC: a key of MaxIndex + 1       *)
(* one-time keys is used up, and signed with beyond that, in every run.    *)
(***************************************************************************)
EXTENDS StatefulKey
=============================================================================
