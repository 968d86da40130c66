---------------------------- MODULE MCSecureCall ----------------------------
\* Small instances of SecureCall.  The bootstraps ask for certificates with
\* different common names, so that a permutation of them changes nothing; nor
\* does one of the calls.
EXTENDS SecureCall, TLC

CONSTANTS b1, b2

Names    == b1 :> "first" @@ b2 :> "second"
Symmetry == Permutations(Calls) \cup Permutations(Bootstraps)
=============================================================================
