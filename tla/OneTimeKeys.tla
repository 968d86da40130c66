---------------------------- MODULE OneTimeKeys ----------------------------
(***************************************************************************)
(* What a stateful signature key promises: one-time keys 0 .. MaxIndex, a  *)
(* durable bound that only moves up, and a one-time key handed out at most *)
(* once, and only below the durable bound, so that no crash, failure or    *)
(* restart can bring it back.                                              *)
(***************************************************************************)
EXTENDS Naturals

CONSTANT MaxIndex

VARIABLES durable,   \* every one-time key below it is spent for good
          spent      \* the one-time keys whose signature was handed out
vars == <<durable, spent>>

Init == durable = 0 /\ spent = {}

Reserve == /\ durable' \in (durable + 1) .. (MaxIndex + 1)
           /\ UNCHANGED spent

HandOut(i) == /\ i < durable
              /\ i \notin spent
              /\ spent' = spent \cup {i}
              /\ UNCHANGED durable

Next == Reserve \/ \E i \in 0 .. MaxIndex : HandOut(i)

Spec == Init /\ [][Next]_vars
=============================================================================
