-------------------------- MODULE MCXmssTraversal --------------------------
(***************************************************************************)
(* Instances of XmssTraversal.tla for TLC: keys small enough to make every *)
(* signature they can make.                                                *)
(***************************************************************************)
EXTENDS XmssTraversal

SmallParams == {<<3, 1>>, <<4, 1>>, <<5, 1>>, <<6, 1>>, <<7, 1>>, <<8, 1>>, <<3, 2>>, <<4, 2>>, <<5, 2>>,
                <<3, 3>>, <<4, 3>>}

(* One layer more than the update budget of this tree height can feed.     *)
DeepParams == {<<3, 4>>}
=============================================================================
