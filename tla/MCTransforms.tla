---------------------------- MODULE MCTransforms ----------------------------
(* The links and the motions of the run on transform chains. *)
EXTENDS TransformChain

StraightOffsets == {<<0, 0, 0>>, <<1, 0, 0>>}
SlowRates == {<<0, 0, 0>>, <<1, 0, 0>>, <<0, 1, 0>>}
=============================================================================
