---------------------------- MODULE MCHibitTree ----------------------------
(* Model checking HibitTree on a few slots: the L1 nodes of an L2 node are
   interchangeable, since no mask operation of the code orders them. *)
EXTENDS HibitTree, TLC

Positions == Permutations(Fan2)
=============================================================================
