---------------------------- MODULE MCHibitBuffer ----------------------------
(* Model checking HibitBuffer: addresses are interchangeable, the code never
   compares them. *)
EXTENDS HibitBuffer, TLC

Addresses == Permutations(Block)
=============================================================================
