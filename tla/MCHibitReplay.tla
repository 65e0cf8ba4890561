--------------------------- MODULE MCHibitReplay ---------------------------
(* Model checking HibitReplay: positions are interchangeable. *)
EXTENDS HibitReplay, TLC

Positions == Permutations(Fan2) \cup Permutations(Fan1)
=============================================================================
