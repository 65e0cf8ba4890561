---------------------------- MODULE MCInputRing ----------------------------
(* Model checking InputRing: the table never looks into an input's bytes, so
   the values are interchangeable. *)
EXTENDS InputRing, TLC

Bytes == Permutations(Value)
=============================================================================
