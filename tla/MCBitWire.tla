------------------------------ MODULE MCBitWire ------------------------------
(* Model checking BitWire with words of 8 bits, bytes of 2 and a count of 1
   bit: of each number of set positions a mask or two. *)
EXTENDS BitWire

SomeMasks ==
  {{}, {0}, {5}, {0, 1}, {0, 3, 7}, {1, 2, 4, 6}, Full, Full \ {0}, Full \ {6},
   Full \ {2, 3, 5}}
=============================================================================
