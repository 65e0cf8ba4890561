---------------------------- MODULE MCQueryText ----------------------------
(* Model checking QueryText: of three names two have a tree; the third is also
   one name too many. *)
EXTENDS QueryText

CONSTANTS a, b, c

(* The two names of trees may trade places. *)
Alike == Permutations(Component)
=============================================================================
