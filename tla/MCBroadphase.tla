---------------------------- MODULE MCBroadphase ----------------------------
(* Model checking Broadphase: items left and right, inserted against the order
   of their codes, and queries for one side, for all, and for the middle, which
   only the boxes of parents overlap. *)
EXTENDS Broadphase

Left == [min |-> 0, max |-> 0]
Right == [min |-> 2, max |-> 3]
Middle == [min |-> 1, max |-> 1]
Wide == [min |-> 0, max |-> 3]

Items == {Left, Right}
Probes == {Left, Middle, Wide}
RightFirst == [b \in Items |-> IF b = Right THEN 0 ELSE 1]
=============================================================================
