---------------------------- MODULE MCHibitWorld ----------------------------
(* Model checking HibitWorld: components and positions are interchangeable. *)
EXTENDS HibitWorld, TLC

Positions == Permutations(Component) \cup Permutations(Fan1)

(* A snapshot for every set of slots that all components of the peer hold. *)
SameSlots ==
  {[tick |-> 1,
    stores |-> [c \in Component |-> [s \in Slot |-> IF s \in held THEN Zero ELSE Absent]]] :
     held \in SUBSET Slot}
=============================================================================
