------------------------------- MODULE Modes -------------------------------
(* The VM mode of a tree (ecs_mode_t) and the two mode multipliers every  *)
(* mutator of the code computes from it.                                   *)

Mode == {"CONFIRMED", "PREDICT"}

(* `bits & conf_mask': the bits in CONFIRMED mode, none in PREDICT mode. *)
IfConfirmed(m, bits) == IF m = "CONFIRMED" THEN bits ELSE {}

(* `bits * m': the bits in PREDICT mode, none in CONFIRMED mode. *)
IfPredict(m, bits) == IF m = "PREDICT" THEN bits ELSE {}
=============================================================================
