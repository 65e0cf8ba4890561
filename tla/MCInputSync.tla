---------------------------- MODULE MCInputSync ----------------------------
(* Model checking InputSync. *)
EXTENDS InputSync
=============================================================================
