---------------------------- MODULE HibitReplay ----------------------------
(***************************************************************************)
(* The loop of a predicting client over one tree: it applies confirmed     *)
(* calls, predicts a script of calls, compares checksums, rolls back and   *)
(* replays the script as confirmed calls, as                               *)
(* test_mode_predict_matches_confirmed_simulation does for one slot.       *)
(***************************************************************************)
EXTENDS HibitNodes, Naturals, Sequences

CONSTANT MaxScript  \* calls predicted in one round

VARIABLES tree,
          phase,      \* where the client is in its loop
          script,     \* the calls predicted, those replayed dropped from the front
          base,       \* checksum of the confirmed tree the prediction started from
          predicted   \* checksum reached by the prediction

vars == <<tree, phase, script, base, predicted>>

Phase == {"confirm", "predict", "discarded", "replay"}

(* A call on one slot: a write of a value, or a removal (Absent). *)
Call == Slot \X (Value \cup {Absent})

(* ecs_tree_remove returns 0 and does nothing on an absent slot. *)
Apply(t, call) ==
  LET i == call[1][1]  j == call[1][2]  k == call[1][3]
  IN IF call[2] # Absent THEN GetMut(t, i, j, k, call[2])
     ELSE IF Present(t, i, j, k) THEN RemoveSlot(t, i, j, k)
     ELSE t

Init ==
  /\ tree = NewTree
  /\ phase = "confirm"
  /\ script = <<>>
  /\ base = CrcFeed(NewTree) /\ predicted = CrcFeed(NewTree)

(* A confirmed call from outside the script: the server's own changes. *)
Confirm(call) ==
  /\ phase = "confirm"
  /\ tree' = Apply(tree, call)
  /\ UNCHANGED <<phase, script, base, predicted>>

(* ecs_tree_set_mode(PREDICT). *)
StartPrediction ==
  /\ phase = "confirm" /\ NoDirty(tree)
  /\ phase' = "predict"
  /\ tree' = [tree EXCEPT !.mode = "PREDICT"]
  /\ base' = CrcFeed(tree)
  /\ UNCHANGED <<script, predicted>>

Predict(call) ==
  /\ phase = "predict" /\ Len(script) < MaxScript
  /\ tree' = Apply(tree, call)
  /\ script' = Append(script, call)
  /\ UNCHANGED <<phase, base, predicted>>

Discard ==
  /\ phase = "predict"
  /\ phase' = "discarded"
  /\ predicted' = CrcFeed(tree)
  /\ tree' = Rollback(tree)
  /\ UNCHANGED <<script, base>>

(* ecs_tree_set_mode(CONFIRMED). *)
StartReplay ==
  /\ phase = "discarded" /\ NoDirty(tree)
  /\ phase' = "replay"
  /\ tree' = [tree EXCEPT !.mode = "CONFIRMED"]
  /\ UNCHANGED <<script, base, predicted>>

Replay ==
  /\ phase = "replay" /\ script # <<>>
  /\ tree' = Apply(tree, Head(script))
  /\ script' = Tail(script)
  /\ UNCHANGED <<phase, base, predicted>>

Finish ==
  /\ phase = "replay" /\ script = <<>>
  /\ phase' = "confirm"
  /\ UNCHANGED <<tree, script, base, predicted>>

(* A tick may end anywhere; it ends with a rollback outside a prediction. *)
EndTick ==
  /\ tree' = ClearChanged(tree)
  /\ UNCHANGED <<phase, script, base, predicted>>

EndConfirmedTick ==
  /\ phase # "predict"
  /\ tree' = Rollback(tree)
  /\ UNCHANGED <<phase, script, base, predicted>>

Next ==
  \/ \E call \in Call : Confirm(call) \/ Predict(call)
  \/ StartPrediction \/ Discard \/ StartReplay \/ Replay \/ Finish
  \/ EndTick \/ EndConfirmedTick

Spec == Init /\ [][Next]_vars

-----------------------------------------------------------------------------
(* Discarding a prediction brings back the checksum it started from, and the
   mode can always be switched then; replaying the predicted calls as confirmed
   ones reaches the checksum the prediction had: the two byte images, the stale
   bytes an earlier prediction left and the nodes released in between make no
   difference. *)
ReplayAgrees ==
  /\ phase = "discarded" => NoDirty(tree) /\ CrcFeed(tree) = base
  /\ phase = "replay" /\ script = <<>> => CrcFeed(tree) = predicted
=============================================================================
