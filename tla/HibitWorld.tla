----------------------------- MODULE HibitWorld -----------------------------
(***************************************************************************)
(* A world: the trees of its components, the VM mode mirrored to all of    *)
(* them, and the two clocks.  A system of the pipeline is any sequence of  *)
(* Write and Remove; ecs_pipeline_run ends it with EndTick.                *)
(*                                                                         *)
(* fresh is a history variable: it observes the calls, no guard reads it.  *)
(***************************************************************************)
EXTENDS HibitNodes, Naturals

CONSTANTS Component,  \* the populated slots of world->trees
          MaxTick,    \* bound on both clocks (32-bit in the code)
          Sent        \* the snapshots that peers send

ASSUME MaxTickAssumption == MaxTick \in Nat
ASSUME SentAssumption ==
  Sent \subseteq [tick : 0..MaxTick, stores : [Component -> Store]]

VARIABLES trees, mode, confirmedTick, predictedTick,
          fresh  \* slots of the CONFIRMED calls since the last rollback or
                 \* end of tick

clocks == <<confirmedTick, predictedTick>>
vars == <<trees, mode, clocks, fresh>>

Init ==
  /\ trees = [c \in Component |-> NewTree]
  /\ mode = "CONFIRMED"
  /\ confirmedTick = 0 /\ predictedTick = 0
  /\ fresh = {}

Record(slot) ==
  /\ fresh' = fresh \cup IfConfirmed(mode, {slot})
  /\ UNCHANGED <<mode, clocks>>

Write(c, i, j, k) ==
  /\ \E v \in Value : trees' = [trees EXCEPT ![c] = GetMut(@, i, j, k, v)]
  /\ Record(<<c, i, j, k>>)

Remove(c, i, j, k) ==
  /\ Present(trees[c], i, j, k)
  /\ trees' = [trees EXCEPT ![c] = RemoveSlot(@, i, j, k)]
  /\ Record(<<c, i, j, k>>)

Access ==
  \E c \in Component, i \in Fan3, j \in Fan2, k \in Fan1 :
    Write(c, i, j, k) \/ Remove(c, i, j, k)

(* ecs_world_end_tick, also the last call of ecs_pipeline_run. *)
EndTick ==
  /\ predictedTick < MaxTick
  /\ predictedTick' = predictedTick + 1
  /\ trees' = [c \in Component |-> ClearChanged(trees[c])]
  /\ fresh' = {}
  /\ UNCHANGED <<mode, confirmedTick>>

(* Mutants: the clock follows the changed bits alone; only trees with no
   prediction are asked. *)
AnyAdvanced_AnyChange == \E c \in Component : trees[c].root.changed # {}

AnyAdvanced_CleanTrees ==
  \E c \in Component : NoDirty(trees[c]) /\ RollbackAdvances(trees[c])

AnyAdvanced == \E c \in Component : RollbackAdvances(trees[c])

WorldRollback ==
  /\ confirmedTick < MaxTick
  /\ trees' = [c \in Component |-> Rollback(trees[c])]
  /\ confirmedTick' = confirmedTick + (IF AnyAdvanced THEN 1 ELSE 0)
  /\ predictedTick' = confirmedTick'
  /\ fresh' = {}
  /\ UNCHANGED mode

(* Mutant: the mode is not mirrored to the trees. *)
SetMode_NotMirrored(m) ==
  /\ \A c \in Component : NoDirty(trees[c])
  /\ mode' = m
  /\ UNCHANGED <<trees, clocks, fresh>>

(* ecs_tree_set_mode asserts ecs_tree_no_dirty for every tree of the loop. *)
SetMode(m) ==
  /\ \A c \in Component : NoDirty(trees[c])
  /\ trees' = [c \in Component |-> [trees[c] EXCEPT !.mode = m]]
  /\ mode' = m
  /\ UNCHANGED <<clocks, fresh>>

(* Mutant: the trees are loaded, the predicted clock is left running. *)
LoadWorld_ClockRuns(snap) ==
  /\ \A c \in Component : Carried(FeedOf(snap.stores[c]))
  /\ trees' = [c \in Component |-> Load(trees[c], FeedOf(snap.stores[c]))]
  /\ confirmedTick' = snap.tick
  /\ fresh' = {}
  /\ UNCHANGED <<mode, predictedTick>>

(* ecs_world_deserialize of what a peer of the same schema sent by
   ecs_world_serialize, whatever is predicted here at the time. *)
LoadWorld(snap) ==
  /\ \A c \in Component : Carried(FeedOf(snap.stores[c]))
  /\ confirmedTick' = snap.tick /\ predictedTick' = snap.tick
  /\ fresh' = {}
  /\ trees' = [c \in Component |-> Load(trees[c], FeedOf(snap.stores[c]))]
  /\ UNCHANGED mode

Tick == EndTick \/ WorldRollback

LoadAny == \E snap \in Sent : LoadWorld(snap)

Next == Access \/ Tick \/ LoadAny \/ \E m \in Mode : SetMode(m)

Spec == Init /\ [][Next]_vars

(* A world that never predicts: an authoritative server. *)
ServerSpec == Init /\ [][Access \/ Tick]_vars

(* The clocks stay within the bound, the slots recorded exist. *)
TypeOK ==
  /\ trees \in [Component -> Tree]
  /\ mode \in Mode
  /\ confirmedTick \in 0..MaxTick /\ predictedTick \in 0..MaxTick
  /\ fresh \subseteq Component \X Fan3 \X Fan2 \X Fan1

-----------------------------------------------------------------------------
(* The slots among these that still hold what the CONFIRMED call wrote. *)
Standing(slots) ==
  {s \in slots : s[4] \in trees[s[1]].l1[s[2]][s[3]].conf}

Overpredicted(s) == s[4] \in trees[s[1]].l1[s[2]][s[3]].dirty

(* ecs_world_rollback never advances the confirmed clock for predictions, nor
   twice for one tick: there was a CONFIRMED call since the last rollback and
   the last end of tick, in some tree, though only masks were left to tell.
   A snapshot leaves no mask behind that would tell of the time before it. *)
AdvanceIsJustified ==
  [][confirmedTick' # confirmedTick /\ WorldRollback => fresh # {}]_vars

(* And it never misses a CONFIRMED write of the tick that is still there and
   that no prediction covers, whatever else was done to the same nodes. *)
FreshWriteAdvances ==
  [][(\E s \in Standing(fresh) : ~ Overpredicted(s)) /\ WorldRollback
       => confirmedTick' = confirmedTick + 1]_vars

(* While the world predicts, no call but the load of a snapshot moves any
   tree's confirmed store. *)
SpeculationIsolated ==
  [][mode = "PREDICT" =>
       \/ \A c \in Component : ConfirmedOf(trees'[c]) = ConfirmedOf(trees[c])
       \/ LoadAny]_vars

(* A peer that joins by a snapshot, in whatever mode and with whatever
   predictions, has the sender's confirmed world: nothing is predicted, by the
   masks, the bytes or the clocks, so that a rollback right after it is idle. *)
LoadStartsOver ==
  [][\A snap \in Sent : LoadWorld(snap) =>
       /\ predictedTick' = snap.tick /\ confirmedTick' = snap.tick
       /\ \A c \in Component :
            /\ ViewOf(trees'[c]) = snap.stores[c]
            /\ ConfirmedOf(trees'[c]) = snap.stores[c]
            /\ NoDirty(trees'[c]) /\ Rollback(trees'[c]) = trees'[c]]_vars

-----------------------------------------------------------------------------
(* What the documentation says, and the code does not do. *)

(* "Run every registered system once, then end-of-tick ... Caller drives
   rollback after return", and the rollback bumps the confirmed clock: after a
   frame with a CONFIRMED write that stands, some tree answers that it did. *)
ConfirmedFrameAdvances == [][EndTick /\ Standing(fresh) # {} => AnyAdvanced']_vars
=============================================================================
