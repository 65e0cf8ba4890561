---------------------------- MODULE PredictStore ----------------------------
(***************************************************************************)
(* What one component tree promises its user, with no masks and no nodes:  *)
(* a confirmed store, the view the current frame reads, and a mode that    *)
(* says which of the two a write reaches.  A prediction is visible in the  *)
(* view only, and a rollback throws every prediction away.                 *)
(***************************************************************************)
EXTENDS Modes

CONSTANTS Slot,    \* the entity slots of the tree
          Value,   \* what a slot can hold
          Absent   \* "the entity has no such component"

VARIABLES vmMode, confirmed, view

storeVars == <<vmMode, confirmed, view>>

StoreInit ==
  /\ vmMode = "CONFIRMED"
  /\ confirmed = [s \in Slot |-> Absent]
  /\ view = [s \in Slot |-> Absent]

(* Both stores in CONFIRMED mode, the view alone in PREDICT mode. *)
Put(s, c) ==
  /\ view' = [view EXCEPT ![s] = c]
  /\ confirmed' = IF vmMode = "CONFIRMED" THEN [confirmed EXCEPT ![s] = c]
                                          ELSE confirmed
  /\ UNCHANGED vmMode

StoreWrite(s) == \E v \in Value : Put(s, v)

StoreRemove(s) == view[s] # Absent /\ Put(s, Absent)

(* Predictions are dropped: the view is the confirmed store again. *)
Discard ==
  /\ view' = confirmed
  /\ UNCHANGED <<vmMode, confirmed>>

(* The mode may be switched only while nothing is predicted. *)
SwitchMode(m) ==
  /\ view = confirmed
  /\ vmMode' = m
  /\ UNCHANGED <<confirmed, view>>

StoreNext ==
  \/ \E s \in Slot : StoreWrite(s) \/ StoreRemove(s)
  \/ Discard
  \/ \E m \in Mode : SwitchMode(m)

(* A snapshot replaces both stores.  It is not a step of StoreNext: what was
   in the snapshot is for the user of this module to say. *)
Restore(store) ==
  /\ confirmed' = store /\ view' = store
  /\ UNCHANGED vmMode
=============================================================================
