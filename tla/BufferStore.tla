----------------------------- MODULE BufferStore -----------------------------
(***************************************************************************)
(* What a tree of BUFFER components promises its user, with no heap and no *)
(* pointer: a list per entity in the confirmed store, another one in the   *)
(* view of the current frame, and each push, pop and clear acts on the     *)
(* list the frame sees.                                                    *)
(***************************************************************************)
EXTENDS Modes, SequencesExt

CONSTANTS Slot,    \* the entity slots of the tree
          Elem,    \* what is pushed
          Absent   \* "the entity has no such component"

VARIABLES vmMode, confirmed, view

listVars == <<vmMode, confirmed, view>>

NoLists == [s \in Slot |-> Absent]

ListInit == vmMode = "CONFIRMED" /\ confirmed = NoLists /\ view = NoLists

Put(s, list) ==
  /\ view' = [view EXCEPT ![s] = list]
  /\ confirmed' = IF vmMode = "CONFIRMED" THEN [confirmed EXCEPT ![s] = list]
                                          ELSE confirmed
  /\ UNCHANGED vmMode

(* What the frame sees; an entity gains the component with its first push. *)
ListAt(s) == IF view[s] = Absent THEN <<>> ELSE view[s]

ListPush(s) == \E e \in Elem : Put(s, Append(ListAt(s), e))

ListPop(s) == ListAt(s) # <<>> /\ Put(s, Front(ListAt(s)))

ListClear(s) == Put(s, <<>>)

ListRemove(s) == view[s] # Absent /\ Put(s, Absent)

Discard == view' = confirmed /\ UNCHANGED <<vmMode, confirmed>>

SwitchMode(m) == view = confirmed /\ vmMode' = m /\ UNCHANGED <<confirmed, view>>

(* The tree is torn down and set up again. *)
Reset == view = confirmed /\ vmMode' = "CONFIRMED" /\ confirmed' = NoLists /\ view' = NoLists

ListNext ==
  \/ \E s \in Slot : ListPush(s) \/ ListPop(s) \/ ListClear(s) \/ ListRemove(s)
  \/ Discard \/ Reset
  \/ \E m \in Mode : SwitchMode(m)

ListSpec == ListInit /\ [][ListNext]_listVars
=============================================================================
