----------------------------- MODULE HibitNodes -----------------------------
(***************************************************************************)
(* The three-level tree that holds one component (ecs_tree_t), as a value, *)
(* and the calls of ecs.c on it as operators from a tree to a tree.        *)
(*                                                                         *)
(* A 64-bit mask is the set of its set bits.  A child pointer that differs *)
(* from the shared default node is membership in own2 or own1: the nodes   *)
(* the tree has allocated.  An entity index is its three digits i, j, k:   *)
(* the child positions at L3, at L2 and at L1.                             *)
(***************************************************************************)
EXTENDS Modes, Naturals, FiniteSets

CONSTANTS Fan3, Fan2, Fan1,  \* child positions at each level (0..63 each)
          Value,             \* the bytes of one slot
          Zero,              \* the bytes ecs_l1_acquire leaves in every slot
          Absent             \* what an entity without the component has

ASSUME FanAssumption == Fan2 # {} /\ Fan1 # {}
ASSUME ZeroAssumption == Zero \in Value
ASSUME AbsentAssumption == Absent \notin Value

(* What an L2 node, or the root, knows of its children. *)
Summary(Fan) == [confAny : SUBSET Fan, confAll : SUBSET Fan,
                 predAny : SUBSET Fan, predAll : SUBSET Fan,
                 dirty : SUBSET Fan, changed : SUBSET Fan]

(* Presence, write tracking and the two byte images of 64 slots. *)
L1Node == [conf : SUBSET Fan1, pred : SUBSET Fan1,
           dirty : SUBSET Fan1, changed : SUBSET Fan1,
           cval : [Fan1 -> Value], pval : [Fan1 -> Value]]

Tree == [mode : Mode, root : Summary(Fan3),
         own2 : SUBSET Fan3, l2 : [Fan3 -> Summary(Fan2)],
         own1 : [Fan3 -> SUBSET Fan2], l1 : [Fan3 -> [Fan2 -> L1Node]]]

NoSummary == [confAny |-> {}, confAll |-> {}, predAny |-> {},
              predAll |-> {}, dirty |-> {}, changed |-> {}]

(* The shared default node; also a node fresh from ecs_l1_acquire. *)
NoL1 == [conf |-> {}, pred |-> {}, dirty |-> {}, changed |-> {},
         cval |-> [k \in Fan1 |-> Zero], pval |-> [k \in Fan1 |-> Zero]]

(* The L1 nodes below an L2 node that owns none. *)
NoLeaves == [j \in Fan2 |-> NoL1]

NewTree == [mode |-> "CONFIRMED", root |-> NoSummary,
            own2 |-> {}, l2 |-> [i \in Fan3 |-> NoSummary],
            own1 |-> [i \in Fan3 |-> {}],
            l1 |-> [i \in Fan3 |-> NoLeaves]]

-----------------------------------------------------------------------------
(* Reads *)

Present(t, i, j, k) == k \in t.l1[i][j].pred

(* Mutant: predicted bytes are never read. *)
CurrentBytes_Confirmed(n, k) == n.cval[k]

(* The current frame's bytes: predicted when dirty, else confirmed. *)
CurrentBytes(n, k) == IF k \in n.dirty THEN n.pval[k] ELSE n.cval[k]

Slot == Fan3 \X Fan2 \X Fan1

(* What an image holds. *)
Store == [Slot -> Value \cup {Absent}]

ConfirmedAt(n, k) == IF k \in n.conf THEN n.cval[k] ELSE Absent

ViewAt(n, k) == IF k \in n.pred THEN CurrentBytes(n, k) ELSE Absent

(* What a tree holds, slot by slot, in each of its two images. *)
ConfirmedOf(t) == [s \in Slot |-> ConfirmedAt(t.l1[s[1]][s[2]], s[3])]

ViewOf(t) == [s \in Slot |-> ViewAt(t.l1[s[1]][s[2]], s[3])]

(* Mutant: the predicted masks with the confirmed bytes. *)
CrcFeed_ConfirmedBytes(t) ==
  [i \in t.root.predAny |->
    [j \in t.l2[i].predAny |->
      [k \in t.l1[i][j].pred |-> t.l1[i][j].cval[k]]]]

(* What ecs_tree_crc64 feeds to the hash: the masks on the way down, as the
   domains, and the bytes of the slots it finds. *)
CrcFeed(t) ==
  [i \in t.root.predAny |->
    [j \in t.l2[i].predAny |->
      [k \in t.l1[i][j].pred |-> CurrentBytes(t.l1[i][j], k)]]]

(* The same, from a store that has no masks. *)
FeedOf(store) ==
  LET Holds(i, j, k) == store[<<i, j, k>>] # Absent
      HoldsL1(i, j) == \E k \in Fan1 : Holds(i, j, k)
  IN [i \in {x \in Fan3 : \E j \in Fan2 : HoldsL1(x, j)} |->
       [j \in {y \in Fan2 : HoldsL1(i, y)} |->
         [k \in {z \in Fan1 : Holds(i, j, z)} |-> store[<<i, j, k>>]]]]

(* Is no prediction in flight?  Only subtrees with a presence bit are read. *)
NoDirty(t) ==
  /\ t.root.dirty = {}
  /\ \A i \in t.root.confAny \cup t.root.predAny :
       /\ t.l2[i].dirty = {}
       /\ \A j \in t.l2[i].confAny \cup t.l2[i].predAny : t.l1[i][j].dirty = {}

-----------------------------------------------------------------------------
(* Writes *)

(* The L2 node a write needs: a fresh one points at default children only. *)
AcquireL2(t, i) ==
  IF i \in t.own2 THEN t
  ELSE [t EXCEPT !.own2 = @ \cup {i}, !.own1[i] = {},
                 !.l2[i] = NoSummary, !.l1[i] = NoLeaves]

AcquireL1(t, i, j) ==
  IF j \in t.own1[i] THEN t
  ELSE [t EXCEPT !.own1[i] = @ \cup {j}, !.l1[i][j] = NoL1]

MarkL1(n, m, k) ==
  [n EXCEPT !.pred = @ \cup {k}, !.conf = @ \cup IfConfirmed(m, {k}),
            !.dirty = @ \cup IfPredict(m, {k}), !.changed = @ \cup {k}]

(* Child c of a node was written; it is full in one image or the other. *)
MarkUp(s, m, c, predFull, confFull) ==
  [s EXCEPT !.predAny = @ \cup {c},
            !.predAll = IF predFull THEN @ \cup {c} ELSE @,
            !.confAny = @ \cup IfConfirmed(m, {c}),
            !.confAll = IF confFull THEN @ \cup {c} ELSE @,
            !.dirty = @ \cup IfPredict(m, {c}), !.changed = @ \cup {c}]

(* Mutant: the root is marked at the L2 position. *)
Mark_WrongDigit(t0, i, j, k) ==
  LET t == AcquireL1(AcquireL2(t0, i), i, j)
      m == t.mode
      n1 == MarkL1(t.l1[i][j], m, k)
      n2 == MarkUp(t.l2[i], m, j, n1.pred = Fan1, n1.conf = Fan1)
      n3 == MarkUp(t.root, m, j, n2.predAll = Fan2, n2.confAll = Fan2)
  IN [t EXCEPT !.l1[i][j] = n1, !.l2[i] = n2, !.root = n3]

(* tree_acquire_and_mark: every level is marked, whatever the bytes are. *)
Mark(t0, i, j, k) ==
  LET t == AcquireL1(AcquireL2(t0, i), i, j)
      m == t.mode
      n1 == MarkL1(t.l1[i][j], m, k)
      n2 == MarkUp(t.l2[i], m, j, n1.pred = Fan1, n1.conf = Fan1)
      n3 == MarkUp(t.root, m, i, n2.predAll = Fan2, n2.confAll = Fan2)
  IN [t EXCEPT !.l1[i][j] = n1, !.l2[i] = n2, !.root = n3]

(* ecs_tree_get_mut, and the caller's store through the pointer it returns. *)
GetMut(t, i, j, k, v) ==
  LET u == Mark(t, i, j, k)
  IN IF t.mode = "PREDICT" THEN [u EXCEPT !.l1[i][j].pval[k] = v]
                           ELSE [u EXCEPT !.l1[i][j].cval[k] = v]

-----------------------------------------------------------------------------
(* Removal *)

UnmarkL1(n, m, k) ==
  [n EXCEPT !.pred = @ \ {k}, !.conf = @ \ IfConfirmed(m, {k}),
            !.dirty = @ \cup IfPredict(m, {k}), !.changed = @ \cup {k}]

(* Mutants: the all-bit is left as it is; the dirty bit is not set. *)
UnmarkUp_StaleAll(s, m, c, empty) ==
  [s EXCEPT !.predAny = IF empty THEN @ \ {c} ELSE @,
            !.confAny = IF empty THEN @ \ IfConfirmed(m, {c}) ELSE @,
            !.dirty = @ \cup IfPredict(m, {c}), !.changed = @ \cup {c}]

UnmarkUp_NotDirty(s, m, c, empty) ==
  [s EXCEPT !.predAll = @ \ {c}, !.confAll = @ \ IfConfirmed(m, {c}),
            !.predAny = IF empty THEN @ \ {c} ELSE @,
            !.confAny = IF empty THEN @ \ IfConfirmed(m, {c}) ELSE @,
            !.changed = @ \cup {c}]

(* Child c of a node lost a slot; it may have become empty. *)
UnmarkUp(s, m, c, empty) ==
  [s EXCEPT !.predAll = @ \ {c}, !.confAll = @ \ IfConfirmed(m, {c}),
            !.predAny = IF empty THEN @ \ {c} ELSE @,
            !.confAny = IF empty THEN @ \ IfConfirmed(m, {c}) ELSE @,
            !.dirty = @ \cup IfPredict(m, {c}), !.changed = @ \cup {c}]

(* Mutant: nothing is released, as if a later promote would do it. *)
RemoveSlot_KeepsNodes(t, i, j, k) ==
  LET m == t.mode
      n1 == UnmarkL1(t.l1[i][j], m, k)
      n2 == UnmarkUp(t.l2[i], m, j, n1.pred = {})
      n3 == UnmarkUp(t.root, m, i, n2.predAny = {})
  IN [t EXCEPT !.l1[i][j] = n1, !.l2[i] = n2, !.root = n3]

(* ecs_tree_remove of a present slot.  In CONFIRMED mode an emptied node is
   released on the spot: its parent points at the default node again, and what
   an L2 node still points at then is out of reach. *)
RemoveSlot(t, i, j, k) ==
  LET m == t.mode
      n1 == UnmarkL1(t.l1[i][j], m, k)
      n2 == UnmarkUp(t.l2[i], m, j, n1.pred = {})
      n3 == UnmarkUp(t.root, m, i, n2.predAny = {})
      free1 == m = "CONFIRMED" /\ n1.pred = {}
      free2 == m = "CONFIRMED" /\ n2.predAny = {}
  IN [t EXCEPT !.l1[i] = IF free2 THEN NoLeaves
                         ELSE [@ EXCEPT ![j] = IF free1 THEN NoL1 ELSE n1],
               !.own1[i] = IF free2 THEN {} ELSE IF free1 THEN @ \ {j} ELSE @,
               !.l2[i] = IF free2 THEN NoSummary ELSE n2,
               !.own2 = IF free2 THEN @ \ {i} ELSE @,
               !.root = n3]

-----------------------------------------------------------------------------
(* End of tick and rollback: sparse walks along the summary bits *)

(* ecs_tree_end_tick walks the changed bits and skips default nodes. *)
EndTickReaches(t, i, j) ==
  /\ i \in t.root.changed \cap t.own2
  /\ j \in t.l2[i].changed \cap t.own1[i]

ClearChanged(t) ==
  [t EXCEPT !.root.changed = {},
            !.l2 = [i \in Fan3 |-> IF i \in t.root.changed \cap t.own2
                                     THEN [t.l2[i] EXCEPT !.changed = {}]
                                     ELSE t.l2[i]],
            !.l1 = [i \in Fan3 |-> [j \in Fan2 |->
                      IF EndTickReaches(t, i, j)
                        THEN [t.l1[i][j] EXCEPT !.changed = {}]
                        ELSE t.l1[i][j]]]]

Touched(s) == s.dirty \cup s.changed

(* Mutant: the walk follows the dirty bits only. *)
RollbackReaches2_DirtyOnly(t, i) == i \in t.root.dirty \cap t.own2

RollbackReaches2(t, i) == i \in Touched(t.root) \cap t.own2

RollbackReaches(t, i, j) ==
  RollbackReaches2(t, i) /\ j \in Touched(t.l2[i]) \cap t.own1[i]

(* Mutant: the dirty bits survive the rollback. *)
RolledL1_StaysDirty(n) ==
  IF n.conf = {} THEN NoL1
  ELSE [n EXCEPT !.pred = n.conf, !.changed = {}]

RolledL1(n) ==
  IF n.conf = {} THEN NoL1
  ELSE [n EXCEPT !.pred = n.conf, !.dirty = {}, !.changed = {}]

Rolled(s) == [s EXCEPT !.predAny = s.confAny, !.predAll = s.confAll,
                       !.dirty = {}, !.changed = {}]

RolledL2(s) == IF s.confAny = {} THEN NoSummary ELSE Rolled(s)

RollbackFrees2(t, i) == RollbackReaches2(t, i) /\ t.l2[i].confAny = {}

(* ecs_tree_rollback: nodes with nothing confirmed are released. *)
Rollback(t) ==
  IF Touched(t.root) = {} THEN t
  ELSE [t EXCEPT
    !.l1 = [i \in Fan3 |-> [j \in Fan2 |->
              IF RollbackFrees2(t, i) THEN NoL1
              ELSE IF RollbackReaches(t, i, j) THEN RolledL1(t.l1[i][j])
                                               ELSE t.l1[i][j]]],
    !.own1 = [i \in Fan3 |-> IF RollbackFrees2(t, i) THEN {} ELSE t.own1[i] \
                {j \in Fan2 : RollbackReaches(t, i, j) /\ t.l1[i][j].conf = {}}],
    !.l2 = [i \in Fan3 |-> IF RollbackReaches2(t, i) THEN RolledL2(t.l2[i])
                                                     ELSE t.l2[i]],
    !.own2 = @ \ {i \in Fan3 : RollbackFrees2(t, i)},
    !.root = Rolled(@)]

(* Its return value: did a slot change without being predicted? *)
RollbackAdvances(t) ==
  \E i \in Fan3, j \in Fan2 :
    /\ RollbackReaches(t, i, j)
    /\ ~ t.l1[i][j].changed \subseteq t.l1[i][j].dirty

-----------------------------------------------------------------------------
(* What an iteration defers to the end of a block and of an L2 node *)

(* Mutant: the flush forgets that a changed slot is predicted. *)
FlushedL1_NotDirty(n, m) ==
  IF m = "PREDICT"
    THEN [n EXCEPT !.pred = @ \cup n.changed]
    ELSE [n EXCEPT !.pred = @ \cup n.changed, !.conf = @ \cup n.changed]

(* The deferred updates of one L1 node: every changed slot was written. *)
FlushedL1(n, m) ==
  IF m = "PREDICT"
    THEN [n EXCEPT !.dirty = @ \cup n.changed, !.pred = @ \cup n.changed]
    ELSE [n EXCEPT !.pred = @ \cup n.changed, !.conf = @ \cup n.changed]

(* Mutants: `dirty' or `changed' stays where it is. *)
Propagated_ChangedOnly(s, x, child, m) ==
  [s EXCEPT !.changed = IF child.changed # {} THEN @ \cup {x} ELSE @]

Propagated_DirtyOnly(s, x, child, m) ==
  [s EXCEPT
     !.dirty = IF m = "PREDICT" /\ child.dirty # {} THEN @ \cup {x} ELSE @]

(* A node's dirty and changed bits for child x, from the child itself. *)
Propagated(s, x, child, m) ==
  [s EXCEPT
     !.dirty = IF m = "PREDICT" /\ child.dirty # {} THEN @ \cup {x} ELSE @,
     !.changed = IF child.changed # {} THEN @ \cup {x} ELSE @]

-----------------------------------------------------------------------------
(* Snapshots *)

(* Mutant: predicted bytes go out under the confirmed masks. *)
Snapshot_CurrentBytes(t) ==
  [i \in t.root.confAny |->
    [j \in t.l2[i].confAny |->
      [k \in t.l1[i][j].conf |-> CurrentBytes(t.l1[i][j], k)]]]

(* What ecs_tree_serialize writes: the confirmed masks on the way down, as the
   domains, and the bytes of the slots it finds. *)
Snapshot(t) ==
  [i \in t.root.confAny |->
    [j \in t.l2[i].confAny |->
      [k \in t.l1[i][j].conf |-> t.l1[i][j].cval[k]]]]

(* The masks that come out of ecs_deserialize_mask as they went in: up to eight
   positions are listed, and their number is sent in three bits. *)
Codable(mask, Fan) == Cardinality(mask) # 8 /\ Cardinality(Fan \ mask) # 8

Carried(snap) ==
  /\ Codable(DOMAIN snap, Fan3)
  /\ \A i \in DOMAIN snap :
       /\ Codable(DOMAIN snap[i], Fan2)
       /\ \A j \in DOMAIN snap[i] : Codable(DOMAIN snap[i][j], Fan1)

LoadedSummary(any, all) ==
  [confAny |-> any, confAll |-> all, predAny |-> any, predAll |-> all,
   dirty |-> {}, changed |-> {}]

(* A leaf keeps the bytes that the snapshot says nothing of. *)
LoadedL1(n, bytes) ==
  [conf |-> DOMAIN bytes, pred |-> DOMAIN bytes, dirty |-> {}, changed |-> {},
   cval |-> [k \in Fan1 |-> IF k \in DOMAIN bytes THEN bytes[k] ELSE n.cval[k]],
   pval |-> n.pval]

(* ecs_tree_deserialize, from the masks and bytes of a snapshot: nodes that it
   names are kept or acquired, and all others released, by their pointers and
   not by the masks the tree had. *)
Load(t, snap) ==
  LET Held(i, j) == IF i \in t.own2 /\ j \in t.own1[i] THEN t.l1[i][j] ELSE NoL1
      Leaf(i) == IF i \in DOMAIN snap THEN DOMAIN snap[i] ELSE {}
      Full(i) == {j \in Leaf(i) : DOMAIN snap[i][j] = Fan1}
  IN [mode |-> t.mode,
      own2 |-> DOMAIN snap,
      own1 |-> [i \in Fan3 |-> Leaf(i)],
      l1 |-> [i \in Fan3 |-> [j \in Fan2 |->
                IF j \in Leaf(i) THEN LoadedL1(Held(i, j), snap[i][j]) ELSE NoL1]],
      l2 |-> [i \in Fan3 |-> LoadedSummary(Leaf(i), Full(i))],
      root |-> LoadedSummary(DOMAIN snap, {i \in DOMAIN snap : Full(i) = Fan2})]

-----------------------------------------------------------------------------
(* What the code asserts and what it frees *)

LiveL1(t, i) == {j \in t.own1[i] : t.l1[i][j].conf # {}}
FullL1(t, i) == {j \in t.own1[i] : t.l1[i][j].conf = Fan1}

AtRest(s, any, all) ==
  /\ s.confAny = any /\ s.predAny = any
  /\ s.confAll = all /\ s.predAll = all
  /\ s.dirty = {}

(* ecs_tree_masks_valid: the tree at rest, re-derived from its leaves. *)
MasksValid(t) ==
  LET live == {i \in t.own2 : LiveL1(t, i) # {}}
  IN /\ \A i \in t.own2 :
          /\ AtRest(t.l2[i], LiveL1(t, i), FullL1(t, i))
          /\ \A j \in LiveL1(t, i) :
               t.l1[i][j].pred = t.l1[i][j].conf /\ t.l1[i][j].dirty = {}
     /\ AtRest(t.root, live, {i \in live : FullL1(t, i) = Fan2})

(* The nodes ecs_tree_destroy frees: its walk follows the confirmed bits. *)
DestroyFrees(t) ==
  [l2 |-> t.root.confAny,
   l1 |-> [i \in Fan3 |-> IF i \in t.root.confAny THEN t.l2[i].confAny ELSE {}]]

-----------------------------------------------------------------------------
(* What every tree satisfies between two calls (the inductive invariant)

   SummaryOf relates entry c of a node's summary s to the child it sums up;
   `empty' and `full' are the child's presence masks in the two images. *)
SummaryOf(s, c, child, predEmpty, predFull, confEmpty, confFull) ==
  /\ c \in s.predAny <=> ~ predEmpty
  /\ c \in s.predAll <=> predFull
  /\ c \in s.confAny <=> ~ confEmpty
  /\ c \in s.confAll <=> confFull
  /\ child.dirty # {} => c \in s.dirty
  /\ child.changed # {} => c \in s.changed

(* An L1 node n at position j of an L2 node s that owns the L1 nodes own. *)
LeafLinked(s, own, n, j) ==
  /\ SummaryOf(s, j, n, n.pred = {}, n.pred = Fan1, n.conf = {}, n.conf = Fan1)
  /\ n.pred \ n.dirty = n.conf \ n.dirty
  /\ j \notin own => n = NoL1

(* An L2 node s with L1 nodes own1 at position i of a root r. *)
NodeLinked(r, own2, s, own1, i) ==
  /\ SummaryOf(r, i, s, s.predAny = {}, s.predAll = Fan2,
                        s.confAny = {}, s.confAll = Fan2)
  /\ i \notin own2 => s = NoSummary /\ own1 = {}

(* What iterators keep too, once what they defer is done. *)
Linked(t) ==
  /\ t.mode = "CONFIRMED" => t.root.dirty = {}
  /\ \A i \in Fan3 :
       /\ NodeLinked(t.root, t.own2, t.l2[i], t.own1[i], i)
       /\ \A j \in Fan2 : LeafLinked(t.l2[i], t.own1[i], t.l1[i][j], j)

(* The calls of the tree hold nodes for what is confirmed or predicted only. *)
NoneIdle(t) ==
  \A i \in Fan3 :
    /\ i \in t.own2 => t.l2[i].confAny # {} \/ t.l2[i].dirty # {}
    /\ \A j \in t.own1[i] : t.l1[i][j].conf # {} \/ t.l1[i][j].dirty # {}

WellFormed(t) == Linked(t) /\ NoneIdle(t)
=============================================================================
