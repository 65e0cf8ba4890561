----------------------------- MODULE HibitTree -----------------------------
(***************************************************************************)
(* One POD component tree, driven by its public calls: ecs_tree_get_mut,   *)
(* ecs_tree_remove, ecs_tree_end_tick, ecs_tree_rollback,                  *)
(* ecs_tree_set_mode and ecs_tree_deserialize, in any order the asserts of *)
(* the code allow.                                                         *)
(***************************************************************************)
EXTENDS HibitNodes

VARIABLE tree

Init == tree = NewTree

Write(i, j, k) == \E v \in Value : tree' = GetMut(tree, i, j, k, v)

(* The call returns 0 and touches nothing when the slot is absent. *)
Remove(i, j, k) ==
  /\ Present(tree, i, j, k)
  /\ tree' = RemoveSlot(tree, i, j, k)

EndTick == tree' = ClearChanged(tree)

RollbackTree == tree' = Rollback(tree)

(* The caller owes ecs_tree_no_dirty.  `changed' is left as it is. *)
SetMode(m) ==
  /\ NoDirty(tree)
  /\ tree' = [tree EXCEPT !.mode = m]

(* ecs_tree_deserialize of a snapshot that any peer may have taken, whatever
   is predicted here at the time.  A snapshot with a mask that the codec does
   not carry reads as garbage, and is left out. *)
Deserialize(store) ==
  /\ Carried(FeedOf(store))
  /\ tree' = Load(tree, FeedOf(store))

Next ==
  \/ \E i \in Fan3, j \in Fan2, k \in Fan1 : Write(i, j, k) \/ Remove(i, j, k)
  \/ EndTick
  \/ RollbackTree
  \/ \E m \in Mode : SetMode(m)
  \/ \E store \in Store : Deserialize(store)

Spec == Init /\ [][Next]_tree

(* Every mask holds positions of its own level only, and every byte image
   holds written or zeroed bytes. *)
TypeOK == tree \in Tree

-----------------------------------------------------------------------------
(* Mask consistency *)

(* The any-bits and all-bits of every node are exact for the current frame,
   through any mix of writes, removals and rollbacks: a query that prunes by
   them (iter_compute_l3_mask, iter_compute_l2_mask) neither skips an entity
   nor keeps an excluded block. *)
PredictedSummaries ==
  \A i \in Fan3 :
    /\ i \in tree.root.predAny <=> tree.l2[i].predAny # {}
    /\ i \in tree.root.predAll <=> tree.l2[i].predAll = Fan2
    /\ \A j \in Fan2 :
         /\ j \in tree.l2[i].predAny <=> tree.l1[i][j].pred # {}
         /\ j \in tree.l2[i].predAll <=> tree.l1[i][j].pred = Fan1

(* The same for the confirmed image, which the serializer and the destructor
   walk: predictions never leak into its summaries. *)
ConfirmedSummaries ==
  \A i \in Fan3 :
    /\ i \in tree.root.confAny <=> tree.l2[i].confAny # {}
    /\ i \in tree.root.confAll <=> tree.l2[i].confAll = Fan2
    /\ \A j \in Fan2 :
         /\ j \in tree.l2[i].confAny <=> tree.l1[i][j].conf # {}
         /\ j \in tree.l2[i].confAll <=> tree.l1[i][j].conf = Fan1

(* Rollback walks a sparse path.  No prediction hides off it: every dirty
   bit is under dirty bits all the way up, in nodes the tree still owns. *)
DirtyIsReachable ==
  \A i \in Fan3 :
    /\ tree.l2[i].dirty # {} => i \in tree.root.dirty
    /\ \A j \in Fan2 :
         tree.l1[i][j].dirty # {} =>
           i \in tree.own2 /\ j \in tree.l2[i].dirty \cap tree.own1[i]

(* The same for end_tick and `changed', although nodes are released while
   their parents still carry the bit. *)
ChangedIsReachable ==
  \A i \in Fan3 :
    /\ tree.l2[i].changed # {} => i \in tree.root.changed
    /\ \A j \in Fan2 :
         tree.l1[i][j].changed # {} =>
           i \in tree.own2 /\ j \in tree.l2[i].changed \cap tree.own1[i]

(* Rollback and end_tick walk sparse paths, and both are complete. *)
WalksReachAll == DirtyIsReachable /\ ChangedIsReachable

(* A slot no prediction touched reads the same in both images. *)
UntouchedAgree ==
  \A i \in Fan3, j \in Fan2 :
    LET n == tree.l1[i][j] IN n.pred \ n.dirty = n.conf \ n.dirty

(* Whenever ecs_tree_destroy may be called, its walk along the confirmed
   bits frees every node the tree ever allocated and still owns: the calls
   that empty a node release it in time. *)
NoNodeLost ==
  NoDirty(tree) => DestroyFrees(tree) = [l2 |-> tree.own2, l1 |-> tree.own1]

(* The assertion of ecs_tree_rollback, in every state without predictions
   and not only after a rollback. *)
MasksValidAtRest == NoDirty(tree) => MasksValid(tree)

(* After a rollback nothing of the tick is left: no dirty bit, no changed
   bit, no node without a confirmed slot, and the code's assertion holds. *)
RollbackClearsTick ==
  [][RollbackTree =>
       /\ MasksValid(tree')
       /\ \A i \in Fan3 :
            /\ Touched(tree'.l2[i]) = {}
            /\ tree'.own1[i] = LiveL1(tree', i)
            /\ \A j \in Fan2 : Touched(tree'.l1[i][j]) = {}]_tree

(* The checksum hashes a function of the view alone: two trees with equal
   views agree, however their nodes, stale bytes and dirty bits differ. *)
ChecksumIsView == CrcFeed(tree) = FeedOf(ViewOf(tree))

(* A snapshot holds the confirmed store, all of it and nothing else, however
   much is predicted as it is taken. *)
SnapshotIsConfirmed == Snapshot(tree) = FeedOf(ConfirmedOf(tree))

(* The invariant behind all of the above: it is preserved by every call. *)
TreeWellFormed == WellFormed(tree)

-----------------------------------------------------------------------------
(* The tree implements the abstract store. *)

Abstract == INSTANCE PredictStore WITH
              vmMode <- tree.mode,
              confirmed <- ConfirmedOf(tree), view <- ViewOf(tree)

(* Every call acts on confirmed data and on the current view as the abstract
   store says: predictions never reach confirmed bytes, stale predicted bytes
   are never read, a rollback restores the confirmed view, and both stores are
   what was in the snapshot once one is loaded. *)
ImplementsStore ==
  /\ Abstract!StoreInit
  /\ [][\/ Abstract!StoreNext
        \/ \E store \in Store : Deserialize(store) /\ Abstract!Restore(store)
       ]_(Abstract!storeVars)
=============================================================================
