-------------------------- MODULE HibitTreeProofs --------------------------
(* Proofs about HibitTree, for every fan-out and every set of values. *)
EXTENDS HibitTree, HibitNodesProofs

USE FanAssumption, ZeroAssumption

(* The inductive invariant of the specification. *)

IInv == TypeOK /\ TreeWellFormed

(* The invariant holds at first. *)
LEMMA InitKeeps == Init => IInv
BY NewTreeType, NewTreeWellFormed DEF Init, IInv, TypeOK, TreeWellFormed

(* Every call preserves the invariant. *)
LEMMA NextKeeps == IInv /\ [Next]_tree => IInv'
<1> SUFFICES ASSUME IInv, [Next]_tree PROVE IInv'
  OBVIOUS
<1> USE DEF IInv, TypeOK, TreeWellFormed
<1>1. ASSUME NEW i \in Fan3, NEW j \in Fan2, NEW k \in Fan1, Write(i, j, k)
      PROVE  IInv'
  BY <1>1, GetMutKeeps DEF Write
<1>2. ASSUME NEW i \in Fan3, NEW j \in Fan2, NEW k \in Fan1, Remove(i, j, k)
      PROVE  IInv'
  BY <1>2, RemoveKeeps DEF Remove
<1>3. CASE EndTick
  BY <1>3, ClearChangedKeeps DEF EndTick
<1>4. CASE RollbackTree
  BY <1>4, RollbackKeeps DEF RollbackTree
<1>5. ASSUME NEW m \in Mode, SetMode(m)
      PROVE  IInv'
  BY <1>5, SetModeKeeps DEF SetMode
<1>6. ASSUME NEW store \in Store, Deserialize(store)
      PROVE  IInv'
  BY <1>6, LoadKeeps DEF Deserialize
<1>7. CASE UNCHANGED tree
  BY <1>7
<1> QED BY <1>1, <1>2, <1>3, <1>4, <1>5, <1>6, <1>7 DEF Next

(* The invariant holds in every reachable state. *)
LEMMA Invariance == Spec => []IInv
BY InitKeeps, NextKeeps, PTL DEF Spec

(* Every call sequence the asserts of the code allow leaves masks of the
   right level and byte images of the right size, whatever the fan-outs. *)
THEOREM TypeCorrect == Spec => []TypeOK
<1>1. IInv => TypeOK
  BY DEF IInv
<1> QED BY <1>1, Invariance, PTL

(* The invariant that ties the levels together holds for ever. *)
THEOREM AlwaysWellFormed == Spec => []TreeWellFormed
<1>1. IInv => TreeWellFormed
  BY DEF IInv
<1> QED BY <1>1, Invariance, PTL

(* The current frame's any-bits and all-bits are exact at both levels, so a
   query prunes soundly (iter_compute_l3_mask, iter_compute_l2_mask). *)
THEOREM PredictedExact == Spec => []PredictedSummaries
<1>1. IInv => PredictedSummaries
  BY DEF IInv, TreeWellFormed, WellFormed, Linked, NodeLinked, LeafLinked, SummaryOf,
         PredictedSummaries
<1> QED BY <1>1, Invariance, PTL

(* The confirmed any-bits and all-bits are exact, so the serializer and the
   destructor, which follow them, miss nothing confirmed. *)
THEOREM ConfirmedExact == Spec => []ConfirmedSummaries
<1>1. IInv => ConfirmedSummaries
  BY DEF IInv, TreeWellFormed, WellFormed, Linked, NodeLinked, LeafLinked, SummaryOf,
         ConfirmedSummaries
<1> QED BY <1>1, Invariance, PTL

(* The sparse walk of ecs_tree_rollback reaches every prediction. *)
THEOREM DirtyReached == Spec => []DirtyIsReachable
<1>1. IInv => DirtyIsReachable
  BY DEF IInv, TreeWellFormed, WellFormed, Linked, NodeLinked, LeafLinked, SummaryOf,
         DirtyIsReachable, NoL1, NoSummary
<1> QED BY <1>1, Invariance, PTL

(* The sparse walk of ecs_tree_end_tick reaches every changed bit. *)
THEOREM ChangedReached == Spec => []ChangedIsReachable
<1>1. IInv => ChangedIsReachable
  BY DEF IInv, TreeWellFormed, WellFormed, Linked, NodeLinked, LeafLinked, SummaryOf,
         ChangedIsReachable, NoL1, NoSummary
<1> QED BY <1>1, Invariance, PTL

(* Both sparse walks are complete. *)
THEOREM WalksReach == Spec => []WalksReachAll
BY DirtyReached, ChangedReached, PTL DEF WalksReachAll

(* Off the dirty slots the two presence images are one. *)
THEOREM UntouchedSame == Spec => []UntouchedAgree
<1>1. IInv => UntouchedAgree
  BY DEF IInv, TreeWellFormed, WellFormed, Linked, LeafLinked, UntouchedAgree
<1> QED BY <1>1, Invariance, PTL

(* Whenever the tree may be destroyed, the destructor's walk along the
   confirmed bits reaches every allocated node. *)
THEOREM NothingLost == Spec => []NoNodeLost
<1>1. IInv => NoNodeLost
  <2> SUFFICES ASSUME TypeOK, TreeWellFormed, NoDirty(tree)
               PROVE  DestroyFrees(tree) = [l2 |-> tree.own2, l1 |-> tree.own1]
    BY DEF IInv, NoNodeLost
  <2> USE DEF TypeOK, TreeWellFormed
  <2> DEFINE f == [i \in Fan3 |-> IF i \in tree.root.confAny
                                    THEN tree.l2[i].confAny ELSE {}]
  <2>1. tree.own2 = tree.root.confAny
    BY CleanOwned
  <2>2. tree.own1 = f
    <3>1. ASSUME NEW i \in Fan3
          PROVE  tree.own1[i] = f[i]
      <4>1. tree.own1[i] = LiveL1(tree, i)
        BY CleanOwned
      <4>2. tree.l2[i].confAny = LiveL1(tree, i)
        BY CleanNode DEF WellFormed
      <4>3. i \notin tree.own2 => tree.own1[i] = {}
        BY DEF WellFormed, Linked, NodeLinked
      <4> QED BY <2>1, <4>1, <4>2, <4>3
    <3>2. tree.own1 \in [Fan3 -> SUBSET Fan2]
      BY DEF Tree
    <3> QED BY <3>1, <3>2
  <2> QED BY <2>1, <2>2 DEF DestroyFrees
<1> QED BY <1>1, Invariance, PTL

(* The assertion at the end of ecs_tree_rollback holds in every state in
   which nothing is predicted. *)
THEOREM AssertionHolds == Spec => []MasksValidAtRest
<1>1. IInv => MasksValidAtRest
  BY CleanMasksValid DEF IInv, TypeOK, TreeWellFormed, WellFormed, MasksValidAtRest
<1> QED BY <1>1, Invariance, PTL

(* A rollback leaves no trace of the tick, whatever preceded it. *)
THEOREM RollbackClears == Spec => RollbackClearsTick
<1>1. IInv /\ RollbackTree => Cleared(tree')
  BY RollbackClean DEF IInv, TypeOK, TreeWellFormed, RollbackTree
<1>2. IInv => [RollbackTree => Cleared(tree')]_tree
  BY <1>1
<1> QED BY <1>2, Invariance, PTL DEF RollbackClearsTick, Cleared

-----------------------------------------------------------------------------
(* Refinement *)

(* The empty tree is the empty store. *)
LEMMA InitRefines == Init => Abstract!StoreInit
<1> SUFFICES ASSUME Init PROVE Abstract!StoreInit
  OBVIOUS
<1>1. tree.mode = "CONFIRMED"
  BY DEF Init, NewTree
<1>2. \A i \in Fan3, j \in Fan2 : tree.l1[i][j].conf = {} /\ tree.l1[i][j].pred = {}
  BY DEF Init, NewTree, NoLeaves, NoL1
<1>3. ConfirmedOf(tree) = [s \in Slot |-> Absent]
  BY <1>2 DEF ConfirmedOf, ConfirmedAt, Slot
<1>4. ViewOf(tree) = [s \in Slot |-> Absent]
  BY <1>2 DEF ViewOf, ViewAt, Slot
<1> QED BY <1>1, <1>3, <1>4 DEF Abstract!StoreInit

(* A step of the abstract store, or the loading of a snapshot. *)
StoreStep ==
  \/ Abstract!StoreNext
  \/ \E store \in Store : Deserialize(store) /\ Abstract!Restore(store)

(* Every call is a step of the abstract store, or a stutter. *)
LEMMA NextRefines ==
  IInv /\ [Next]_tree => [StoreStep]_(Abstract!storeVars)
<1> SUFFICES ASSUME IInv, [Next]_tree
             PROVE  [StoreStep]_(Abstract!storeVars)
  OBVIOUS
<1>1. tree \in Tree /\ Linked(tree)
  BY DEF IInv, TypeOK, TreeWellFormed, WellFormed
<1>2. \A i \in Fan3, j \in Fan2, k \in Fan1 : <<i, j, k>> \in Slot
  BY DEF Slot
<1>3. ASSUME NEW i \in Fan3, NEW j \in Fan2, NEW k \in Fan1, Write(i, j, k)
      PROVE  Abstract!StoreNext
  <2>1. PICK v \in Value : tree' = GetMut(tree, i, j, k, v)
    BY <1>3 DEF Write
  <2>2. PutIn(tree', tree, i, j, k, v)
    BY <1>1, <2>1, GetMutPuts
  <2>3. Abstract!Put(<<i, j, k>>, v)
    BY <2>2 DEF PutIn, Abstract!Put
  <2> QED BY <1>2, <2>3 DEF Abstract!StoreNext, Abstract!StoreWrite
<1>4. ASSUME NEW i \in Fan3, NEW j \in Fan2, NEW k \in Fan1, Remove(i, j, k)
      PROVE  Abstract!StoreNext
  <2>1. PutIn(tree', tree, i, j, k, Absent)
    BY <1>1, <1>4, RemovePuts DEF Remove
  <2>2. Abstract!Put(<<i, j, k>>, Absent)
    BY <2>1 DEF PutIn, Abstract!Put
  <2>3. ViewOf(tree)[<<i, j, k>>] # Absent
    BY <1>1, <1>4, PresentInView DEF Remove
  <2> QED BY <1>2, <2>2, <2>3 DEF Abstract!StoreNext, Abstract!StoreRemove
<1>5. CASE EndTick
  BY <1>1, <1>5, EndTickStutters DEF EndTick, Abstract!storeVars
<1>6. ASSUME RollbackTree PROVE Abstract!StoreNext
  BY <1>1, <1>6, RollbackDiscards
     DEF RollbackTree, Abstract!StoreNext, Abstract!Discard
<1>7. ASSUME NEW m \in Mode, SetMode(m)
      PROVE  Abstract!StoreNext
  <2>1. ViewOf(tree) = ConfirmedOf(tree)
    BY <1>1, <1>7, CleanViewConfirmed DEF SetMode
  <2>2. tree'.mode = m /\ tree'.l1 = tree.l1
    BY <1>1, <1>7 DEF SetMode, Tree
  <2>3. ViewOf(tree') = ViewOf(tree) /\ ConfirmedOf(tree') = ConfirmedOf(tree)
    BY <2>2 DEF ViewOf, ConfirmedOf
  <2>4. Abstract!SwitchMode(m)
    BY <2>1, <2>2, <2>3 DEF Abstract!SwitchMode
  <2> QED BY <2>4 DEF Abstract!StoreNext, Mode, Abstract!Mode
<1>8. ASSUME NEW store \in Store, Deserialize(store)
      PROVE  Abstract!Restore(store)
  BY <1>1, <1>8, LoadRestores DEF Deserialize, Abstract!Restore
<1>9. CASE UNCHANGED tree
  BY <1>9 DEF Abstract!storeVars
<1> QED BY <1>3, <1>4, <1>5, <1>6, <1>7, <1>8, <1>9 DEF Next, StoreStep

(* The tree implements the abstract store: reads of the current frame and of
   the confirmed one see exactly the writes, removals and rollbacks made. *)
THEOREM Refinement == Spec => ImplementsStore
BY InitRefines, NextRefines, Invariance, PTL DEF Spec, ImplementsStore, StoreStep

(* ecs_tree_crc64 hashes a function of the view: peers that agree on what the
   current frame shows agree on the checksum, whatever calls led them there. *)
THEOREM ChecksumSound == Spec => []ChecksumIsView
<1>1. IInv => ChecksumIsView
  BY FeedOfView DEF IInv, TypeOK, TreeWellFormed, WellFormed, ChecksumIsView
<1> QED BY <1>1, Invariance, PTL

(* ecs_tree_serialize sends the confirmed store, all of it and nothing that is
   only predicted, and a peer that loads it has that store in both images. *)
THEOREM SnapshotSound == Spec => []SnapshotIsConfirmed
<1>1. IInv => SnapshotIsConfirmed
  BY SnapshotOfConfirmed
     DEF IInv, TypeOK, TreeWellFormed, WellFormed, SnapshotIsConfirmed
<1> QED BY <1>1, Invariance, PTL
=============================================================================
