------------------------- MODULE HibitIteratorProofs -------------------------
(* Proofs about HibitIterator, for every fan-out and every set of trees, tags,
   values and queries. *)
EXTENDS HibitIterator, HibitNodesProofs, WellFoundedInduction

USE FanAssumption, ZeroAssumption

-----------------------------------------------------------------------------
(* What an iteration has put off, for one tree *)

(* A tree whose leaf i, j is flushed, and one whose node i is summed up. *)
FlushedTree(t, i, j) ==
  LET n == FlushedL1(t.l1[i][j], t.mode)
  IN [t EXCEPT !.l1[i][j] = n, !.l2[i] = Propagated(@, j, n, t.mode)]

SummedTree(t, i) == [t EXCEPT !.root = Propagated(@, i, t.l2[i], t.mode)]

(* What a tree will be when the block i, j and its node are done with. *)
BlockDone(t, i, j) == SummedTree(FlushedTree(t, i, j), i)

(* Every changed slot of a leaf is one that a flush may take for written. *)
Safe(n, m) ==
  /\ n.changed \subseteq n.pred
  /\ m = "CONFIRMED" => n.changed \subseteq n.conf

LeafFlushed(w, n, m) ==
  /\ w.pred = n.pred /\ w.conf = n.conf /\ w.changed = n.changed
  /\ w.dirty = n.dirty \cup IfPredict(m, n.changed)
  /\ w.cval = n.cval /\ w.pval = n.pval

(* The flush of such a leaf adds dirty bits and nothing else. *)
LEMMA FlushedFields ==
  ASSUME NEW n \in L1Node, NEW m \in Mode, Safe(n, m)
  PROVE  FlushedL1(n, m) \in L1Node /\ LeafFlushed(FlushedL1(n, m), n, m)
<1>1. n.pred \cup n.changed = n.pred
  BY DEF Safe
<1>2. CASE m = "PREDICT"
  BY <1>1, <1>2 DEF FlushedL1, LeafFlushed, IfPredict, L1Node
<1>3. CASE m = "CONFIRMED"
  <2>1. n.conf \cup n.changed = n.conf
    BY <1>3 DEF Safe
  <2> QED BY <1>1, <1>3, <2>1 DEF FlushedL1, LeafFlushed, IfPredict, L1Node
<1> QED BY <1>2, <1>3 DEF Mode

(* A summary that took the bits of its child c. *)
Gains(m, child, c) == IF m = "PREDICT" /\ child.dirty # {} THEN {c} ELSE {}

SummedUp(u, s, m, child, c) ==
  /\ u.predAny = s.predAny /\ u.predAll = s.predAll
  /\ u.confAny = s.confAny /\ u.confAll = s.confAll
  /\ u.dirty = s.dirty \cup Gains(m, child, c)
  /\ u.changed = s.changed \cup IF child.changed # {} THEN {c} ELSE {}

(* Its bits. *)
LEMMA SummedFields ==
  ASSUME NEW Fan, NEW s \in Summary(Fan), NEW c \in Fan, NEW child, NEW m \in Mode
  PROVE  /\ Propagated(s, c, child, m) \in Summary(Fan)
         /\ SummedUp(Propagated(s, c, child, m), s, m, child, c)
BY DEF Propagated, SummedUp, Gains, Summary

(* A summary that has the bits of its child takes none. *)
LEMMA SummedNothing ==
  ASSUME NEW Fan, NEW s \in Summary(Fan), NEW c \in Fan, NEW child, NEW m \in Mode,
         child.dirty # {} => c \in s.dirty, child.changed # {} => c \in s.changed
  PROVE  Propagated(s, c, child, m) = s
<1> DEFINE d == IF m = "PREDICT" /\ child.dirty # {} THEN s.dirty \cup {c} ELSE s.dirty
           h == IF child.changed # {} THEN s.changed \cup {c} ELSE s.changed
<1>1. Propagated(s, c, child, m) = [s EXCEPT !.dirty = d, !.changed = h]
  BY DEF Propagated
<1>2. d = s.dirty /\ h = s.changed
  OBVIOUS
<1> HIDE DEF d, h
<1> QED BY <1>1, <1>2 DEF Summary

(* A leaf flushed and its node touched, below a root that does not know yet. *)
Flushing(a, t, i, j, w, s) ==
  /\ a \in Tree /\ w \in L1Node /\ s \in Summary(Fan2)
  /\ a.mode = t.mode /\ a.root = t.root /\ a.own2 = t.own2 /\ a.own1 = t.own1
  /\ a.l2 = [t.l2 EXCEPT ![i] = s]
  /\ a.l1 = [t.l1 EXCEPT ![i] = [@ EXCEPT ![j] = w]]
  /\ LeafFlushed(w, t.l1[i][j], t.mode)
  /\ s = Propagated(t.l2[i], j, w, t.mode)

(* That is what a flush does. *)
LEMMA FlushedParts ==
  ASSUME NEW t \in Tree, NEW i \in Fan3, NEW j \in Fan2, Safe(t.l1[i][j], t.mode)
  PROVE  \E w, s : Flushing(FlushedTree(t, i, j), t, i, j, w, s)
<1> DEFINE m == t.mode
           w == FlushedL1(t.l1[i][j], m)
           s == Propagated(t.l2[i], j, w, m)
           a == FlushedTree(t, i, j)
<1>1. /\ m \in Mode /\ t.l1[i][j] \in L1Node
      /\ t.l2[i] \in Summary(Fan2) /\ t.root \in Summary(Fan3)
  BY DEF Tree
<1>2. w \in L1Node /\ LeafFlushed(w, t.l1[i][j], m)
  BY <1>1, FlushedFields
<1>3. s \in Summary(Fan2)
  BY <1>1, SummedFields
<1>4. a = [t EXCEPT !.l1[i][j] = w, !.l2[i] = s]
  BY DEF FlushedTree
<1>5. s = Propagated(t.l2[i], j, w, m)
  OBVIOUS
<1> HIDE DEF w, s, a
<1>6. /\ a.mode = m /\ a.root = t.root /\ a.own2 = t.own2 /\ a.own1 = t.own1
      /\ a.l2 = [t.l2 EXCEPT ![i] = s]
      /\ a.l1 = [t.l1 EXCEPT ![i] = [@ EXCEPT ![j] = w]]
      /\ a = [mode |-> a.mode, root |-> a.root, own2 |-> a.own2,
              l2 |-> a.l2, own1 |-> a.own1, l1 |-> a.l1]
  BY <1>4 DEF Tree
<1>7. a \in Tree
  <2>1. a.l1 \in [Fan3 -> [Fan2 -> L1Node]]
    BY <1>2, <1>6 DEF Tree
  <2>2. a.l2 \in [Fan3 -> Summary(Fan2)]
    BY <1>3, <1>6 DEF Tree
  <2> QED BY <1>6, <2>1, <2>2 DEF Tree
<1>8. Flushing(a, t, i, j, w, s)
  BY <1>2, <1>3, <1>5, <1>6, <1>7 DEF Flushing
<1> QED BY <1>8 DEF a

(* A node summed up: the root changes. *)
LEMMA SummedParts ==
  ASSUME NEW t \in Tree, NEW i \in Fan3
  PROVE  LET r == Propagated(t.root, i, t.l2[i], t.mode)
             u == SummedTree(t, i)
         IN /\ u \in Tree /\ r \in Summary(Fan3)
            /\ u.mode = t.mode /\ u.root = r /\ u.own2 = t.own2
            /\ u.l2 = t.l2 /\ u.own1 = t.own1 /\ u.l1 = t.l1
<1> DEFINE r == Propagated(t.root, i, t.l2[i], t.mode)
           u == SummedTree(t, i)
<1>1. r \in Summary(Fan3)
  BY SummedFields DEF Tree
<1>2. u = [t EXCEPT !.root = r]
  BY DEF SummedTree
<1> HIDE DEF r, u
<1>3. /\ u.mode = t.mode /\ u.root = r /\ u.own2 = t.own2
      /\ u.l2 = t.l2 /\ u.own1 = t.own1 /\ u.l1 = t.l1
      /\ u \in Tree
  BY <1>1, <1>2 DEF Tree
<1> QED BY <1>1, <1>3 DEF r, u

(* A block and its node done with: one path of the tree changes. *)
Settling(u, t, i, j, w, s, r) ==
  /\ u \in Tree /\ w \in L1Node /\ s \in Summary(Fan2) /\ r \in Summary(Fan3)
  /\ OnePath(t, u, i, j, w, t.own1[i], s, t.own2, r)
  /\ u.own1 = t.own1
  /\ LeafFlushed(w, t.l1[i][j], t.mode)
  /\ s = Propagated(t.l2[i], j, w, t.mode)
  /\ r = Propagated(t.root, i, s, t.mode)

(* That path. *)
LEMMA BlockDoneParts ==
  ASSUME NEW t \in Tree, NEW i \in Fan3, NEW j \in Fan2, Safe(t.l1[i][j], t.mode)
  PROVE  \E w, s, r : Settling(BlockDone(t, i, j), t, i, j, w, s, r)
<1> DEFINE a == FlushedTree(t, i, j)
           u == BlockDone(t, i, j)
<1>1. PICK w, s : Flushing(a, t, i, j, w, s)
  BY FlushedParts
<1>2. u = SummedTree(a, i)
  BY DEF BlockDone
<1> HIDE DEF a, u
<1> DEFINE r == Propagated(a.root, i, a.l2[i], a.mode)
<1>3. a \in Tree
  BY <1>1 DEF Flushing
<1>4. /\ u \in Tree /\ r \in Summary(Fan3)
      /\ u.mode = a.mode /\ u.root = r /\ u.own2 = a.own2
      /\ u.l2 = a.l2 /\ u.own1 = a.own1 /\ u.l1 = a.l1
  BY <1>2, <1>3, SummedParts
<1>5. r = Propagated(t.root, i, s, t.mode)
  <2>1. a.l2[i] = s /\ a.root = t.root /\ a.mode = t.mode
    BY <1>1 DEF Flushing, Tree
  <2> QED BY <2>1
<1> HIDE DEF r
<1>6. /\ u.mode = t.mode /\ u.own2 = t.own2 /\ u.own1 = t.own1
      /\ u.l2 = [t.l2 EXCEPT ![i] = s]
      /\ u.l1 = [t.l1 EXCEPT ![i] = [@ EXCEPT ![j] = w]]
  BY <1>1, <1>4 DEF Flushing
<1>7. t.own1 = [t.own1 EXCEPT ![i] = t.own1[i]]
  BY DEF Tree
<1>8. OnePath(t, u, i, j, w, t.own1[i], s, t.own2, r)
  BY <1>4, <1>6, <1>7 DEF OnePath
<1>9. Settling(u, t, i, j, w, s, r)
  BY <1>1, <1>4, <1>5, <1>6, <1>8 DEF Settling, Flushing
<1> QED BY <1>9 DEF u

(* A node in a linked position has nothing to be summed up. *)
LEMMA NodeSettled ==
  ASSUME NEW t \in Tree, NEW i \in Fan3, NEW own, NEW own1,
         NodeLinked(t.root, own, t.l2[i], own1, i)
  PROVE  SummedTree(t, i) = t
<1>1. t.root \in Summary(Fan3) /\ t.mode \in Mode
  BY DEF Tree
<1>2. Propagated(t.root, i, t.l2[i], t.mode) = t.root
  BY <1>1, SummedNothing DEF NodeLinked, SummaryOf
<1> QED BY <1>2 DEF SummedTree, Tree

(* A leaf in a linked position, too: its node takes nothing from it. *)
LEMMA LeafSettled ==
  ASSUME NEW t \in Tree, NEW i \in Fan3, NEW j \in Fan2, NEW own,
         LeafLinked(t.l2[i], own, t.l1[i][j], j)
  PROVE  Propagated(t.l2[i], j, t.l1[i][j], t.mode) = t.l2[i]
<1>1. t.l2[i] \in Summary(Fan2) /\ t.mode \in Mode
  BY DEF Tree
<1> QED BY <1>1, SummedNothing DEF LeafLinked, SummaryOf

(* Nor has its flush anything to do, if its writes are dirty already. *)
LEMMA FlushSettled ==
  ASSUME NEW t \in Tree, NEW i \in Fan3, NEW j \in Fan2, NEW own,
         LeafLinked(t.l2[i], own, t.l1[i][j], j), Safe(t.l1[i][j], t.mode),
         t.mode = "PREDICT" => t.l1[i][j].changed \subseteq t.l1[i][j].dirty
  PROVE  FlushedTree(t, i, j) = t
<1> DEFINE n == t.l1[i][j]
           w == FlushedL1(n, t.mode)
<1>1. n \in L1Node /\ t.mode \in Mode
  BY DEF Tree
<1>2. w \in L1Node /\ LeafFlushed(w, n, t.mode)
  BY <1>1, FlushedFields
<1>3. w = n
  <2> HIDE DEF w, n
  <2>1. w.dirty = n.dirty
    BY <1>2 DEF LeafFlushed, IfPredict, n
  <2> QED BY <1>1, <1>2, <2>1 DEF LeafFlushed, L1Node
<1>4. Propagated(t.l2[i], j, n, t.mode) = t.l2[i]
  BY LeafSettled
<1>5. FlushedTree(t, i, j) = [t EXCEPT !.l1[i][j] = n, !.l2[i] = t.l2[i]]
  <2> HIDE DEF n
  <2> QED BY <1>3, <1>4 DEF FlushedTree, n
<1>6. t.l1 = [t.l1 EXCEPT ![i] = [@ EXCEPT ![j] = t.l1[i][j]]]
  BY DEF Tree
<1>7. t.l2 = [t.l2 EXCEPT ![i] = t.l2[i]]
  BY DEF Tree
<1>8. t = [t EXCEPT !.l1 = t.l1, !.l2 = t.l2]
  BY DEF Tree
<1> QED BY <1>5, <1>6, <1>7, <1>8

-----------------------------------------------------------------------------
(* Writes through an iterator *)

(* The L1 node and the tree after ecs_iterator_get_mut and a store of v. *)
WrittenLeaf(n, m, k, v) ==
  IF m = "PREDICT" THEN [n EXCEPT !.changed = @ \cup {k}, !.pval[k] = v]
                   ELSE [n EXCEPT !.changed = @ \cup {k}, !.cval[k] = v]

WrittenTree(t, i, j, k, v) ==
  [t EXCEPT !.l1[i][j] = WrittenLeaf(@, t.mode, k, v)]

(* The masks of that node stay, but for `changed'. *)
LEMMA WrittenFields ==
  ASSUME NEW n \in L1Node, NEW m \in Mode, NEW k \in Fan1, NEW v \in Value
  PROVE  LET w == WrittenLeaf(n, m, k, v)
         IN /\ w \in L1Node
            /\ w.pred = n.pred /\ w.conf = n.conf /\ w.dirty = n.dirty
            /\ w.changed = n.changed \cup {k}
            /\ BytesStored(w, n, m, k, v)
<1> DEFINE w == WrittenLeaf(n, m, k, v)
<1>1. CASE m = "PREDICT"
  <2>1. w = [n EXCEPT !.changed = @ \cup {k}, !.pval[k] = v]
    BY <1>1 DEF WrittenLeaf
  <2> HIDE DEF w
  <2>2. w \in L1Node
    BY <2>1 DEF L1Node
  <2>3. /\ w.pred = n.pred /\ w.conf = n.conf /\ w.dirty = n.dirty
        /\ w.changed = n.changed \cup {k}
        /\ w.cval = n.cval /\ w.pval = [n.pval EXCEPT ![k] = v]
    BY <2>1 DEF L1Node
  <2> QED BY <1>1, <2>2, <2>3 DEF BytesStored, w
<1>2. CASE m = "CONFIRMED"
  <2>1. w = [n EXCEPT !.changed = @ \cup {k}, !.cval[k] = v]
    BY <1>2 DEF WrittenLeaf
  <2> HIDE DEF w
  <2>2. w \in L1Node
    BY <2>1 DEF L1Node
  <2>3. /\ w.pred = n.pred /\ w.conf = n.conf /\ w.dirty = n.dirty
        /\ w.changed = n.changed \cup {k}
        /\ w.pval = n.pval /\ w.cval = [n.cval EXCEPT ![k] = v]
    BY <2>1 DEF L1Node
  <2> QED BY <1>2, <2>2, <2>3 DEF BytesStored, w
<1> QED BY <1>1, <1>2 DEF Mode

(* A tree one leaf of which was replaced. *)
LeafPut(u, t, i, j, n) ==
  /\ u.mode = t.mode /\ u.root = t.root /\ u.own2 = t.own2
  /\ u.l2 = t.l2 /\ u.own1 = t.own1
  /\ u.l1 = [t.l1 EXCEPT ![i] = [@ EXCEPT ![j] = n]]

(* It is a tree. *)
LEMMA LeafPutType ==
  ASSUME NEW t \in Tree, NEW i \in Fan3, NEW j \in Fan2, NEW n \in L1Node,
         NEW u, u = [t EXCEPT !.l1[i][j] = n]
  PROVE  u \in Tree /\ LeafPut(u, t, i, j, n)
<1>1. /\ u.mode = t.mode /\ u.root = t.root /\ u.own2 = t.own2
      /\ u.l2 = t.l2 /\ u.own1 = t.own1
      /\ u.l1 = [t.l1 EXCEPT ![i] = [@ EXCEPT ![j] = n]]
      /\ u = [mode |-> u.mode, root |-> u.root, own2 |-> u.own2,
              l2 |-> u.l2, own1 |-> u.own1, l1 |-> u.l1]
  BY DEF Tree
<1>2. u.l1 \in [Fan3 -> [Fan2 -> L1Node]]
  BY <1>1 DEF Tree
<1> QED BY <1>1, <1>2 DEF Tree, LeafPut

(* In CONFIRMED mode a slot that is present is confirmed, also while a flush
   is put off. *)
LEMMA PresentConfirmed ==
  ASSUME NEW t \in Tree, t.mode = "CONFIRMED", NEW i \in Fan3, NEW j \in Fan2,
         Safe(t.l1[i][j], t.mode), Linked(BlockDone(t, i, j))
  PROVE  t.l1[i][j].conf = t.l1[i][j].pred /\ t.l1[i][j].dirty = {}
<1> DEFINE u == BlockDone(t, i, j)
<1>1. PICK w, s, r : Settling(u, t, i, j, w, s, r)
  BY BlockDoneParts
<1>2. Linked(u)
  OBVIOUS
<1> HIDE DEF u
<1>3. u \in Tree /\ u.mode = t.mode /\ u.l1[i][j] = w
  BY <1>1 DEF Settling, OnePath, Tree
<1>4. u.root.dirty = {}
  BY <1>2, <1>3 DEF Linked
<1>5. w.dirty = {} /\ w.pred = w.conf
  BY <1>2, <1>3, <1>4, CleanRoot, ConfirmedNode
<1> QED BY <1>1, <1>5 DEF Settling, LeafFlushed, IfPredict

(* Once the block is done with, such a write is one through the tree. *)
LEMMA DeferredWrite ==
  ASSUME NEW t \in Tree, NEW i \in Fan3, NEW j \in Fan2,
         Safe(t.l1[i][j], t.mode), Linked(BlockDone(t, i, j)),
         NEW k \in Fan1, Present(t, i, j, k), NEW v \in Value
  PROVE  LET x == WrittenTree(t, i, j, k, v)
         IN /\ x \in Tree /\ LeafPut(x, t, i, j, WrittenLeaf(t.l1[i][j], t.mode, k, v))
            /\ Safe(x.l1[i][j], x.mode)
            /\ Linked(BlockDone(x, i, j))
            /\ PutIn(BlockDone(x, i, j), BlockDone(t, i, j), i, j, k, v)
<1> DEFINE m == t.mode
           n == t.l1[i][j]
           b == WrittenLeaf(n, m, k, v)
           x == WrittenTree(t, i, j, k, v)
           u == BlockDone(t, i, j)
           z == BlockDone(x, i, j)
<1>1. m \in Mode /\ n \in L1Node /\ k \in n.pred
  BY DEF Tree, Present
<1>2. /\ b \in L1Node
      /\ b.pred = n.pred /\ b.conf = n.conf /\ b.dirty = n.dirty
      /\ b.changed = n.changed \cup {k}
      /\ BytesStored(b, n, m, k, v)
  BY <1>1, WrittenFields
<1>3. x = [t EXCEPT !.l1[i][j] = b]
  BY DEF WrittenTree
<1>4. m = "CONFIRMED" => n.conf = n.pred
  BY PresentConfirmed
<1>5. Safe(n, m)
  OBVIOUS
<1> HIDE DEF b
<1>6. x \in Tree /\ LeafPut(x, t, i, j, b)
  <2> HIDE DEF x
  <2> QED BY <1>2, <1>3, LeafPutType
<1> HIDE DEF x
<1>7. x.l1[i][j] = b /\ x.mode = m
  BY <1>6 DEF LeafPut, Tree
<1>8. Safe(b, m)
  BY <1>1, <1>2, <1>4, <1>5 DEF Safe
<1>9. PICK w, s, r : Settling(u, t, i, j, w, s, r)
  BY BlockDoneParts
<1>10. PICK w1, s1, r1 : Settling(z, x, i, j, w1, s1, r1)
  BY <1>6, <1>7, <1>8, BlockDoneParts
<1>11. Linked(u)
  OBVIOUS
<1> HIDE DEF u, z, n, m
<1>12. /\ u \in Tree /\ u.mode = m /\ u.l1[i][j] = w /\ u.own1 = t.own1
       /\ u.l2[i] = s /\ u.root = r /\ u.own2 = t.own2
  BY <1>9 DEF Settling, OnePath, Tree, m
<1>13. LeafFlushed(w, n, m) /\ LeafFlushed(w1, b, m)
  BY <1>7, <1>9, <1>10 DEF Settling, n, m
<1>14. LeafNoted(w1, w, m, k)
  BY <1>2, <1>13 DEF LeafNoted, LeafFlushed, IfPredict
<1>15. LeafMarked(w1, w, m, k)
  <2>1. w.pred = n.pred /\ w.conf = n.conf
    BY <1>13 DEF LeafFlushed
  <2>2. w.pred \cup {k} = w.pred
    BY <1>1, <2>1
  <2>3. w.conf \cup IfConfirmed(m, {k}) = w.conf
    BY <1>1, <1>4, <2>1 DEF IfConfirmed, m
  <2> QED BY <1>14, <2>2, <2>3 DEF LeafMarked, LeafNoted
<1>16. BytesStored(w1, w, m, k, v)
  BY <1>2, <1>13 DEF BytesStored, LeafFlushed
<1>17. OnlyTouched(s1, s, m, j)
  <2>1. SummedUp(s, t.l2[i], m, w, j) /\ SummedUp(s1, t.l2[i], m, w1, j)
    <3>1. t.l2[i] \in Summary(Fan2) /\ x.l2 = t.l2
      BY <1>6 DEF Tree, LeafPut
    <3> QED BY <1>1, <1>7, <1>9, <1>10, <3>1, SummedFields DEF Settling, m
  <2>2. w1.changed # {} /\ (m = "PREDICT" => w1.dirty # {})
    BY <1>14 DEF LeafNoted, IfPredict
  <2> QED BY <2>1, <2>2 DEF SummedUp, OnlyTouched, Gains, IfPredict
<1>18. OnlyTouched(r1, r, m, i)
  <2>1. SummedUp(r, t.root, m, s, i) /\ SummedUp(r1, t.root, m, s1, i)
    <3>1. t.root \in Summary(Fan3) /\ x.root = t.root
      BY <1>6 DEF Tree, LeafPut
    <3> QED BY <1>1, <1>7, <1>9, <1>10, <3>1, SummedFields DEF Settling, m
  <2>2. s1.changed # {} /\ (m = "PREDICT" => s1.dirty # {})
    BY <1>17 DEF OnlyTouched, IfPredict
  <2> QED BY <2>1, <2>2 DEF SummedUp, OnlyTouched, Gains, IfPredict
<1>19. z.mode = u.mode /\ z.l1 = [u.l1 EXCEPT ![i] = [@ EXCEPT ![j] = w1]]
  <2>1. /\ u.l1 = [t.l1 EXCEPT ![i] = [@ EXCEPT ![j] = w]]
        /\ x.l1 = [t.l1 EXCEPT ![i] = [@ EXCEPT ![j] = b]]
        /\ z.l1 = [x.l1 EXCEPT ![i] = [@ EXCEPT ![j] = w1]]
    BY <1>6, <1>9, <1>10 DEF Settling, OnePath, LeafPut
  <2>2. z.mode = u.mode
    BY <1>7, <1>10, <1>12 DEF Settling, OnePath
  <2>3. i \in DOMAIN t.l1 /\ j \in DOMAIN t.l1[i]
    BY DEF Tree
  <2>4. /\ u.l1[i] = [t.l1[i] EXCEPT ![j] = w]
        /\ x.l1[i] = [t.l1[i] EXCEPT ![j] = b]
    BY <2>1, <2>3
  <2>5. [x.l1[i] EXCEPT ![j] = w1] = [u.l1[i] EXCEPT ![j] = w1]
    BY <2>3, <2>4
  <2>6. z.l1 = [x.l1 EXCEPT ![i] = [u.l1[i] EXCEPT ![j] = w1]]
    BY <2>1, <2>5
  <2>7. z.l1 = [u.l1 EXCEPT ![i] = [u.l1[i] EXCEPT ![j] = w1]]
    <3> HIDE <2>5
    <3> QED BY <2>1, <2>3, <2>6
  <2> QED BY <2>2, <2>7
<1>20. OnePath(u, z, i, j, w1, u.own1[i], s1, u.own2, r1)
  <2>1. /\ z.root = r1 /\ z.own2 = u.own2 /\ z.own1 = u.own1
        /\ z.l2 = [x.l2 EXCEPT ![i] = s1] /\ x.l2 = t.l2
        /\ u.l2 = [t.l2 EXCEPT ![i] = s]
    BY <1>6, <1>9, <1>10, <1>12 DEF Settling, OnePath, LeafPut
  <2>2. z.l2 = [u.l2 EXCEPT ![i] = s1]
    BY <2>1 DEF Tree
  <2>3. z.own1 = [u.own1 EXCEPT ![i] = u.own1[i]]
    BY <1>12, <2>1 DEF Tree
  <2> QED BY <1>19, <2>1, <2>2, <2>3 DEF OnePath
<1>21. Present(u, i, j, k)
  BY <1>1, <1>12, <1>13 DEF Present, LeafFlushed
<1>left. Linked(z)
  <2>1. s1 \in Summary(Fan2) /\ r1 \in Summary(Fan3)
    BY <1>10 DEF Settling
  <2> QED BY <1>11, <1>12, <1>14, <1>17, <1>18, <1>20, <1>21, <2>1, TouchedPathLinks
<1>23. PutIn(z, u, i, j, k, v)
  BY <1>11, <1>12, <1>15, <1>16, <1>19, LeafPuts
<1> QED BY <1>6, <1>7, <1>8, <1>left, <1>23 DEF x, u, z, b, n, m

-----------------------------------------------------------------------------
(* Removals through an iterator *)

(* Two summaries with the same bits are the same. *)
LEMMA SameSummary ==
  ASSUME NEW Fan, NEW s \in Summary(Fan), NEW r \in Summary(Fan),
         s.predAny = r.predAny, s.predAll = r.predAll,
         s.confAny = r.confAny, s.confAll = r.confAll,
         s.dirty = r.dirty, s.changed = r.changed
  PROVE  s = r
BY DEF Summary

(* A summary may take the bits of a child before or after the child loses a
   slot: the loss sets them anyway. *)
LEMMA UnmarkSummed ==
  ASSUME NEW Fan, NEW s \in Summary(Fan), NEW c \in Fan, NEW m \in Mode,
         NEW child, NEW left, NEW e \in BOOLEAN
  PROVE  Propagated(UnmarkUp(s, m, c, e), c, left, m)
           = UnmarkUp(Propagated(s, c, child, m), m, c, e)
<1> DEFINE a == UnmarkUp(s, m, c, e)
           b == Propagated(s, c, child, m)
           x == Propagated(a, c, left, m)
           y == UnmarkUp(b, m, c, e)
<1>1. a \in Summary(Fan) /\ SummaryUnmarked(a, s, m, c, e)
  BY UnmarkUpFields
<1>2. b \in Summary(Fan) /\ SummedUp(b, s, m, child, c)
  BY SummedFields
<1> HIDE DEF a, b
<1>3. x \in Summary(Fan) /\ SummedUp(x, a, m, left, c)
  BY <1>1, SummedFields
<1>4. y \in Summary(Fan) /\ SummaryUnmarked(y, b, m, c, e)
  BY <1>2, UnmarkUpFields
<1> HIDE DEF x, y
<1>5. /\ x.predAny = y.predAny /\ x.predAll = y.predAll
      /\ x.confAny = y.confAny /\ x.confAll = y.confAll
  BY <1>1, <1>2, <1>3, <1>4 DEF SummaryUnmarked, SummedUp
<1>6. x.changed = y.changed
  BY <1>1, <1>2, <1>3, <1>4 DEF SummaryUnmarked, SummedUp
<1>7. x.dirty = y.dirty
  <2>1. /\ x.dirty = (s.dirty \cup IfPredict(m, {c})) \cup Gains(m, left, c)
        /\ y.dirty = (s.dirty \cup Gains(m, child, c)) \cup IfPredict(m, {c})
    BY <1>1, <1>2, <1>3, <1>4 DEF SummaryUnmarked, SummedUp
  <2>2. /\ Gains(m, left, c) \subseteq IfPredict(m, {c})
        /\ Gains(m, child, c) \subseteq IfPredict(m, {c})
    BY DEF Gains, IfPredict
  <2> QED BY <2>1, <2>2
<1>8. x = y
  BY <1>3, <1>4, <1>5, <1>6, <1>7, SameSummary
<1> QED BY <1>8 DEF x, y, a, b

(* A removal that releases nothing keeps a tree linked, and takes one slot from
   its images. *)
LEMMA LostPath ==
  ASSUME NEW t \in Tree, Linked(t), NEW u, NEW i \in Fan3, NEW j \in Fan2,
         NEW k \in Fan1, i \in t.own2, j \in t.own1[i],
         NEW w \in L1Node, LeafLost(w, t.l1[i][j], t.mode, k),
         w.cval = t.l1[i][j].cval, w.pval = t.l1[i][j].pval,
         OnePath(t, u, i, j, w, t.own1[i], Above2(t, i, j, w), t.own2,
                 Above3(t, i, j, w))
  PROVE  Linked(u) /\ PutIn(u, t, i, j, k, Absent)
<1> DEFINE n2 == Above2(t, i, j, w)
           n3 == Above3(t, i, j, w)
<1>1. /\ n2 \in Summary(Fan2) /\ n3 \in Summary(Fan3)
      /\ t.mode = "CONFIRMED" => n3.dirty = {}
      /\ AgreeBut(n3, t.root, i)
      /\ LeafLinked(n2, t.own1[i], w, j)
      /\ \A c \in Fan2 \ {j} : LeafLinked(n2, t.own1[i], t.l1[i][c], c)
      /\ NodeLinked(n3, t.own2, n2, t.own1[i], i)
  BY UnmarkLinks
<1>2. OnePath(t, u, i, j, w, t.own1[i], n2, t.own2, n3)
  OBVIOUS
<1> HIDE DEF n2, n3
<1>3. Linked(u)
  BY <1>1, <1>2, PathKeepsLinked
<1>4. /\ ViewAt(w, k) = Absent
      /\ ConfirmedAt(w, k) = IF t.mode = "CONFIRMED" THEN Absent
                                                     ELSE ConfirmedAt(t.l1[i][j], k)
      /\ \A x \in Fan1 \ {k} : /\ ConfirmedAt(w, x) = ConfirmedAt(t.l1[i][j], x)
                               /\ ViewAt(w, x) = ViewAt(t.l1[i][j], x)
  BY LostSlots
<1>5. /\ u.l1 = [t.l1 EXCEPT ![i] = [@ EXCEPT ![j] = w]]
      /\ u.mode = t.mode
  BY <1>2 DEF OnePath
<1>6. PutIn(u, t, i, j, k, Absent)
  BY <1>4, <1>5, PutFromLeaf
<1> QED BY <1>3, <1>6

(* The L1 node after ecs_iterator_remove. *)
TakenLeaf(n, m, k) == [UnmarkL1(n, m, k) EXCEPT !.changed = @ \ {k}]

LeafTaken(w, n, m, k) ==
  /\ w.pred = n.pred \ {k} /\ w.conf = n.conf \ IfConfirmed(m, {k})
  /\ w.dirty = n.dirty \cup IfPredict(m, {k})
  /\ w.changed = n.changed \ {k}
  /\ w.cval = n.cval /\ w.pval = n.pval

(* Its fields. *)
LEMMA TakenFields ==
  ASSUME NEW n \in L1Node, NEW m \in Mode, NEW k \in Fan1
  PROVE  TakenLeaf(n, m, k) \in L1Node /\ LeafTaken(TakenLeaf(n, m, k), n, m, k)
<1> DEFINE a == UnmarkL1(n, m, k)
<1>1. /\ a \in L1Node /\ LeafUnmarked(a, n, m, k)
      /\ a.cval = n.cval /\ a.pval = n.pval
  BY UnmarkL1Fields
<1>2. TakenLeaf(n, m, k) = [a EXCEPT !.changed = a.changed \ {k}]
  BY DEF TakenLeaf
<1> HIDE DEF a
<1>3. /\ TakenLeaf(n, m, k) \in L1Node
      /\ TakenLeaf(n, m, k).pred = a.pred /\ TakenLeaf(n, m, k).conf = a.conf
      /\ TakenLeaf(n, m, k).dirty = a.dirty
      /\ TakenLeaf(n, m, k).changed = a.changed \ {k}
      /\ TakenLeaf(n, m, k).cval = a.cval /\ TakenLeaf(n, m, k).pval = a.pval
  BY <1>1, <1>2 DEF L1Node
<1> QED BY <1>1, <1>3 DEF LeafUnmarked, LeafTaken

(* The tree after it: one path that lost a slot. *)
LEMMA TakenPath ==
  ASSUME NEW t \in Tree, t.mode = mode, NEW i \in Fan3, NEW j \in Fan2, NEW k \in Fan1
  PROVE  LET w == TakenLeaf(t.l1[i][j], t.mode, k)
             x == IterRemoved(t, i, j, k)
         IN /\ x \in Tree /\ x.own1 = t.own1
            /\ OnePath(t, x, i, j, w, t.own1[i], Above2(t, i, j, w), t.own2,
                       Above3(t, i, j, w))
            /\ Above2(t, i, j, w) \in Summary(Fan2)
            /\ Above3(t, i, j, w) \in Summary(Fan3)
<1> DEFINE w == TakenLeaf(t.l1[i][j], t.mode, k)
           n2 == Above2(t, i, j, w)
           n3 == Above3(t, i, j, w)
           x == IterRemoved(t, i, j, k)
<1>1. /\ t.mode \in Mode /\ t.l1[i][j] \in L1Node
      /\ t.l2[i] \in Summary(Fan2) /\ t.root \in Summary(Fan3)
  BY DEF Tree
<1>2. w \in L1Node
  BY <1>1, TakenFields
<1>3. n2 \in Summary(Fan2)
  BY <1>1, UnmarkUpFields DEF Above2
<1>4. n3 \in Summary(Fan3)
  BY <1>1, UnmarkUpFields DEF Above3
<1>5. x = [t EXCEPT !.l1[i][j] = w, !.l2[i] = n2, !.root = n3]
  BY DEF IterRemoved, TakenLeaf, Above2, Above3
<1> HIDE DEF w, n2, n3, x
<1>6. /\ x.mode = t.mode /\ x.root = n3 /\ x.own2 = t.own2 /\ x.own1 = t.own1
      /\ x.l2 = [t.l2 EXCEPT ![i] = n2]
      /\ x.l1 = [t.l1 EXCEPT ![i] = [@ EXCEPT ![j] = w]]
      /\ x = [mode |-> x.mode, root |-> x.root, own2 |-> x.own2,
              l2 |-> x.l2, own1 |-> x.own1, l1 |-> x.l1]
  BY <1>5 DEF Tree
<1>7. x \in Tree
  <2>1. x.l1 \in [Fan3 -> [Fan2 -> L1Node]]
    BY <1>2, <1>6 DEF Tree
  <2>2. x.l2 \in [Fan3 -> Summary(Fan2)]
    BY <1>3, <1>6 DEF Tree
  <2> QED BY <1>4, <1>6, <2>1, <2>2 DEF Tree
<1>8. OnePath(t, x, i, j, w, t.own1[i], n2, t.own2, n3)
  BY <1>6 DEF OnePath, Tree
<1> QED BY <1>3, <1>4, <1>6, <1>7, <1>8 DEF w, n2, n3, x

(* A removal from a tree with nothing put off. *)
LEMMA TreeRemoval ==
  ASSUME NEW t \in Tree, Linked(t), t.mode = mode, NEW i \in Fan3, NEW j \in Fan2, NEW k \in Fan1,
         i \in t.own2, j \in t.own1[i]
  PROVE  /\ IterRemoved(t, i, j, k) \in Tree
         /\ Linked(IterRemoved(t, i, j, k))
         /\ PutIn(IterRemoved(t, i, j, k), t, i, j, k, Absent)
<1> DEFINE n == t.l1[i][j]
           w == TakenLeaf(n, t.mode, k)
           x == IterRemoved(t, i, j, k)
<1>1. n \in L1Node /\ t.mode \in Mode
  BY DEF Tree
<1>2. w \in L1Node /\ LeafTaken(w, n, t.mode, k)
  BY <1>1, TakenFields
<1>3. /\ x \in Tree
      /\ OnePath(t, x, i, j, w, t.own1[i], Above2(t, i, j, w), t.own2,
                 Above3(t, i, j, w))
  BY TakenPath
<1> HIDE DEF w, x
<1>4. LeafLost(w, n, t.mode, k)
  BY <1>2 DEF LeafLost, LeafTaken
<1>5. Linked(x) /\ PutIn(x, t, i, j, k, Absent)
  BY <1>2, <1>3, <1>4, LostPath DEF LeafTaken
<1> QED BY <1>3, <1>5 DEF x

(* Once the block is done with, a removal from it is one from the tree. *)
LEMMA DeferredRemoval ==
  ASSUME NEW t \in Tree, t.mode = mode, NEW i \in Fan3, NEW j \in Fan2,
         Safe(t.l1[i][j], t.mode), Linked(BlockDone(t, i, j)),
         NEW k \in Fan1, i \in t.own2, j \in t.own1[i]
  PROVE  LET x == IterRemoved(t, i, j, k)
         IN /\ x \in Tree /\ x.mode = t.mode
            /\ x.l1 = [t.l1 EXCEPT ![i] =
                         [@ EXCEPT ![j] = TakenLeaf(t.l1[i][j], t.mode, k)]]
            /\ Safe(x.l1[i][j], x.mode)
            /\ Linked(BlockDone(x, i, j))
            /\ PutIn(BlockDone(x, i, j), BlockDone(t, i, j), i, j, k, Absent)
<1> DEFINE m == t.mode
           n == t.l1[i][j]
           b == TakenLeaf(n, m, k)
           n2 == Above2(t, i, j, b)
           n3 == Above3(t, i, j, b)
           x == IterRemoved(t, i, j, k)
           u == BlockDone(t, i, j)
           z == BlockDone(x, i, j)
<1>1. m \in Mode /\ n \in L1Node
  BY DEF Tree
<1>2. b \in L1Node /\ LeafTaken(b, n, m, k)
  BY <1>1, TakenFields
<1>3. /\ x \in Tree /\ x.own1 = t.own1
      /\ OnePath(t, x, i, j, b, t.own1[i], n2, t.own2, n3)
      /\ n2 \in Summary(Fan2) /\ n3 \in Summary(Fan3)
  BY TakenPath
<1>4. Safe(n, m)
  OBVIOUS
<1>5. /\ n2 = UnmarkUp(t.l2[i], m, j, b.pred = {})
      /\ n3 = UnmarkUp(t.root, m, i, n2.predAny = {})
  BY DEF Above2, Above3
<1> HIDE DEF b, n2, n3, x
<1>6. /\ x.mode = m /\ x.l1[i][j] = b /\ x.l2[i] = n2 /\ x.root = n3
      /\ x.own2 = t.own2
      /\ x.l1 = [t.l1 EXCEPT ![i] = [@ EXCEPT ![j] = b]]
      /\ x.l2 = [t.l2 EXCEPT ![i] = n2]
  BY <1>3 DEF OnePath, Tree
<1>7. Safe(b, m)
  BY <1>2, <1>4 DEF Safe, IfConfirmed, LeafTaken
<1>8. PICK w, s, r : Settling(u, t, i, j, w, s, r)
  BY BlockDoneParts
<1>9. PICK w1, s1, r1 : Settling(z, x, i, j, w1, s1, r1)
  BY <1>3, <1>6, <1>7, BlockDoneParts
<1>10. Linked(u)
  OBVIOUS
<1> HIDE DEF u, z, n, m
<1>11. /\ u \in Tree /\ u.mode = m /\ u.l1[i][j] = w /\ u.own1 = t.own1
       /\ u.l2[i] = s /\ u.root = r /\ u.own2 = t.own2
  BY <1>8 DEF Settling, OnePath, Tree, m
<1>12. LeafFlushed(w, n, m) /\ LeafFlushed(w1, b, m)
  BY <1>6, <1>8, <1>9 DEF Settling, n, m
<1>13. LeafLost(w1, w, m, k) /\ w1.cval = w.cval /\ w1.pval = w.pval
  <2>1. w1.dirty = w.dirty \cup IfPredict(m, {k})
    BY <1>2, <1>12 DEF LeafFlushed, IfPredict, LeafTaken
  <2> QED BY <1>2, <1>12, <2>1 DEF LeafLost, LeafFlushed, LeafTaken
<1>14. w1.pred = b.pred /\ w1 \in L1Node
  BY <1>9, <1>12 DEF LeafFlushed, Settling
<1>15. t.l2[i] \in Summary(Fan2) /\ t.root \in Summary(Fan3)
  BY DEF Tree
<1>16. s1 = Above2(u, i, j, w1)
  <2>1. s = Propagated(t.l2[i], j, w, m) /\ s1 = Propagated(n2, j, w1, m)
    BY <1>6, <1>8, <1>9 DEF Settling, m
  <2> DEFINE e == b.pred = {}
  <2>2. e \in BOOLEAN
    OBVIOUS
  <2>3. n2 = UnmarkUp(t.l2[i], m, j, e)
    BY <1>5
  <2> HIDE DEF e
  <2>4. Propagated(UnmarkUp(t.l2[i], m, j, e), j, w1, m)
          = UnmarkUp(Propagated(t.l2[i], j, w, m), m, j, e)
    BY <1>1, <1>15, <2>2, UnmarkSummed
  <2>5. s1 = UnmarkUp(s, m, j, e)
    BY <2>1, <2>3, <2>4
  <2> QED BY <1>11, <1>14, <2>5 DEF Above2, e
<1>17. s1.predAny = n2.predAny
  BY <1>1, <1>3, <1>6, <1>9, SummedFields DEF Settling, SummedUp
<1>18. r1 = Above3(u, i, j, w1)
  <2>1. r = Propagated(t.root, i, s, m) /\ r1 = Propagated(n3, i, s1, m)
    BY <1>6, <1>8, <1>9 DEF Settling, m
  <2> DEFINE e == n2.predAny = {}
  <2>2. e \in BOOLEAN
    OBVIOUS
  <2>3. n3 = UnmarkUp(t.root, m, i, e)
    BY <1>5
  <2> HIDE DEF e
  <2>4. Propagated(UnmarkUp(t.root, m, i, e), i, s1, m)
          = UnmarkUp(Propagated(t.root, i, s, m), m, i, e)
    BY <1>1, <1>15, <2>2, UnmarkSummed
  <2>5. r1 = UnmarkUp(r, m, i, e)
    BY <2>1, <2>3, <2>4
  <2> QED BY <1>11, <1>16, <1>17, <2>5 DEF Above3, e
<1>19. z.mode = u.mode /\ z.l1 = [u.l1 EXCEPT ![i] = [@ EXCEPT ![j] = w1]]
  <2>1. /\ u.l1 = [t.l1 EXCEPT ![i] = [@ EXCEPT ![j] = w]]
        /\ z.l1 = [x.l1 EXCEPT ![i] = [@ EXCEPT ![j] = w1]]
    BY <1>8, <1>9 DEF Settling, OnePath
  <2>2. z.mode = u.mode
    BY <1>6, <1>9, <1>11 DEF Settling, OnePath
  <2>3. i \in DOMAIN t.l1 /\ j \in DOMAIN t.l1[i]
    BY DEF Tree
  <2>4. /\ u.l1[i] = [t.l1[i] EXCEPT ![j] = w]
        /\ x.l1[i] = [t.l1[i] EXCEPT ![j] = b]
    BY <1>6, <2>1, <2>3
  <2>5. [x.l1[i] EXCEPT ![j] = w1] = [u.l1[i] EXCEPT ![j] = w1]
    BY <2>3, <2>4
  <2>6. z.l1 = [x.l1 EXCEPT ![i] = [u.l1[i] EXCEPT ![j] = w1]]
    BY <2>1, <2>5
  <2>7. z.l1 = [u.l1 EXCEPT ![i] = [u.l1[i] EXCEPT ![j] = w1]]
    <3> HIDE <2>5
    <3> QED BY <1>6, <2>1, <2>3, <2>6
  <2> QED BY <2>2, <2>7
<1>20. OnePath(u, z, i, j, w1, u.own1[i], s1, u.own2, r1)
  <2>1. /\ z.root = r1 /\ z.own2 = u.own2 /\ z.own1 = u.own1
        /\ z.l2 = [x.l2 EXCEPT ![i] = s1]
        /\ u.l2 = [t.l2 EXCEPT ![i] = s]
    BY <1>3, <1>6, <1>8, <1>9, <1>11 DEF Settling, OnePath
  <2>2. z.l2 = [u.l2 EXCEPT ![i] = s1]
    BY <1>6, <2>1 DEF Tree
  <2>3. z.own1 = [u.own1 EXCEPT ![i] = u.own1[i]]
    BY <1>11, <2>1 DEF Tree
  <2> QED BY <1>19, <2>1, <2>2, <2>3 DEF OnePath
<1>21. i \in u.own2 /\ j \in u.own1[i]
  BY <1>11
<1>left. Linked(z) /\ PutIn(z, u, i, j, k, Absent)
  BY <1>10, <1>11, <1>13, <1>14, <1>16, <1>18, <1>20, <1>21, LostPath
<1> QED BY <1>3, <1>6, <1>7, <1>left DEF x, u, z, b, n, m

-----------------------------------------------------------------------------
(* Pruning *)

(* A query, or none. *)
SomeQuery == [clauses : SUBSET Clause, write : SUBSET Component]

(* The masks of a query over the trees f. *)
Hits1(f, q, i, j) ==
  {k \in Fan1 : \E cl \in q.clauses :
     /\ ~ IsEmpty(cl)
     /\ \A c \in cl.include : k \in f[c].l1[i][j].pred
     /\ \A c \in cl.exclude : k \notin f[c].l1[i][j].pred
     /\ cl.changed # {} => \E c \in cl.changed : k \in f[c].l1[i][j].changed}

Hits2(f, q, i) ==
  {j \in Fan2 : \E cl \in q.clauses :
     /\ ~ IsEmpty(cl)
     /\ \A c \in cl.include : j \in f[c].l2[i].predAny
     /\ \A c \in cl.exclude : j \notin f[c].l2[i].predAll
     /\ cl.changed # {} => \E c \in cl.changed : j \in f[c].l2[i].changed}

Hits3(f, q) ==
  {i \in Fan3 : \E cl \in q.clauses :
     /\ ~ IsEmpty(cl)
     /\ \A c \in cl.include : i \in f[c].root.predAny
     /\ \A c \in cl.exclude : i \notin f[c].root.predAll
     /\ cl.changed # {} => \E c \in cl.changed : i \in f[c].root.changed}

(* They are what the iterator computes. *)
LEMMA MasksAre ==
  /\ \A q : L3Mask(q) = Hits3(trees, q)
  /\ \A q, i : L2Mask(q, i) = Hits2(trees, q, i)
  /\ \A q, i, j : L1Mask(q, i, j) = Hits1(trees, q, i, j)
BY DEF L3Mask, L2Mask, L1Mask, Pass, Hits3, Hits2, Hits1

(* A clause names components. *)
LEMMA ClauseParts ==
  ASSUME NEW q \in SomeQuery, NEW cl \in q.clauses
  PROVE  /\ cl.include \subseteq Component /\ cl.exclude \subseteq Component
         /\ cl.changed \subseteq Component
BY DEF SomeQuery, Clause

(* No block that holds a match is pruned. *)
LEMMA LeafPrunes ==
  ASSUME NEW f \in [Component -> Tree], NEW q \in SomeQuery,
         NEW i \in Fan3, NEW j \in Fan2, NEW k \in Hits1(f, q, i, j),
         \A c \in Component :
           LeafLinked(f[c].l2[i], f[c].own1[i], f[c].l1[i][j], j)
  PROVE  j \in Hits2(f, q, i)
<1>1. PICK cl \in q.clauses :
        /\ ~ IsEmpty(cl)
        /\ \A c \in cl.include : k \in f[c].l1[i][j].pred
        /\ \A c \in cl.exclude : k \notin f[c].l1[i][j].pred
        /\ cl.changed # {} => \E c \in cl.changed : k \in f[c].l1[i][j].changed
  BY DEF Hits1
<1>2. /\ cl.include \subseteq Component /\ cl.exclude \subseteq Component
      /\ cl.changed \subseteq Component
  BY ClauseParts
<1>3. k \in Fan1
  BY DEF Hits1
<1>4. \A c \in Component :
        /\ j \in f[c].l2[i].predAny <=> f[c].l1[i][j].pred # {}
        /\ j \in f[c].l2[i].predAll <=> f[c].l1[i][j].pred = Fan1
        /\ f[c].l1[i][j].changed # {} => j \in f[c].l2[i].changed
  BY DEF LeafLinked, SummaryOf
<1>5. \A c \in cl.include : j \in f[c].l2[i].predAny
  BY <1>1, <1>2, <1>4
<1>6. \A c \in cl.exclude : j \notin f[c].l2[i].predAll
  BY <1>1, <1>2, <1>3, <1>4
<1>7. cl.changed # {} => \E c \in cl.changed : j \in f[c].l2[i].changed
  BY <1>1, <1>2, <1>4
<1> QED BY <1>1, <1>5, <1>6, <1>7 DEF Hits2

(* Nor is an L2 node above such a block. *)
LEMMA NodePrunes ==
  ASSUME NEW f \in [Component -> Tree], NEW q \in SomeQuery,
         NEW i \in Fan3, NEW j \in Hits2(f, q, i),
         \A c \in Component :
           NodeLinked(f[c].root, f[c].own2, f[c].l2[i], f[c].own1[i], i)
  PROVE  i \in Hits3(f, q)
<1>1. PICK cl \in q.clauses :
        /\ ~ IsEmpty(cl)
        /\ \A c \in cl.include : j \in f[c].l2[i].predAny
        /\ \A c \in cl.exclude : j \notin f[c].l2[i].predAll
        /\ cl.changed # {} => \E c \in cl.changed : j \in f[c].l2[i].changed
  BY DEF Hits2
<1>2. /\ cl.include \subseteq Component /\ cl.exclude \subseteq Component
      /\ cl.changed \subseteq Component
  BY ClauseParts
<1>3. j \in Fan2
  BY DEF Hits2
<1>4. \A c \in Component :
        /\ i \in f[c].root.predAny <=> f[c].l2[i].predAny # {}
        /\ i \in f[c].root.predAll <=> f[c].l2[i].predAll = Fan2
        /\ f[c].l2[i].changed # {} => i \in f[c].root.changed
  BY DEF NodeLinked, SummaryOf
<1>5. \A c \in cl.include : i \in f[c].root.predAny
  BY <1>1, <1>2, <1>4
<1>6. \A c \in cl.exclude : i \notin f[c].root.predAll
  BY <1>1, <1>2, <1>3, <1>4
<1>7. cl.changed # {} => \E c \in cl.changed : i \in f[c].root.changed
  BY <1>1, <1>2, <1>4
<1> QED BY <1>1, <1>5, <1>6, <1>7 DEF Hits3

(* A block is matched by the presence and change masks of its leaves. *)
LEMMA SameHits ==
  ASSUME NEW f, NEW g, NEW q \in SomeQuery, NEW i, NEW j,
         \A c \in Component : /\ f[c].l1[i][j].pred = g[c].l1[i][j].pred
                              /\ f[c].l1[i][j].changed = g[c].l1[i][j].changed
  PROVE  Hits1(f, q, i, j) = Hits1(g, q, i, j)
<1>1. ASSUME NEW k \in Fan1, NEW cl \in q.clauses
      PROVE  /\ \A c \in cl.include :
                  k \in f[c].l1[i][j].pred <=> k \in g[c].l1[i][j].pred
             /\ \A c \in cl.exclude :
                  k \in f[c].l1[i][j].pred <=> k \in g[c].l1[i][j].pred
             /\ \A c \in cl.changed :
                  k \in f[c].l1[i][j].changed <=> k \in g[c].l1[i][j].changed
  BY ClauseParts
<1>2. ASSUME NEW k \in Fan1
      PROVE  k \in Hits1(f, q, i, j) <=> k \in Hits1(g, q, i, j)
  BY <1>1 DEF Hits1
<1>3. Hits1(f, q, i, j) \subseteq Fan1 /\ Hits1(g, q, i, j) \subseteq Fan1
  BY DEF Hits1
<1> QED BY <1>2, <1>3

-----------------------------------------------------------------------------
(* Positions *)

(* The next position of a mask is one of its positions. *)
LEMMA LeastPosition ==
  ASSUME NEW S \in SUBSET Nat, S # {}
  PROVE  Min(S) \in S
<1>1. \A x, y \in Nat : <<x, y>> \in OpToRel(<, Nat) <=> x < y
  BY DEF OpToRel
<1>2. PICK less : /\ IsWellFoundedOn(less, Nat)
                  /\ \A x, y \in Nat : <<x, y>> \in less <=> x < y
  BY <1>1, NatLessThanWellFounded, Zenon
<1>3. IsWellFoundedOn(less, Nat) /\ S \subseteq Nat /\ S # {}
  BY <1>2
<1>4. PICK x \in S : \A y \in S : ~ (<<y, x>> \in less)
  BY <1>3, WFMin, Zenon
<1>5. ASSUME NEW y \in S PROVE x <= y
  <2>1. x \in Nat /\ y \in Nat
    OBVIOUS
  <2>2. <<y, x>> \in less <=> y < x
    BY <1>2, <2>1
  <2>3. ~ (y < x)
    BY <1>4, <2>2
  <2> QED BY <2>1, <2>3
<1> QED BY <1>5 DEF Min

(* The places an iterator can stand at. *)
Place == {Nowhere} \cup {<<i>> : i \in Fan3} \cup Fan3 \X Fan2

(* At a block. *)
LEMMA BlockPlace ==
  ASSUME NEW p \in Fan3 \X Fan2
  PROVE  p[1] \in Fan3 /\ p[2] \in Fan2 /\ p = <<p[1], p[2]>> /\ p # Nowhere
BY DEF Nowhere

(* At an L2 node, or a block of it. *)
LEMMA NodePlace ==
  ASSUME NEW p \in Place, p # Nowhere
  PROVE  p[1] \in Fan3
BY DEF Place, Nowhere

(* The places the iterator goes to. *)
LEMMA NextPlace ==
  ASSUME NEW i \in Fan3, NEW j \in Fan2
  PROVE  /\ <<i>> \in Place /\ <<i>> # Nowhere /\ <<i>>[1] = i
         /\ <<i>> \notin Fan3 \X Fan2
         /\ <<i, j>> \in Place /\ <<i, j>> \in Fan3 \X Fan2
         /\ <<i, j>> # Nowhere /\ <<i, j>>[1] = i /\ <<i, j>>[2] = j
BY DEF Place, Nowhere

(* An entity is its three positions. *)
LEMMA SlotParts ==
  ASSUME NEW s \in Slot
  PROVE  s[1] \in Fan3 /\ s[2] \in Fan2 /\ s[3] \in Fan1 /\ s = <<s[1], s[2], s[3]>>
BY DEF Slot

-----------------------------------------------------------------------------
(* One tree of an iteration *)

(* The tree t as it will be when what is put off is done, while the iterator
   is at the point p of its loop and at the place a: writing tells whether the
   tree is one of write_mask. *)
SettledTree(t, writing, p, a) ==
  IF ~ writing THEN t
  ELSE IF p \in {"block", "call"} THEN BlockDone(t, a[1], a[2])
  ELSE IF p = "scan" /\ a # Nowhere THEN SummedTree(t, a[1])
  ELSE t

(* Every changed slot of the block that is yielded is one its flush may take for
   written. *)
WriteSafe(t, p, a) ==
  p \in {"block", "call"} => Safe(t.l1[a[1]][a[2]], t.mode)

TreeInv(t, writing, p, a) ==
  /\ t \in Tree
  /\ Linked(SettledTree(t, writing, p, a))
  /\ writing => WriteSafe(t, p, a)

(* Such a tree keeps its mode, and is a tree. *)
LEMMA SettledType ==
  ASSUME NEW t, NEW writing \in BOOLEAN, NEW p, NEW a \in Place,
         TreeInv(t, writing, p, a), p \in {"block", "call"} => a \in Fan3 \X Fan2
  PROVE  /\ SettledTree(t, writing, p, a) \in Tree
         /\ SettledTree(t, writing, p, a).mode = t.mode
<1>1. t \in Tree
  BY DEF TreeInv
<1>2. CASE writing /\ p \in {"block", "call"}
  <2>1. a[1] \in Fan3 /\ a[2] \in Fan2
    BY <1>2, BlockPlace
  <2>2. Safe(t.l1[a[1]][a[2]], t.mode)
    BY <1>2, <2>1 DEF TreeInv, WriteSafe
  <2>3. PICK w, s, r : Settling(BlockDone(t, a[1], a[2]), t, a[1], a[2], w, s, r)
    BY <1>1, <2>1, <2>2, BlockDoneParts
  <2>4. SettledTree(t, writing, p, a) = BlockDone(t, a[1], a[2])
    BY <1>2 DEF SettledTree
  <2> QED BY <2>3, <2>4 DEF Settling, OnePath
<1>3. CASE writing /\ p \notin {"block", "call"} /\ p = "scan" /\ a # Nowhere
  <2>1. a[1] \in Fan3
    BY <1>3, NodePlace
  <2>2. SettledTree(t, writing, p, a) = SummedTree(t, a[1])
    BY <1>3 DEF SettledTree
  <2> QED BY <1>1, <2>1, <2>2, SummedParts
<1>4. CASE ~ writing \/ ~ (p \in {"block", "call"} \/ (p = "scan" /\ a # Nowhere))
  <2>1. SettledTree(t, writing, p, a) = t
    BY <1>4 DEF SettledTree
  <2> QED BY <1>1, <2>1
<1> QED BY <1>2, <1>3, <1>4

(* A node under way: its tree has nothing but its root to be summed up. *)
LEMMA NodeUnderWay ==
  ASSUME NEW t, NEW writing \in BOOLEAN, NEW a \in Place, a # Nowhere,
         TreeInv(t, writing, "scan", a), NEW x \in Fan3, NEW y \in Fan2
  PROVE  LeafLinked(t.l2[x], t.own1[x], t.l1[x][y], y)
<1> DEFINE u == SettledTree(t, writing, "scan", a)
<1>1. t \in Tree /\ a[1] \in Fan3
  BY NodePlace DEF TreeInv
<1>2. u = IF writing THEN SummedTree(t, a[1]) ELSE t
  BY DEF SettledTree
<1>3. Linked(u)
  BY DEF TreeInv
<1> HIDE DEF u
<1>4. u.l1 = t.l1 /\ u.l2 = t.l2 /\ u.own1 = t.own1
  BY <1>1, <1>2, SummedParts
<1> QED BY <1>3, <1>4 DEF Linked

(* The next block of a node is looked at: nothing is to be summed up for it,
   nor would its flush change anything, if no changed slot of it is a leftover. *)
LEMMA BlockLoaded ==
  ASSUME NEW t, NEW writing \in BOOLEAN, NEW a \in Place, a # Nowhere,
         TreeInv(t, writing, "scan", a), t.mode = mode, NEW j \in Fan2
  PROVE  LET i == a[1]
             u == SettledTree(t, writing, "scan", a)
         IN /\ [t EXCEPT !.l2[i] = Propagated(@, j, t.l1[i][j], t.mode)] = t
            /\ TreeInv(t, writing, "scan", <<i, j>>)
            /\ SettledTree(t, writing, "scan", <<i, j>>) = u
            /\ ~ writing \/ Leftover(t.l1[i][j]) = {} =>
                 /\ TreeInv(t, writing, "block", <<i, j>>)
                 /\ SettledTree(t, writing, "block", <<i, j>>) = u
<1> DEFINE i == a[1]
           n == t.l1[i][j]
           u == SettledTree(t, writing, "scan", a)
           b == <<i, j>>
<1>1. t \in Tree /\ i \in Fan3 /\ n \in L1Node /\ mode \in Mode
  BY NodePlace DEF TreeInv, Tree
<1>2. u = IF writing THEN SummedTree(t, i) ELSE t
  BY DEF SettledTree
<1>3. Linked(u)
  BY DEF TreeInv
<1>4. LeafLinked(t.l2[i], t.own1[i], n, j)
  BY <1>1, NodeUnderWay
<1>5. b \in Place /\ b # Nowhere /\ b[1] = i /\ b[2] = j
  BY <1>1, NextPlace
<1>6. Propagated(t.l2[i], j, n, t.mode) = t.l2[i]
  BY <1>1, <1>4, LeafSettled
<1> HIDE DEF u, b, i
<1>7. [t EXCEPT !.l2[i] = Propagated(@, j, t.l1[i][j], t.mode)] = t
  <2>1. [t EXCEPT !.l2[i] = Propagated(@, j, t.l1[i][j], t.mode)]
          = [t EXCEPT !.l2 = [t.l2 EXCEPT ![i] = t.l2[i]]]
    BY <1>1, <1>6 DEF Tree
  <2>2. [t.l2 EXCEPT ![i] = t.l2[i]] = t.l2
    BY <1>1 DEF Tree
  <2>3. [t EXCEPT !.l2 = t.l2] = t
    BY <1>1 DEF Tree
  <2> QED BY <2>1, <2>2, <2>3
<1>8. writing /\ Leftover(n) = {} =>
        Safe(n, t.mode) /\ (t.mode = "PREDICT" => n.changed \subseteq n.dirty)
  <2> SUFFICES ASSUME writing, Leftover(n) = {}
               PROVE  Safe(n, mode) /\ (mode = "PREDICT" => n.changed \subseteq n.dirty)
    OBVIOUS
  <2> HIDE DEF n
  <2>1. CASE mode = "PREDICT"
    BY <1>1, <2>1 DEF Leftover, Safe
  <2>2. CASE mode = "CONFIRMED"
    <3>1. u \in Tree /\ u.mode = mode /\ u.l1 = t.l1
      BY <1>1, <1>2, SummedParts
    <3>2. u.root.dirty = {}
      BY <1>3, <2>2, <3>1 DEF Linked
    <3>3. n.pred = n.conf
      BY <1>1, <1>3, <3>1, <3>2, ConfirmedNode DEF n
    <3>4. n.changed \subseteq n.conf
      BY <1>1, <2>2 DEF Leftover
    <3> QED BY <2>2, <3>3, <3>4 DEF Safe
  <2> QED BY <1>1, <2>1, <2>2 DEF Mode
<1>9. writing /\ Leftover(n) = {} => FlushedTree(t, i, j) = t
  BY <1>1, <1>4, <1>8, FlushSettled
<1>10. SettledTree(t, writing, "scan", b) = u
  BY <1>2, <1>5 DEF SettledTree
<1>11. ~ writing \/ Leftover(n) = {} => SettledTree(t, writing, "block", b) = u
  BY <1>2, <1>5, <1>9 DEF SettledTree, BlockDone
<1>12. WriteSafe(t, "scan", b)
  BY DEF WriteSafe
<1>13. writing /\ Leftover(n) = {} => WriteSafe(t, "block", b)
  BY <1>5, <1>8 DEF WriteSafe
<1> HIDE DEF n
<1>14. TreeInv(t, writing, "scan", b)
  BY <1>1, <1>3, <1>10, <1>12 DEF TreeInv
<1>15. ~ writing \/ Leftover(n) = {} => TreeInv(t, writing, "block", b)
  BY <1>1, <1>3, <1>11, <1>13 DEF TreeInv
<1> QED BY <1>7, <1>10, <1>11, <1>14, <1>15 DEF u, b, i, n

(* A node is left for the next one, or for good: its root is summed up, and
   nothing is put off. *)
LEMMA NodeLeft ==
  ASSUME NEW t, NEW writing \in BOOLEAN, NEW a \in Place,
         TreeInv(t, writing, "scan", a)
  PROVE  LET u == IF a # Nowhere /\ writing THEN SummedTree(t, a[1]) ELSE t
         IN /\ u = SettledTree(t, writing, "scan", a)
            /\ u \in Tree /\ u.mode = t.mode /\ u.l1 = t.l1 /\ u.l2 = t.l2
            /\ Linked(u)
            /\ TreeInv(u, writing, "done", a)
            /\ SettledTree(u, writing, "done", a) = u
            /\ \A i \in Fan3 :
                 /\ TreeInv(u, writing, "scan", <<i>>)
                 /\ SettledTree(u, writing, "scan", <<i>>) = u
<1> DEFINE u == IF a # Nowhere /\ writing THEN SummedTree(t, a[1]) ELSE t
<1>1. t \in Tree
  BY DEF TreeInv
<1>2. u = SettledTree(t, writing, "scan", a)
  BY DEF SettledTree
<1>3. u \in Tree /\ u.mode = t.mode /\ u.l1 = t.l1 /\ u.l2 = t.l2
  BY <1>1, NodePlace, SummedParts
<1> HIDE DEF u
<1>4. Linked(u)
  BY <1>2 DEF TreeInv
<1>5. SettledTree(u, writing, "done", a) = u
  BY DEF SettledTree
<1>6. WriteSafe(u, "done", a) /\ \A i \in Fan3 : WriteSafe(u, "scan", <<i>>)
  BY DEF WriteSafe
<1>7. ASSUME NEW i \in Fan3
      PROVE  SettledTree(u, writing, "scan", <<i>>) = u
  <2>1. NodeLinked(u.root, u.own2, u.l2[i], u.own1[i], i)
    BY <1>4 DEF Linked
  <2>2. SummedTree(u, i) = u
    BY <1>3, <2>1, NodeSettled
  <2>3. <<i>> # Nowhere /\ <<i>>[1] = i
    BY DEF Nowhere
  <2> QED BY <2>2, <2>3 DEF SettledTree
<1>8. TreeInv(u, writing, "done", a)
  BY <1>3, <1>4, <1>5, <1>6 DEF TreeInv
<1>9. \A i \in Fan3 : TreeInv(u, writing, "scan", <<i>>)
  BY <1>3, <1>4, <1>6, <1>7 DEF TreeInv
<1> QED BY <1>2, <1>3, <1>4, <1>5, <1>7, <1>8, <1>9 DEF u

(* A block is left: its flush is no longer put off. *)
LEMMA BlockLeft ==
  ASSUME NEW t, NEW writing \in BOOLEAN, NEW a \in Fan3 \X Fan2,
         TreeInv(t, writing, "call", a)
  PROVE  LET u == IF writing THEN FlushedTree(t, a[1], a[2]) ELSE t
         IN /\ TreeInv(u, writing, "scan", a)
            /\ SettledTree(u, writing, "scan", a) = SettledTree(t, writing, "call", a)
            /\ u.mode = t.mode
            /\ \A x \in Fan3, y \in Fan2 :
                 x # a[1] \/ y # a[2] => u.l1[x][y] = t.l1[x][y]
<1> DEFINE i == a[1]
           j == a[2]
           u == IF writing THEN FlushedTree(t, i, j) ELSE t
<1>1. t \in Tree /\ i \in Fan3 /\ j \in Fan2 /\ a = <<i, j>> /\ a # Nowhere
  BY BlockPlace DEF TreeInv
<1>2. SettledTree(u, writing, "scan", a) = SettledTree(t, writing, "call", a)
  BY <1>1 DEF SettledTree, BlockDone
<1>3. Linked(SettledTree(t, writing, "call", a))
  BY DEF TreeInv
<1>4. CASE ~ writing
  BY <1>1, <1>2, <1>3, <1>4 DEF TreeInv
<1>5. CASE writing
  <2>1. WriteSafe(t, "call", a)
    BY <1>5 DEF TreeInv
  <2>2. Safe(t.l1[i][j], t.mode)
    BY <1>1, <2>1 DEF WriteSafe
  <2>3. u = FlushedTree(t, i, j)
    BY <1>5
  <2>4. PICK w, s : Flushing(u, t, i, j, w, s)
    BY <1>1, <2>2, <2>3, FlushedParts
  <2> HIDE DEF u
  <2>5. /\ u \in Tree /\ u.mode = t.mode /\ LeafFlushed(w, t.l1[i][j], t.mode)
        /\ u.l1 = [t.l1 EXCEPT ![i] = [@ EXCEPT ![j] = w]]
    BY <2>4 DEF Flushing
  <2>6. \A x \in Fan3, y \in Fan2 :
          u.l1[x][y] = IF x = i /\ y = j THEN w ELSE t.l1[x][y]
    BY <1>1, <2>5 DEF Tree
  <2>7. WriteSafe(u, "scan", a)
    BY DEF WriteSafe
  <2>8. TreeInv(u, writing, "scan", a)
    BY <1>2, <1>3, <2>5, <2>7 DEF TreeInv
  <2>9. \A x \in Fan3, y \in Fan2 : x # i \/ y # j => u.l1[x][y] = t.l1[x][y]
    BY <2>6
  <2> QED BY <1>2, <2>5, <2>8, <2>9 DEF u
<1> QED BY <1>4, <1>5

-----------------------------------------------------------------------------
(* The inductive invariant *)

Settled(c) == SettledTree(trees[c], c \in query.write, pc, at)

TreesHold == \A c \in Component : TreeInv(trees[c], c \in query.write, pc, at)

(* The images are those of the trees with nothing put off. *)
StoresHeld ==
  /\ view = [c \in Component |-> ViewOf(Settled(c))]
  /\ confirmed = [c \in Component |-> ConfirmedOf(Settled(c))]

(* Where the iterator stands, and what it has still to visit. *)
Places ==
  /\ pc \in {"block", "call"} => at \in Fan3 \X Fan2
  /\ at = Nowhere => mask2 = {}
  /\ at # Nowhere => at[1] \notin mask3
  /\ at \in Fan3 \X Fan2 => at[2] \notin mask2
  /\ pc = "done" => mask3 = {} /\ mask2 = {}
  /\ pc = "idle" => query = NoQuery /\ at = Nowhere /\ seen = {} /\ expected = {}

Visited(i, j) ==
  /\ i \notin mask3
  /\ at # Nowhere /\ i = at[1] => j \notin mask2

(* What it yielded is what matches in the blocks it is done with, and the other
   blocks still match what they did when it began. *)
Yields ==
  pc # "idle" =>
    /\ \A s \in Slot : s \in seen <=> s \in expected /\ Visited(s[1], s[2])
    /\ \A i \in Fan3, j \in Fan2, k \in Fan1 :
         ~ Visited(i, j) =>
           (<<i, j, k>> \in expected <=> k \in Hits1(trees, query, i, j))

IInv ==
  /\ TypeOK /\ query \in SomeQuery
  /\ Places /\ Yields /\ TreesHold /\ StoresHeld

(* No query has no trees. *)
LEMMA NoQueryType == NoQuery \in SomeQuery
BY DEF NoQuery, SomeQuery

(* Between two iterations nothing is put off. *)
LEMMA SettledIdle ==
  ASSUME NEW t, NEW writing, NEW a
  PROVE  SettledTree(t, writing, "idle", a) = t
BY DEF SettledTree

(* Nor for a tree that the query does not write. *)
LEMMA TreeInvIdle ==
  ASSUME NEW t, NEW a
  PROVE  TreeInv(t, FALSE, "idle", a) <=> t \in Tree /\ Linked(t)
BY SettledIdle DEF TreeInv

(* The beginning: empty trees, no iteration. *)
LEMMA InitHolds == Init => IInv
<1> SUFFICES ASSUME Init PROVE IInv
  OBVIOUS
<1> USE DEF Init
<1>1. NewTree \in Tree /\ Linked(NewTree) /\ NewTree.mode = "CONFIRMED"
  BY NewTreeType, NewTreeLinked DEF NewTree
<1> HIDE DEF Init
<1>2. /\ trees = [c \in Component |-> NewTree] /\ mode = "CONFIRMED" /\ pc = "idle"
      /\ query = NoQuery /\ mask3 = {} /\ mask2 = {} /\ at = Nowhere /\ hits = {}
      /\ seen = {} /\ expected = {}
      /\ confirmed = [c \in Component |-> ConfirmedOf(NewTree)]
      /\ view = confirmed /\ misread = {}
  BY DEF Init
<1>3. TypeOK
  BY <1>1, <1>2 DEF TypeOK
<1>4. query \in SomeQuery
  BY <1>2, NoQueryType
<1>5. Places
  BY <1>2 DEF Places, Nowhere
<1>6. Yields
  BY <1>2 DEF Yields
<1>7. \A c \in Component : c \notin query.write
  BY <1>2 DEF NoQuery
<1>8. TreesHold
  <2> SUFFICES ASSUME NEW c \in Component
               PROVE  TreeInv(trees[c], c \in query.write, pc, at)
    BY DEF TreesHold
  <2>1. (c \in query.write) = FALSE
    BY <1>7
  <2> QED BY <1>1, <1>2, <2>1, TreeInvIdle
<1>9. \A c \in Component : Settled(c) = NewTree
  BY <1>2, SettledIdle DEF Settled
<1>10. ViewOf(NewTree) = ConfirmedOf(NewTree)
  <2>1. \A i \in Fan3, j \in Fan2 : NewTree.l1[i][j] = NoL1
    BY DEF NewTree, NoLeaves
  <2>2. \A k \in Fan1 : ViewAt(NoL1, k) = ConfirmedAt(NoL1, k)
    BY DEF ViewAt, ConfirmedAt, NoL1
  <2> QED BY <2>1, <2>2, SlotParts DEF ViewOf, ConfirmedOf
<1>11. StoresHeld
  BY <1>2, <1>9, <1>10 DEF StoresHeld
<1> QED BY <1>3, <1>4, <1>5, <1>6, <1>8, <1>11 DEF IInv

-----------------------------------------------------------------------------
(* Between two iterations *)

(* A call that leaves the trees linked and the images with them. *)
LEMMA IdleStep ==
  ASSUME IInv, pc = "idle", UNCHANGED <<pc, cursor, seen, expected, misread>>,
         trees' = [c \in Component |-> trees'[c]],
         \A c \in Component : /\ trees'[c] \in Tree /\ Linked(trees'[c])
                              /\ trees'[c].mode = mode',
         view' = [c \in Component |-> ViewOf(trees'[c])],
         confirmed' = [c \in Component |-> ConfirmedOf(trees'[c])]
  PROVE  IInv'
<1>1. /\ pc' = pc /\ query' = query /\ mask3' = mask3 /\ mask2' = mask2
      /\ at' = at /\ hits' = hits /\ seen' = seen /\ expected' = expected
      /\ misread' = misread
  BY DEF cursor
<1>2. TypeOK /\ query \in SomeQuery /\ Places
  BY DEF IInv
<1>3. trees' \in [Component -> Tree]
  OBVIOUS
<1>4. TypeOK'
  BY <1>1, <1>2, <1>3 DEF TypeOK
<1>5. Places'
  BY <1>1, <1>2 DEF Places
<1>6. Yields'
  BY <1>1 DEF Yields
<1>7. \A c \in Component : (c \in query'.write) = FALSE
  BY <1>1, <1>2 DEF Places, NoQuery
<1>8. TreesHold'
  <2> SUFFICES ASSUME NEW c \in Component
               PROVE  TreeInv(trees'[c], c \in query'.write, pc', at')
    BY DEF TreesHold
  <2> QED BY <1>1, <1>7, TreeInvIdle
<1>9. \A c \in Component : Settled(c)' = trees'[c]
  BY <1>1, SettledIdle DEF Settled
<1>10. StoresHeld'
  BY <1>9 DEF StoresHeld
<1> QED BY <1>1, <1>2, <1>4, <1>5, <1>6, <1>8, <1>10 DEF IInv

(* What the invariant says then. *)
LEMMA IdleTrees ==
  ASSUME IInv, pc = "idle"
  PROVE  /\ trees \in [Component -> Tree]
         /\ \A c \in Component : /\ trees[c] \in Tree /\ Linked(trees[c])
                                 /\ trees[c].mode = mode /\ mode \in Mode
                                 /\ Settled(c) = trees[c]
         /\ view = [c \in Component |-> ViewOf(trees[c])]
         /\ confirmed = [c \in Component |-> ConfirmedOf(trees[c])]
<1>1. \A c \in Component : Settled(c) = trees[c]
  BY SettledIdle DEF Settled
<1>2. trees \in [Component -> Tree] /\ \A c \in Component : trees[c].mode = mode
  BY DEF IInv, TypeOK
<1>3. \A c \in Component : Linked(trees[c])
  BY <1>1 DEF IInv, TreesHold, TreeInv, Settled
<1>4. \A c \in Component : mode \in Mode
  BY <1>2 DEF Tree
<1>5. /\ view = [c \in Component |-> ViewOf(trees[c])]
      /\ confirmed = [c \in Component |-> ConfirmedOf(trees[c])]
  BY <1>1 DEF IInv, StoresHeld
<1> QED BY <1>1, <1>2, <1>3, <1>4, <1>5

(* One tree changes, and its images by one slot. *)
LEMMA IdlePut ==
  ASSUME IInv, pc = "idle", UNCHANGED <<mode, pc, cursor, seen, expected, misread>>,
         NEW c \in Component, NEW i, NEW j, NEW k, NEW v, NEW u \in Tree, Linked(u),
         PutIn(u, trees[c], i, j, k, v),
         trees' = [trees EXCEPT ![c] = u],
         view' = [view EXCEPT ![c][<<i, j, k>>] = v],
         confirmed' = IF mode = "PREDICT" THEN confirmed
                      ELSE [confirmed EXCEPT ![c][<<i, j, k>>] = v]
  PROVE  IInv'
<1>1. /\ trees \in [Component -> Tree]
      /\ \A d \in Component : /\ trees[d] \in Tree /\ Linked(trees[d])
                              /\ trees[d].mode = mode /\ mode \in Mode
      /\ view = [d \in Component |-> ViewOf(trees[d])]
      /\ confirmed = [d \in Component |-> ConfirmedOf(trees[d])]
  BY IdleTrees
<1>2. /\ u.mode = mode
      /\ ViewOf(u) = [ViewOf(trees[c]) EXCEPT ![<<i, j, k>>] = v]
      /\ ConfirmedOf(u) = IF mode = "CONFIRMED"
                            THEN [ConfirmedOf(trees[c]) EXCEPT ![<<i, j, k>>] = v]
                            ELSE ConfirmedOf(trees[c])
  BY <1>1 DEF PutIn
<1>3. /\ trees' = [d \in Component |-> IF d = c THEN u ELSE trees[d]]
      /\ mode' = mode
  BY <1>1
<1>4. view' = [d \in Component |-> ViewOf(trees'[d])]
  BY <1>1, <1>2, <1>3
<1>5. confirmed' = [d \in Component |-> ConfirmedOf(trees'[d])]
  <2>1. CASE mode = "PREDICT"
    BY <1>1, <1>2, <1>3, <2>1
  <2>2. CASE mode = "CONFIRMED"
    BY <1>1, <1>2, <1>3, <2>2
  <2> QED BY <1>1, <2>1, <2>2 DEF Mode
<1>6. /\ UNCHANGED <<pc, cursor, seen, expected, misread>>
      /\ trees' = [d \in Component |-> trees'[d]]
      /\ \A d \in Component : /\ trees'[d] \in Tree /\ Linked(trees'[d])
                              /\ trees'[d].mode = mode'
  BY <1>1, <1>2, <1>3
<1> QED BY <1>4, <1>5, <1>6, IdleStep

(* A write of a system. *)
LEMMA WriteKeeps ==
  ASSUME IInv, NEW c \in Component, NEW i \in Fan3, NEW j \in Fan2, NEW k \in Fan1,
         Write(c, i, j, k)
  PROVE  IInv'
<1>1. PICK v \in IF c \in Tag THEN {Zero} ELSE Value :
        /\ trees' = [trees EXCEPT ![c] = GetMut(@, i, j, k, v)]
        /\ view' = [view EXCEPT ![c][<<i, j, k>>] = v]
        /\ confirmed' = IF mode = "PREDICT" THEN confirmed
                        ELSE [confirmed EXCEPT ![c][<<i, j, k>>] = v]
  BY DEF Write
<1>2. v \in Value
  OBVIOUS
<1>3. pc = "idle" /\ UNCHANGED <<mode, pc, cursor, seen, expected, misread>>
  BY DEF Write
<1>4. trees[c] \in Tree /\ Linked(trees[c]) /\ trees \in [Component -> Tree]
  BY <1>3, IdleTrees
<1> DEFINE u == GetMut(trees[c], i, j, k, v)
<1>5. u \in Tree /\ Linked(u) /\ PutIn(u, trees[c], i, j, k, v)
  BY <1>2, <1>4, GetMutLinks, GetMutPuts
<1>6. trees' = [trees EXCEPT ![c] = u]
  BY <1>1
<1> HIDE DEF u
<1> QED BY <1>1, <1>3, <1>5, <1>6, IdlePut

(* A removal by one. *)
LEMMA RemoveKeepsIInv ==
  ASSUME IInv, NEW c \in Component, NEW i \in Fan3, NEW j \in Fan2, NEW k \in Fan1,
         Remove(c, i, j, k)
  PROVE  IInv'
<1>1. /\ pc = "idle" /\ Present(trees[c], i, j, k)
      /\ trees' = [trees EXCEPT ![c] = RemoveSlot(trees[c], i, j, k)]
      /\ view' = [view EXCEPT ![c][<<i, j, k>>] = Absent]
      /\ confirmed' = IF mode = "PREDICT" THEN confirmed
                      ELSE [confirmed EXCEPT ![c][<<i, j, k>>] = Absent]
      /\ UNCHANGED <<mode, pc, cursor, seen, expected, misread>>
  BY DEF Remove
<1>2. trees[c] \in Tree /\ Linked(trees[c])
  BY <1>1, IdleTrees
<1> DEFINE u == RemoveSlot(trees[c], i, j, k)
<1>3. u \in Tree /\ Linked(u) /\ PutIn(u, trees[c], i, j, k, Absent)
  BY <1>1, <1>2, RemoveLinks, RemovePuts
<1>4. trees' = [trees EXCEPT ![c] = u]
  BY <1>1
<1> HIDE DEF u
<1> QED BY <1>1, <1>3, <1>4, IdlePut

(* The end of a tick. *)
LEMMA EndTickKeeps ==
  ASSUME IInv, EndTick
  PROVE  IInv'
<1>1. /\ pc = "idle" /\ trees' = [c \in Component |-> ClearChanged(trees[c])]
      /\ UNCHANGED <<mode, pc, cursor, seen, expected, misread>>
      /\ view' = view /\ confirmed' = confirmed
  BY DEF EndTick, store
<1>2. /\ \A c \in Component : /\ trees[c] \in Tree /\ Linked(trees[c])
                              /\ trees[c].mode = mode
      /\ view = [c \in Component |-> ViewOf(trees[c])]
      /\ confirmed = [c \in Component |-> ConfirmedOf(trees[c])]
  BY <1>1, IdleTrees
<1>3. \A c \in Component :
        /\ trees'[c] \in Tree /\ Linked(trees'[c]) /\ trees'[c].mode = mode'
        /\ ViewOf(trees'[c]) = ViewOf(trees[c])
        /\ ConfirmedOf(trees'[c]) = ConfirmedOf(trees[c])
  BY <1>1, <1>2, ClearChangedLinks, EndTickStutters
<1>4. /\ view' = [c \in Component |-> ViewOf(trees'[c])]
      /\ confirmed' = [c \in Component |-> ConfirmedOf(trees'[c])]
  BY <1>1, <1>2, <1>3
<1>5. trees' = [c \in Component |-> trees'[c]]
  BY <1>1
<1> QED BY <1>1, <1>3, <1>4, <1>5, IdleStep

(* A rollback of every tree. *)
LEMMA RollbackAllKeeps ==
  ASSUME IInv, RollbackAll
  PROVE  IInv'
<1>1. /\ pc = "idle" /\ trees' = [c \in Component |-> Rollback(trees[c])]
      /\ UNCHANGED <<mode, pc, cursor, seen, expected, misread>>
      /\ view' = confirmed /\ confirmed' = confirmed
  BY DEF RollbackAll
<1>2. /\ \A c \in Component : /\ trees[c] \in Tree /\ Linked(trees[c])
                              /\ trees[c].mode = mode
      /\ confirmed = [c \in Component |-> ConfirmedOf(trees[c])]
  BY <1>1, IdleTrees
<1>3. \A c \in Component :
        /\ trees'[c] \in Tree /\ Linked(trees'[c]) /\ trees'[c].mode = mode'
        /\ ViewOf(trees'[c]) = ConfirmedOf(trees[c])
        /\ ConfirmedOf(trees'[c]) = ConfirmedOf(trees[c])
  BY <1>1, <1>2, RollbackLinks, RollbackDiscards
<1>4. /\ view' = [c \in Component |-> ViewOf(trees'[c])]
      /\ confirmed' = [c \in Component |-> ConfirmedOf(trees'[c])]
  BY <1>1, <1>2, <1>3
<1>5. trees' = [c \in Component |-> trees'[c]]
  BY <1>1
<1> QED BY <1>1, <1>3, <1>4, <1>5, IdleStep

(* A change of mode. *)
LEMMA SetModeKeepsIInv ==
  ASSUME IInv, NEW m \in Mode, SetMode(m)
  PROVE  IInv'
<1>1. /\ pc = "idle" /\ \A c \in Component : NoDirty(trees[c])
      /\ trees' = [c \in Component |-> [trees[c] EXCEPT !.mode = m]]
      /\ mode' = m /\ UNCHANGED <<pc, cursor, seen, expected, misread>>
      /\ view' = view /\ confirmed' = confirmed
  BY DEF SetMode, store
<1>2. /\ \A c \in Component : trees[c] \in Tree /\ Linked(trees[c])
      /\ view = [c \in Component |-> ViewOf(trees[c])]
      /\ confirmed = [c \in Component |-> ConfirmedOf(trees[c])]
  BY <1>1, IdleTrees
<1>3. ASSUME NEW c \in Component
      PROVE  /\ trees'[c] \in Tree /\ Linked(trees'[c]) /\ trees'[c].mode = mode'
             /\ ViewOf(trees'[c]) = ViewOf(trees[c])
             /\ ConfirmedOf(trees'[c]) = ConfirmedOf(trees[c])
  <2> DEFINE u == [trees[c] EXCEPT !.mode = m]
  <2>1. u \in Tree /\ Linked(u)
    BY <1>1, <1>2, SetModeLinks
  <2>2. trees'[c] = u
    BY <1>1
  <2>3. u.mode = m /\ u.l1 = trees[c].l1
    BY <1>2 DEF Tree
  <2> HIDE DEF u
  <2>4. ViewOf(u) = ViewOf(trees[c]) /\ ConfirmedOf(u) = ConfirmedOf(trees[c])
    BY <2>3 DEF ViewOf, ConfirmedOf
  <2> QED BY <1>1, <2>1, <2>2, <2>3, <2>4
<1>4. /\ view' = [c \in Component |-> ViewOf(trees'[c])]
      /\ confirmed' = [c \in Component |-> ConfirmedOf(trees'[c])]
  BY <1>1, <1>2, <1>3
<1>5. trees' = [c \in Component |-> trees'[c]]
  BY <1>1
<1> QED BY <1>1, <1>3, <1>4, <1>5, IdleStep

-----------------------------------------------------------------------------
(* An iteration begins *)

(* What matches lies below the positions that are to be visited. *)
LEMMA BeginCovers ==
  ASSUME IInv, pc = "idle", NEW q \in SomeQuery,
         NEW i \in Fan3, NEW j \in Fan2, NEW k \in Hits1(trees, q, i, j)
  PROVE  i \in Hits3(trees, q)
<1>1. /\ trees \in [Component -> Tree]
      /\ \A c \in Component : Linked(trees[c])
  BY IdleTrees
<1>2. \A c \in Component :
        /\ LeafLinked(trees[c].l2[i], trees[c].own1[i], trees[c].l1[i][j], j)
        /\ NodeLinked(trees[c].root, trees[c].own2, trees[c].l2[i],
                      trees[c].own1[i], i)
  BY <1>1 DEF Linked
<1>3. j \in Hits2(trees, q, i)
  BY <1>1, <1>2, LeafPrunes
<1> QED BY <1>1, <1>2, <1>3, NodePrunes

(* The entities that match, block by block. *)
LEMMA MatchesAre ==
  ASSUME NEW q
  PROVE  /\ Matches(q) \subseteq Slot
         /\ \A s \in Slot : s \in Matches(q) <=> s[3] \in Hits1(trees, q, s[1], s[2])
         /\ \A i \in Fan3, j \in Fan2, k \in Fan1 :
              <<i, j, k>> \in Matches(q) <=> k \in Hits1(trees, q, i, j)
<1>1. Matches(q) \subseteq Slot
  BY DEF Matches
<1>2. \A s \in Slot : s \in Matches(q) <=> s[3] \in Hits1(trees, q, s[1], s[2])
  BY MasksAre DEF Matches
<1>3. ASSUME NEW i \in Fan3, NEW j \in Fan2, NEW k \in Fan1
      PROVE  <<i, j, k>> \in Matches(q) <=> k \in Hits1(trees, q, i, j)
  <2>1. <<i, j, k>> \in Slot
    BY DEF Slot
  <2> QED BY <1>2, <2>1
<1> QED BY <1>1, <1>2, <1>3

(* ecs_iterator_init. *)
LEMMA BeginKeeps ==
  ASSUME IInv, NEW q \in Query, Begin(q)
  PROVE  IInv'
<1>1. /\ pc = "idle" /\ pc' = "scan" /\ query' = q
      /\ mask3' = L3Mask(q) /\ mask2' = {} /\ at' = Nowhere /\ hits' = {}
      /\ seen' = {} /\ expected' = Matches(q)
      /\ trees' = trees /\ mode' = mode /\ view' = view /\ confirmed' = confirmed /\ misread' = misread
  BY DEF Begin, store
<1>2. q \in SomeQuery
  BY QueryAssumption DEF SomeQuery
<1>3. mask3' = Hits3(trees, q)
  BY <1>1, MasksAre
<1>4. TypeOK'
  <2>1. expected' \subseteq Slot
    BY <1>1, MatchesAre
  <2>2. mask3' \subseteq Fan3
    BY <1>3 DEF Hits3
  <2> QED BY <1>1, <2>1, <2>2 DEF IInv, TypeOK
<1>5. Places'
  <2>1. Nowhere \notin Fan3 \X Fan2
    BY BlockPlace
  <2> QED BY <1>1, <2>1 DEF Places
<1>6. Yields'
  <2> SUFFICES /\ \A s \in Slot : s \in expected' => s[1] \in mask3'
               /\ \A i \in Fan3, j \in Fan2, k \in Fan1 :
                    <<i, j, k>> \in expected' <=> k \in Hits1(trees, q, i, j)
    BY <1>1 DEF Yields, Visited
  <2>1. ASSUME NEW s \in Slot, s \in expected'
        PROVE  s[1] \in mask3'
    <3>1. s[3] \in Hits1(trees, q, s[1], s[2])
      BY <1>1, <2>1, MatchesAre
    <3>2. s[1] \in Fan3 /\ s[2] \in Fan2
      BY SlotParts
    <3> QED BY <1>1, <1>2, <1>3, <3>1, <3>2, BeginCovers
  <2> QED BY <1>1, <2>1, MatchesAre
<1>7. \A c \in Component :
        /\ trees[c] \in Tree /\ Linked(trees[c]) /\ Settled(c) = trees[c]
  BY <1>1, IdleTrees
<1>8. \A c \in Component :
        SettledTree(trees[c], c \in q.write, "scan", Nowhere) = trees[c]
  BY DEF SettledTree
<1>9. TreesHold'
  <2> SUFFICES ASSUME NEW c \in Component
               PROVE  TreeInv(trees[c], c \in q.write, "scan", Nowhere)
    BY <1>1 DEF TreesHold
  <2>1. WriteSafe(trees[c], "scan", Nowhere)
    BY DEF WriteSafe
  <2>2. Linked(SettledTree(trees[c], c \in q.write, "scan", Nowhere))
    BY <1>7, <1>8
  <2> QED BY <1>7, <2>1, <2>2 DEF TreeInv
<1>10. \A c \in Component : Settled(c)' = Settled(c)
  BY <1>1, <1>7, <1>8 DEF Settled
<1>11. StoresHeld'
  <2>1. StoresHeld
    BY DEF IInv
  <2> QED BY <1>1, <1>10, <2>1 DEF StoresHeld
<1> QED BY <1>1, <1>2, <1>4, <1>5, <1>6, <1>9, <1>11 DEF IInv

-----------------------------------------------------------------------------
(* The iterator goes on *)

(* What a step needs that leaves every tree, with nothing put off, as it is. *)
LEMMA StoresStay ==
  ASSUME IInv, view' = view, confirmed' = confirmed,
         \A c \in Component : Settled(c)' = Settled(c)
  PROVE  StoresHeld'
<1>1. StoresHeld
  BY DEF IInv
<1> QED BY <1>1 DEF StoresHeld

(* The block that was yielded is left. *)
LEMMA NextBlockKeeps ==
  ASSUME IInv, NextBlock
  PROVE  IInv'
<1>1. /\ pc = "block" /\ pc' = "call" /\ trees' = trees /\ mode' = mode
      /\ query' = query /\ mask3' = mask3 /\ mask2' = mask2 /\ at' = at /\ hits' = hits
      /\ seen' = seen /\ expected' = expected
      /\ view' = view /\ confirmed' = confirmed /\ misread' = misread
  BY DEF NextBlock, cursor, store
<1>2. TypeOK' /\ query' \in SomeQuery
  BY <1>1 DEF IInv, TypeOK
<1>3. Places' /\ Yields'
  BY <1>1 DEF IInv, Places, Yields, Visited
<1>4. \A c \in Component : Settled(c)' = Settled(c)
  BY <1>1 DEF Settled, SettledTree
<1>5. TreesHold'
  BY <1>1 DEF IInv, TreesHold, TreeInv, SettledTree, WriteSafe
<1>6. StoresHeld'
  BY <1>1, <1>4, StoresStay
<1> QED BY <1>2, <1>3, <1>5, <1>6 DEF IInv

(* The iterator is dropped. *)
LEMMA EndKeeps ==
  ASSUME IInv, End
  PROVE  IInv'
<1>1. /\ pc = "done" /\ pc' = "idle" /\ trees' = trees /\ mode' = mode
      /\ query' = NoQuery /\ mask3' = {} /\ mask2' = {} /\ at' = Nowhere /\ hits' = {}
      /\ seen' = {} /\ expected' = {}
      /\ view' = view /\ confirmed' = confirmed /\ misread' = misread
  BY DEF End, store
<1>2. TypeOK'
  BY <1>1 DEF IInv, TypeOK
<1>3. Places'
  <2>1. Nowhere \notin Fan3 \X Fan2
    BY BlockPlace
  <2> QED BY <1>1, <2>1 DEF Places
<1>4. Yields'
  BY <1>1 DEF Yields
<1>5. \A c \in Component : Settled(c) = trees[c] /\ Settled(c)' = trees[c]
  BY <1>1, SettledIdle DEF Settled, SettledTree
<1>6. TreesHold'
  <2> SUFFICES ASSUME NEW c \in Component
               PROVE  TreeInv(trees[c], c \in NoQuery.write, "idle", Nowhere)
    BY <1>1 DEF TreesHold
  <2>1. (c \in NoQuery.write) = FALSE
    BY DEF NoQuery
  <2>2. trees[c] \in Tree /\ Linked(trees[c])
    BY <1>5 DEF IInv, TreesHold, TreeInv, Settled
  <2> QED BY <2>1, <2>2, TreeInvIdle
<1>7. StoresHeld'
  BY <1>1, <1>5, StoresStay
<1> QED BY <1>1, <1>2, <1>3, <1>4, <1>6, <1>7, NoQueryType DEF IInv

(* Blocks that are not yet visited match what they did, if their leaves keep
   their presence and change masks. *)
LEMMA UnvisitedStay ==
  ASSUME IInv, query' = query, NEW i, NEW j,
         \A c \in Component : /\ trees'[c].l1[i][j].pred = trees[c].l1[i][j].pred
                              /\ trees'[c].l1[i][j].changed = trees[c].l1[i][j].changed
  PROVE  Hits1(trees', query', i, j) = Hits1(trees, query, i, j)
<1>1. query \in SomeQuery
  BY DEF IInv
<1> QED BY <1>1, SameHits

(* The block just left is flushed. *)
LEMMA FlushKeeps ==
  ASSUME IInv, Flush
  PROVE  IInv'
<1> DEFINE i == at[1]
           j == at[2]
<1>1. /\ pc = "call" /\ pc' = "scan" /\ hits' = {} /\ mode' = mode
      /\ query' = query /\ mask3' = mask3 /\ mask2' = mask2 /\ at' = at
      /\ seen' = seen /\ expected' = expected
      /\ view' = view /\ confirmed' = confirmed /\ misread' = misread
  BY DEF Flush, store
<1>2. /\ TypeOK /\ query \in SomeQuery /\ Places /\ Yields /\ TreesHold
      /\ at \in Fan3 \X Fan2
  BY <1>1 DEF IInv, Places
<1>3. \A c \in Component : trees[c].mode = mode
  BY <1>2 DEF TypeOK
<1>4. trees' = [c \in Component |->
                  IF c \in query.write THEN FlushedTree(trees[c], i, j) ELSE trees[c]]
  <2>1. trees' = [c \in Component |->
                    IF c \in query.write
                      THEN LET n == FlushedL1(trees[c].l1[i][j], mode)
                           IN [trees[c] EXCEPT !.l1[i][j] = n,
                                               !.l2[i] = Propagated(@, j, n, mode)]
                      ELSE trees[c]]
    BY DEF Flush
  <2>2. \A c \in Component :
          FlushedTree(trees[c], i, j)
            = LET n == FlushedL1(trees[c].l1[i][j], mode)
              IN [trees[c] EXCEPT !.l1[i][j] = n, !.l2[i] = Propagated(@, j, n, mode)]
    BY <1>3 DEF FlushedTree
  <2> QED BY <2>1, <2>2
<1>5. ASSUME NEW c \in Component
      PROVE  /\ TreeInv(trees'[c], c \in query.write, "scan", at)
             /\ SettledTree(trees'[c], c \in query.write, "scan", at)
                  = SettledTree(trees[c], c \in query.write, "call", at)
             /\ trees'[c].mode = mode
             /\ \A x \in Fan3, y \in Fan2 :
                  x # i \/ y # j => trees'[c].l1[x][y] = trees[c].l1[x][y]
  <2> DEFINE w == c \in query.write
             u == IF w THEN FlushedTree(trees[c], i, j) ELSE trees[c]
  <2>1. trees'[c] = u
    BY <1>4
  <2>2. TreeInv(trees[c], w, "call", at) /\ w \in BOOLEAN
    BY <1>1, <1>2 DEF TreesHold
  <2> HIDE DEF w
  <2>3. /\ TreeInv(u, w, "scan", at)
        /\ SettledTree(u, w, "scan", at) = SettledTree(trees[c], w, "call", at)
        /\ u.mode = trees[c].mode
        /\ \A x \in Fan3, y \in Fan2 :
             x # i \/ y # j => u.l1[x][y] = trees[c].l1[x][y]
    BY <1>2, <2>2, BlockLeft
  <2> QED BY <1>3, <2>1, <2>3 DEF w
<1>6. TreesHold'
  BY <1>1, <1>5 DEF TreesHold
<1>7. \A c \in Component : Settled(c)' = Settled(c)
  BY <1>1, <1>5 DEF Settled
<1>8. TypeOK'
  <2>1. trees' \in [Component -> Tree]
    BY <1>4, <1>5 DEF TreeInv
  <2> QED BY <1>1, <1>2, <1>5, <2>1 DEF TypeOK
<1>9. Places'
  BY <1>1, <1>2 DEF Places
<1>10. Yields'
  <2>1. /\ i \in Fan3 /\ j \in Fan2 /\ at # Nowhere
        /\ i \notin mask3 /\ j \notin mask2
    BY <1>2, BlockPlace DEF Places
  <2>2. \A x, y : Visited(x, y)' <=> Visited(x, y)
    BY <1>1 DEF Visited
  <2>3. ASSUME NEW x \in Fan3, NEW y \in Fan2, ~ Visited(x, y)
        PROVE  Hits1(trees', query', x, y) = Hits1(trees, query, x, y)
    <3>1. x # i \/ y # j
      BY <2>1, <2>3 DEF Visited
    <3>2. \A c \in Component : trees'[c].l1[x][y] = trees[c].l1[x][y]
      BY <1>5, <3>1
    <3> QED BY <1>1, <3>2, UnvisitedStay
  <2> HIDE DEF i, j
  <2> QED BY <1>1, <1>2, <2>2, <2>3 DEF Yields
<1>11. StoresHeld'
  BY <1>1, <1>7, StoresStay
<1> QED BY <1>1, <1>2, <1>6, <1>8, <1>9, <1>10, <1>11 DEF IInv

(* The next block of a node is looked at. *)
LEMMA LoadL1Keeps ==
  ASSUME IInv, LoadL1, misread' = {}
  PROVE  IInv'
<1> DEFINE i == at[1]
           j == Min(mask2)
           found == L1Mask(query, i, j)
           b == <<i, j>>
<1>1. /\ pc = "scan" /\ mask2 # {} /\ mode' = mode /\ query' = query
      /\ mask3' = mask3 /\ mask2' = mask2 \ {j} /\ at' = b /\ hits' = found
      /\ pc' = IF found # {} THEN "block" ELSE "scan"
      /\ seen' = seen \cup {<<i, j, k>> : k \in found} /\ expected' = expected
      /\ view' = view /\ confirmed' = confirmed
  BY DEF LoadL1, store
<1>2. trees' = [c \in Component |->
                  IF found = {} /\ c \in query.write
                    THEN [trees[c] EXCEPT !.l2[i] =
                            Propagated(@, j, trees[c].l1[i][j], mode)]
                    ELSE trees[c]]
  BY DEF LoadL1
<1>3. /\ TypeOK /\ query \in SomeQuery /\ Places /\ Yields /\ TreesHold
  BY DEF IInv
<1>4. at \in Place /\ at # Nowhere /\ i \in Fan3 /\ i \notin mask3
  <2>1. at \in Place /\ at # Nowhere /\ i \notin mask3
    BY <1>1, <1>3 DEF TypeOK, Place, Places
  <2> QED BY <2>1, NodePlace
<1>5. j \in mask2 /\ j \in Fan2
  <2>1. mask2 \in SUBSET Nat /\ mask2 \subseteq Fan2
    BY <1>3, PositionAssumption DEF TypeOK
  <2> QED BY <1>1, <2>1, LeastPosition
<1>6. found = Hits1(trees, query, i, j) /\ found \subseteq Fan1
  <2>1. found = Hits1(trees, query, i, j)
    BY MasksAre
  <2> QED BY <2>1 DEF Hits1
<1> HIDE DEF i, j, found
<1>left. ASSUME NEW c \in Component, c \in query.write, found # {}
       PROVE  Leftover(trees[c].l1[i][j]) = {}
  <2> DEFINE lost == Leftover(trees[c].l1[i][j])
  <2>1. misread' = IF found # {} THEN misread \cup LeftAt(i, j) ELSE misread
    BY DEF LoadL1, i, j, found
  <2>2. LeftAt(i, j) = {}
    BY <1>left, <2>1
  <2>3. lost \subseteq Fan1
    <3>1. trees[c].l1[i][j] \in L1Node
      BY <1>3, <1>4, <1>5 DEF TypeOK, Tree
    <3> QED BY <3>1 DEF Leftover, L1Node
  <2> HIDE DEF lost
  <2>4. ASSUME NEW k \in lost
        PROVE  FALSE
    <3>1. <<i, j, k>> \in Slot
      BY <1>4, <1>5, <2>3 DEF Slot
    <3>2. <<c, <<i, j, k>>>> \in LeftAt(i, j)
      BY <1>left, <3>1 DEF LeftAt, lost
    <3> QED BY <2>2, <3>2
  <2> QED BY <2>4 DEF lost
<1>7. ASSUME NEW c \in Component
      PROVE  /\ [trees[c] EXCEPT !.l2[i] =
                   Propagated(@, j, trees[c].l1[i][j], mode)] = trees[c]
             /\ TreeInv(trees[c], c \in query.write, "scan", b)
             /\ SettledTree(trees[c], c \in query.write, "scan", b) = Settled(c)
             /\ found # {} =>
                  /\ TreeInv(trees[c], c \in query.write, "block", b)
                  /\ SettledTree(trees[c], c \in query.write, "block", b) = Settled(c)
  <2> DEFINE w == c \in query.write
             t == trees[c]
  <2>1. TreeInv(t, w, "scan", at) /\ w \in BOOLEAN
    BY <1>1, <1>3 DEF TreesHold
  <2>2. Settled(c) = SettledTree(t, w, "scan", at)
    BY <1>1 DEF Settled
  <2>3. t.mode = mode
    BY <1>3 DEF TypeOK
  <2>6. found # {} /\ w => Leftover(t.l1[at[1]][j]) = {}
    BY <1>left DEF i
  <2> HIDE DEF w, t
  <2>4. /\ [t EXCEPT !.l2[at[1]] = Propagated(@, j, t.l1[at[1]][j], t.mode)] = t
        /\ TreeInv(t, w, "scan", <<at[1], j>>)
        /\ SettledTree(t, w, "scan", <<at[1], j>>) = SettledTree(t, w, "scan", at)
        /\ ~ w \/ Leftover(t.l1[at[1]][j]) = {} =>
             /\ TreeInv(t, w, "block", <<at[1], j>>)
             /\ SettledTree(t, w, "block", <<at[1], j>>) = SettledTree(t, w, "scan", at)
    BY <1>4, <1>5, <2>1, <2>3, BlockLoaded
  <2>5. [t EXCEPT !.l2[i] = Propagated(@, j, t.l1[i][j], mode)] = t
    BY <2>3, <2>4 DEF i
  <2> QED BY <2>2, <2>4, <2>5, <2>6 DEF i, w, t
<1>8. trees' = trees
  <2>1. trees \in [Component -> Tree]
    BY <1>3 DEF TypeOK
  <2>2. trees = [c \in Component |-> trees[c]]
    BY <2>1
  <2>3. trees' = [c \in Component |-> trees[c]]
    BY <1>2, <1>7
  <2> QED BY <2>2, <2>3
<1>9. /\ b \in Place /\ b # Nowhere /\ b[1] = i /\ b[2] = j /\ b \in Fan3 \X Fan2
  BY <1>4, <1>5, NextPlace
<1>10. (pc' = "block" /\ found # {}) \/ pc' = "scan"
  BY <1>1
<1> HIDE DEF b
<1>11. TypeOK'
  <2>1. at' \in {Nowhere} \cup {<<x>> : x \in Fan3} \cup Fan3 \X Fan2
    BY <1>1, <1>9
  <2>2. seen' \subseteq Slot
    BY <1>1, <1>3, <1>4, <1>5, <1>6 DEF TypeOK, Slot
  <2> QED BY <1>1, <1>3, <1>6, <1>8, <1>10, <2>1, <2>2 DEF TypeOK
<1>12. Places'
  BY <1>1, <1>4, <1>9, <1>10 DEF Places
<1>13. TreesHold'
  <2> SUFFICES ASSUME NEW c \in Component
               PROVE  TreeInv(trees[c], c \in query.write, pc', b)
    BY <1>1, <1>8 DEF TreesHold
  <2>1. CASE pc' = "block" /\ found # {}
    BY <1>7, <2>1
  <2>2. CASE pc' = "scan"
    BY <1>7, <2>2
  <2> QED BY <1>10, <2>1, <2>2
<1>14. ASSUME NEW c \in Component
       PROVE  Settled(c)' = Settled(c)
  <2>1. Settled(c)' = SettledTree(trees[c], c \in query.write, pc', b)
    BY <1>1, <1>8 DEF Settled
  <2>2. CASE pc' = "block" /\ found # {}
    BY <1>7, <2>1, <2>2
  <2>3. CASE pc' = "scan"
    BY <1>7, <2>1, <2>3
  <2> QED BY <1>10, <2>2, <2>3
<1>15. StoresHeld'
  BY <1>1, <1>14, StoresStay
<1>16. \A x \in Fan3, y \in Fan2 :
         Visited(x, y)' <=> Visited(x, y) \/ (x = i /\ y = j)
  <2>1. \A x, y : Visited(x, y)' <=> x \notin mask3 /\ (x = i => y \notin mask2 \ {j})
    BY <1>1, <1>9 DEF Visited
  <2>2. \A x, y : Visited(x, y) <=> x \notin mask3 /\ (x = i => y \notin mask2)
    BY <1>4 DEF Visited, i
  <2> QED BY <1>4, <2>1, <2>2
<1>17. ~ Visited(i, j)
  BY <1>4, <1>5 DEF Visited, i
<1>18. /\ \A s \in Slot : s \in seen <=> s \in expected /\ Visited(s[1], s[2])
       /\ \A x \in Fan3, y \in Fan2, k \in Fan1 :
            ~ Visited(x, y) =>
              (<<x, y, k>> \in expected <=> k \in Hits1(trees, query, x, y))
  BY <1>1, <1>3 DEF Yields
<1>19. ASSUME NEW s \in Slot
       PROVE  s \in seen' <=> s \in expected' /\ Visited(s[1], s[2])'
  <2>1. s[1] \in Fan3 /\ s[2] \in Fan2 /\ s[3] \in Fan1 /\ s = <<s[1], s[2], s[3]>>
    BY SlotParts
  <2>2. Visited(s[1], s[2])' <=> Visited(s[1], s[2]) \/ (s[1] = i /\ s[2] = j)
    BY <1>16, <2>1
  <2>3. s \in seen' <=> s \in seen \/ (s[1] = i /\ s[2] = j /\ s[3] \in found)
    BY <1>1, <2>1
  <2>4. s[1] = i /\ s[2] = j => (s \in expected <=> s[3] \in found)
    BY <1>6, <1>17, <1>18, <2>1
  <2>5. s \in seen <=> s \in expected /\ Visited(s[1], s[2])
    BY <1>18
  <2>6. expected' = expected
    BY <1>1
  <2> QED BY <2>2, <2>3, <2>4, <2>5, <2>6
<1>20. ASSUME NEW x \in Fan3, NEW y \in Fan2, NEW k \in Fan1, ~ Visited(x, y)'
       PROVE  <<x, y, k>> \in expected' <=> k \in Hits1(trees', query', x, y)
  <2>1. ~ Visited(x, y)
    BY <1>16, <1>20
  <2> QED BY <1>1, <1>8, <1>18, <2>1
<1>21. Yields'
  BY <1>19, <1>20 DEF Yields
<1> QED BY <1>1, <1>3, <1>11, <1>12, <1>13, <1>15, <1>21 DEF IInv

(* The nodes at hand are summed up, and the next ones loaded, if any. *)
LEMMA LoadL2Keeps ==
  ASSUME IInv, LoadL2
  PROVE  IInv'
<1> DEFINE next == Min(mask3)
           Left(c) == IF at # Nowhere /\ c \in query.write
                        THEN SummedTree(trees[c], at[1]) ELSE trees[c]
<1>1. /\ pc = "scan" /\ mask2 = {} /\ mode' = mode /\ query' = query /\ hits' = hits
      /\ seen' = seen /\ expected' = expected
      /\ view' = view /\ confirmed' = confirmed /\ misread' = misread
  BY DEF LoadL2, store
<1>2. /\ TypeOK /\ query \in SomeQuery /\ Places /\ Yields /\ TreesHold
  BY DEF IInv
<1>3. trees' = [c \in Component |-> Left(c)]
  <2>1. trees' = [c \in Component |->
                    IF at # Nowhere /\ c \in query.write
                      THEN [trees[c] EXCEPT !.root =
                              Propagated(@, at[1], trees[c].l2[at[1]], mode)]
                      ELSE trees[c]]
    BY DEF LoadL2
  <2>2. \A c \in Component :
          SummedTree(trees[c], at[1])
            = [trees[c] EXCEPT !.root =
                 Propagated(@, at[1], trees[c].l2[at[1]], mode)]
    BY <1>2 DEF TypeOK, SummedTree
  <2> QED BY <2>1, <2>2
<1>4. at \in Place
  BY <1>2 DEF TypeOK, Place
<1>5. ASSUME NEW c \in Component
      PROVE  LET u == trees'[c]
                 w == c \in query.write
             IN /\ u = Settled(c)
                /\ u \in Tree /\ u.mode = mode
                /\ u.l1 = trees[c].l1 /\ u.l2 = trees[c].l2 /\ Linked(u)
                /\ TreeInv(u, w, "done", at)
                /\ SettledTree(u, w, "done", at) = u
                /\ \A i \in Fan3 :
                     /\ TreeInv(u, w, "scan", <<i>>)
                     /\ SettledTree(u, w, "scan", <<i>>) = u
  <2> DEFINE w == c \in query.write
             u == IF at # Nowhere /\ w THEN SummedTree(trees[c], at[1]) ELSE trees[c]
  <2>1. TreeInv(trees[c], w, "scan", at) /\ w \in BOOLEAN
    BY <1>1, <1>2 DEF TreesHold
  <2>2. Settled(c) = SettledTree(trees[c], w, "scan", at)
    BY <1>1 DEF Settled
  <2>3. trees'[c] = u
    BY <1>3
  <2>4. trees[c].mode = mode
    BY <1>2 DEF TypeOK
  <2> HIDE DEF w
  <2>5. /\ u = SettledTree(trees[c], w, "scan", at)
        /\ u \in Tree /\ u.mode = trees[c].mode
        /\ u.l1 = trees[c].l1 /\ u.l2 = trees[c].l2 /\ Linked(u)
        /\ TreeInv(u, w, "done", at)
        /\ SettledTree(u, w, "done", at) = u
        /\ \A i \in Fan3 :
             /\ TreeInv(u, w, "scan", <<i>>)
             /\ SettledTree(u, w, "scan", <<i>>) = u
    BY <1>4, <2>1, NodeLeft
  <2> HIDE DEF u
  <2> QED BY <2>2, <2>3, <2>4, <2>5 DEF w
<1> HIDE DEF Left
<1>6. trees' \in [Component -> Tree] /\ \A c \in Component : trees'[c].mode = mode'
  BY <1>1, <1>3, <1>5
<1>7. \A i, j : Hits1(trees', query', i, j) = Hits1(trees, query, i, j)
  <2> SUFFICES ASSUME NEW i, NEW j
               PROVE  Hits1(trees', query', i, j) = Hits1(trees, query, i, j)
    OBVIOUS
  <2>1. \A c \in Component : trees'[c].l1[i][j] = trees[c].l1[i][j]
    BY <1>5
  <2> QED BY <1>1, <2>1, UnvisitedStay
<1>8. /\ \A s \in Slot : s \in seen <=> s \in expected /\ Visited(s[1], s[2])
      /\ \A x \in Fan3, y \in Fan2, k \in Fan1 :
           ~ Visited(x, y) =>
             (<<x, y, k>> \in expected <=> k \in Hits1(trees, query, x, y))
  BY <1>1, <1>2 DEF Yields
<1>9. \A x, y : Visited(x, y) <=> x \notin mask3
  BY <1>1 DEF Visited
<1>10. CASE mask3 = {}
  <2>1. pc' = "done" /\ mask3' = mask3 /\ mask2' = mask2 /\ at' = at
    BY <1>10 DEF LoadL2
  <2>2. TypeOK'
    BY <1>1, <1>2, <1>6, <2>1 DEF TypeOK
  <2>3. Places'
    BY <1>1, <1>2, <1>10, <2>1 DEF Places
  <2>4. TreesHold'
    BY <1>1, <1>5, <2>1 DEF TreesHold
  <2>5. \A c \in Component : Settled(c)' = Settled(c)
    BY <1>1, <1>5, <2>1 DEF Settled
  <2>6. StoresHeld'
    BY <1>1, <2>5, StoresStay
  <2>7. \A x, y : Visited(x, y)' <=> Visited(x, y)
    BY <2>1 DEF Visited
  <2>8. Yields'
    BY <1>1, <1>7, <1>8, <2>7 DEF Yields
  <2> QED BY <1>1, <1>2, <2>2, <2>3, <2>4, <2>6, <2>8 DEF IInv
<1>11. CASE mask3 # {}
  <2>1. /\ pc' = "scan" /\ mask3' = mask3 \ {next} /\ at' = <<next>>
        /\ mask2' = L2Mask(query, next)
    BY <1>1, <1>11 DEF LoadL2
  <2>2. next \in mask3 /\ next \in Fan3
    <3>1. mask3 \in SUBSET Nat /\ mask3 \subseteq Fan3
      BY <1>2, PositionAssumption DEF TypeOK
    <3> QED BY <1>11, <3>1, LeastPosition
  <2>3. mask2' = Hits2(trees, query, next) /\ mask2' \subseteq Fan2
    <3>1. mask2' = Hits2(trees, query, next)
      BY <2>1, MasksAre
    <3> QED BY <3>1 DEF Hits2
  <2> HIDE DEF next
  <2> DEFINE p == <<next>>
  <2>4. /\ p \in Place /\ p # Nowhere /\ p[1] = next /\ p \notin Fan3 \X Fan2
    <3>1. PICK y : y \in Fan2
      BY FanAssumption
    <3> QED BY <2>2, <3>1, NextPlace
  <2>5. at' = p
    BY <2>1
  <2>6. \A c \in Component :
          /\ TreeInv(trees'[c], c \in query.write, "scan", p)
          /\ SettledTree(trees'[c], c \in query.write, "scan", p) = trees'[c]
    BY <1>5, <2>2
  <2> HIDE DEF p
  <2>7. TypeOK'
    BY <1>1, <1>2, <1>6, <2>1, <2>3, <2>4, <2>5 DEF TypeOK, Place
  <2>8. Places'
    BY <2>1, <2>4, <2>5 DEF Places
  <2>9. TreesHold'
    BY <1>1, <2>1, <2>5, <2>6 DEF TreesHold
  <2>10. \A c \in Component : Settled(c)' = Settled(c)
    BY <1>1, <1>5, <2>1, <2>5, <2>6 DEF Settled
  <2>11. StoresHeld'
    BY <1>1, <2>10, StoresStay
  <2>12. \A x, y : Visited(x, y)' <=>
                     x \notin mask3 \ {next} /\ (x = next => y \notin mask2')
    BY <2>1, <2>4, <2>5 DEF Visited
  <2>13. ASSUME NEW x \in Fan3, NEW y \in Fan2, NEW k \in Fan1,
                <<x, y, k>> \in expected, ~ Visited(x, y)
         PROVE  ~ Visited(x, y)'
    <3>1. CASE x # next
      BY <1>9, <2>12, <2>13, <3>1
    <3>2. CASE x = next
      <4>1. k \in Hits1(trees, query, x, y)
        BY <1>8, <2>13
      <4>2. \A c \in Component :
              LeafLinked(trees[c].l2[x], trees[c].own1[x], trees[c].l1[x][y], y)
        <5> SUFFICES ASSUME NEW c \in Component
              PROVE LeafLinked(trees[c].l2[x], trees[c].own1[x], trees[c].l1[x][y], y)
          OBVIOUS
        <5> DEFINE w == c \in query.write
        <5>1. TreeInv(trees[c], w, "scan", at) /\ w \in BOOLEAN
          BY <1>1, <1>2 DEF TreesHold
        <5> HIDE DEF w
        <5>2. CASE at # Nowhere
          BY <1>4, <5>1, <5>2, NodeUnderWay
        <5>3. CASE at = Nowhere
          <6>1. Linked(trees[c])
            BY <5>1, <5>3 DEF TreeInv, SettledTree
          <6> QED BY <6>1 DEF Linked
        <5> QED BY <5>2, <5>3
      <4>3. trees \in [Component -> Tree]
        BY <1>2 DEF TypeOK
      <4>4. y \in Hits2(trees, query, x)
        BY <1>2, <4>1, <4>2, <4>3, LeafPrunes
      <4> QED BY <2>3, <2>12, <3>2, <4>4
    <3> QED BY <3>1, <3>2
  <2>14. \A x, y : Visited(x, y) => Visited(x, y)'
    BY <1>9, <2>2, <2>12
  <2>15. ASSUME NEW s \in Slot
         PROVE  s \in seen' <=> s \in expected' /\ Visited(s[1], s[2])'
    <3>1. s[1] \in Fan3 /\ s[2] \in Fan2 /\ s[3] \in Fan1 /\ s = <<s[1], s[2], s[3]>>
      BY SlotParts
    <3>2. s \in expected /\ ~ Visited(s[1], s[2]) => ~ Visited(s[1], s[2])'
      BY <2>13, <3>1
    <3> QED BY <1>1, <1>8, <2>14, <3>2
  <2>16. Yields'
    BY <1>1, <1>7, <1>8, <2>14, <2>15 DEF Yields
  <2> QED BY <1>1, <1>2, <2>7, <2>8, <2>9, <2>11, <2>16 DEF IInv
<1> QED BY <1>10, <1>11

-----------------------------------------------------------------------------
(* The caller works on a block *)

(* One leaf of one tree changes, and with nothing put off one slot of it. *)
LEMMA BlockPut ==
  ASSUME IInv, pc = "block", UNCHANGED <<mode, pc, cursor, seen, expected, misread>>,
         NEW c \in Component, NEW k, NEW v, NEW x, NEW n,
         TreeInv(x, c \in query.write, "block", at), x.mode = trees[c].mode,
         x.l1 = [trees[c].l1 EXCEPT ![at[1]] = [@ EXCEPT ![at[2]] = n]],
         PutIn(SettledTree(x, c \in query.write, "block", at), Settled(c),
               at[1], at[2], k, v),
         trees' = [trees EXCEPT ![c] = x],
         view' = [view EXCEPT ![c][<<at[1], at[2], k>>] = v],
         confirmed' = IF mode = "PREDICT" THEN confirmed
                      ELSE [confirmed EXCEPT ![c][<<at[1], at[2], k>>] = v]
  PROVE  IInv'
<1> DEFINE i == at[1]
           j == at[2]
           u == SettledTree(x, c \in query.write, "block", at)
<1>1. /\ pc' = pc /\ query' = query /\ mask3' = mask3 /\ mask2' = mask2
      /\ at' = at /\ hits' = hits /\ seen' = seen /\ expected' = expected /\ mode' = mode
      /\ misread' = misread
  BY DEF cursor
<1>2. /\ TypeOK /\ query \in SomeQuery /\ Places /\ Yields /\ TreesHold /\ StoresHeld
  BY DEF IInv
<1>3. at \in Fan3 \X Fan2 /\ at # Nowhere /\ i \in Fan3 /\ j \in Fan2
      /\ i \notin mask3 /\ j \notin mask2
  BY <1>2, BlockPlace DEF Places
<1>4. trees \in [Component -> Tree] /\ \A d \in Component : trees[d].mode = mode
  BY <1>2 DEF TypeOK
<1>5. trees' = [d \in Component |-> IF d = c THEN x ELSE trees[d]]
  BY <1>4
<1>6. TypeOK'
  <2>1. trees' \in [Component -> Tree]
    BY <1>4, <1>5 DEF TreeInv
  <2>2. \A d \in Component : trees'[d].mode = mode'
    BY <1>1, <1>4, <1>5
  <2> QED BY <1>1, <1>2, <2>1, <2>2 DEF TypeOK
<1>7. Places'
  BY <1>1, <1>2 DEF Places
<1>8. TreesHold'
  BY <1>1, <1>2, <1>5 DEF TreesHold
<1>9. Settled(c)' = u
  BY <1>1, <1>5 DEF Settled
<1>10. \A d \in Component : d # c => Settled(d)' = Settled(d)
  BY <1>1, <1>5 DEF Settled
<1>11. Settled(c).mode = mode /\ mode \in Mode
  <2> DEFINE w == c \in query.write
  <2>1. TreeInv(trees[c], w, "block", at) /\ w \in BOOLEAN
    BY <1>2 DEF TreesHold
  <2>2. at \in Place
    BY <1>3 DEF Place
  <2>3. Settled(c) = SettledTree(trees[c], w, "block", at)
    BY DEF Settled
  <2> HIDE DEF w
  <2>4. SettledTree(trees[c], w, "block", at).mode = trees[c].mode
    BY <1>3, <2>1, <2>2, SettledType
  <2>5. trees[c].mode \in Mode
    BY <1>4 DEF Tree
  <2> QED BY <1>4, <2>3, <2>4, <2>5
<1> HIDE DEF u
<1>12. /\ ViewOf(u) = [ViewOf(Settled(c)) EXCEPT ![<<i, j, k>>] = v]
       /\ ConfirmedOf(u) = IF mode = "CONFIRMED"
            THEN [ConfirmedOf(Settled(c)) EXCEPT ![<<i, j, k>>] = v]
            ELSE ConfirmedOf(Settled(c))
  BY <1>11 DEF PutIn, u
<1>13. /\ view = [d \in Component |-> ViewOf(Settled(d))]
       /\ confirmed = [d \in Component |-> ConfirmedOf(Settled(d))]
  BY <1>2 DEF StoresHeld
<1>14. view' = [d \in Component |-> ViewOf(Settled(d)')]
  <2>1. view' = [d \in Component |-> IF d = c
                   THEN [ViewOf(Settled(c)) EXCEPT ![<<i, j, k>>] = v]
                   ELSE ViewOf(Settled(d))]
    BY <1>13
  <2> QED BY <1>9, <1>10, <1>12, <2>1
<1>15. confirmed' = [d \in Component |-> ConfirmedOf(Settled(d)')]
  <2>1. CASE mode = "PREDICT"
    BY <1>9, <1>10, <1>12, <1>13, <2>1
  <2>2. CASE mode = "CONFIRMED"
    <3>1. confirmed' = [d \in Component |-> IF d = c
                          THEN [ConfirmedOf(Settled(c)) EXCEPT ![<<i, j, k>>] = v]
                          ELSE ConfirmedOf(Settled(d))]
      BY <1>13, <2>2
    <3> QED BY <1>9, <1>10, <1>12, <2>2, <3>1
  <2> QED BY <1>11, <2>1, <2>2 DEF Mode
<1>16. StoresHeld'
  BY <1>14, <1>15 DEF StoresHeld
<1>17. \A y, z : Visited(y, z)' <=> Visited(y, z)
  BY <1>1 DEF Visited
<1>18. ASSUME NEW y \in Fan3, NEW z \in Fan2, ~ Visited(y, z)
       PROVE  Hits1(trees', query', y, z) = Hits1(trees, query, y, z)
  <2>1. y # i \/ z # j
    BY <1>3, <1>18 DEF Visited
  <2>2. x.l1[y][z] = trees[c].l1[y][z]
    <3>1. trees[c].l1 \in [Fan3 -> [Fan2 -> L1Node]]
      BY <1>4 DEF Tree
    <3>2. x.l1 = [trees[c].l1 EXCEPT ![i] = [@ EXCEPT ![j] = n]]
      OBVIOUS
    <3> HIDE DEF i, j
    <3> QED BY <2>1, <3>1, <3>2
  <2>3. \A d \in Component : trees'[d].l1[y][z] = trees[d].l1[y][z]
    BY <1>5, <2>2
  <2> QED BY <1>1, <2>3, UnvisitedStay
<1>19. Yields'
  <2> HIDE DEF i, j
  <2> QED BY <1>1, <1>2, <1>17, <1>18 DEF Yields
<1> QED BY <1>1, <1>2, <1>6, <1>7, <1>8, <1>16, <1>19 DEF IInv

(* ecs_iterator_get_mut and the store through its pointer. *)
LEMMA IterWriteKeeps ==
  ASSUME IInv, NEW c \in Component, NEW k \in Fan1, IterWrite(c, k)
  PROVE  IInv'
<1> DEFINE t == trees[c]
           i == at[1]
           j == at[2]
<1>1. /\ pc = "block" /\ c \in query.write /\ Present(t, i, j, k)
      /\ UNCHANGED <<mode, pc, cursor, seen, expected, misread>>
  BY DEF IterWrite
<1>2. /\ at \in Fan3 \X Fan2 /\ trees \in [Component -> Tree]
      /\ t.mode = mode /\ TreeInv(t, TRUE, "block", at)
  <2>1. (c \in query.write) = TRUE
    BY <1>1
  <2> QED BY <1>1, <2>1 DEF IInv, Places, TypeOK, TreesHold
<1>3. i \in Fan3 /\ j \in Fan2 /\ at = <<i, j>>
  BY <1>2, BlockPlace
<1>4. t \in Tree /\ WriteSafe(t, "block", at) /\ Linked(BlockDone(t, i, j))
  BY <1>2 DEF TreeInv, SettledTree
<1>5. Safe(t.l1[i][j], t.mode)
  BY <1>3, <1>4 DEF WriteSafe
<1>6. PICK v \in Value :
        /\ trees' = [trees EXCEPT ![c].l1[i][j] = WrittenLeaf(@, mode, k, v)]
        /\ view' = [view EXCEPT ![c][<<i, j, k>>] = v]
        /\ confirmed' = IF mode = "PREDICT" THEN confirmed
                        ELSE [confirmed EXCEPT ![c][<<i, j, k>>] = v]
  BY DEF IterWrite, WrittenLeaf
<1> DEFINE x == WrittenTree(t, i, j, k, v)
           n == WrittenLeaf(t.l1[i][j], t.mode, k, v)
<1>7. trees' = [trees EXCEPT ![c] = x]
  BY <1>2, <1>6 DEF WrittenTree
<1>8. /\ x \in Tree /\ LeafPut(x, t, i, j, n)
      /\ Safe(x.l1[i][j], x.mode)
      /\ Linked(BlockDone(x, i, j))
      /\ PutIn(BlockDone(x, i, j), BlockDone(t, i, j), i, j, k, v)
  BY <1>1, <1>3, <1>4, <1>5, DeferredWrite
<1> HIDE DEF x, n
<1>9. x.mode = t.mode /\ x.l1 = [t.l1 EXCEPT ![i] = [@ EXCEPT ![j] = n]]
  BY <1>8 DEF LeafPut
<1>10. WriteSafe(x, "block", at)
  BY <1>8 DEF WriteSafe
<1>11. SettledTree(x, TRUE, "block", at) = BlockDone(x, i, j)
  BY DEF SettledTree
<1>12. Settled(c) = BlockDone(t, i, j)
  BY <1>1 DEF Settled, SettledTree
<1>13. TreeInv(x, TRUE, "block", at)
  BY <1>8, <1>10, <1>11 DEF TreeInv
<1>14. (c \in query.write) = TRUE
  BY <1>1
<1>15. TreeInv(x, c \in query.write, "block", at)
  BY <1>13, <1>14
<1>16. PutIn(SettledTree(x, c \in query.write, "block", at), Settled(c), i, j, k, v)
  BY <1>8, <1>11, <1>12, <1>14
<1> QED BY <1>1, <1>6, <1>7, <1>9, <1>15, <1>16, BlockPut

(* ecs_iterator_remove, from a tree of write_mask or another. *)
LEMMA IterRemoveKeeps ==
  ASSUME IInv, NEW c \in Component, NEW k \in Fan1, IterRemove(c, k)
  PROVE  IInv'
<1> DEFINE t == trees[c]
           i == at[1]
           j == at[2]
           w == c \in query.write
           x == IterRemoved(t, i, j, k)
           n == TakenLeaf(t.l1[i][j], t.mode, k)
<1>1. /\ pc = "block" /\ i \in t.own2 /\ j \in t.own1[i]
      /\ trees' = [trees EXCEPT ![c] = x]
      /\ view' = [view EXCEPT ![c][<<i, j, k>>] = Absent]
      /\ confirmed' = IF mode = "PREDICT" THEN confirmed
                      ELSE [confirmed EXCEPT ![c][<<i, j, k>>] = Absent]
      /\ UNCHANGED <<mode, pc, cursor, seen, expected, misread>>
  BY DEF IterRemove
<1>2. /\ at \in Fan3 \X Fan2 /\ trees \in [Component -> Tree]
      /\ t.mode = mode /\ TreeInv(t, w, "block", at)
  BY <1>1 DEF IInv, Places, TypeOK, TreesHold
<1>3. i \in Fan3 /\ j \in Fan2 /\ at = <<i, j>>
  BY <1>2, BlockPlace
<1>4. t \in Tree
  BY <1>2
<1>5. Settled(c) = SettledTree(t, w, "block", at)
  BY <1>1 DEF Settled
<1>6. /\ TreeInv(x, w, "block", at) /\ x.mode = t.mode
      /\ x.l1 = [t.l1 EXCEPT ![i] = [@ EXCEPT ![j] = n]]
      /\ PutIn(SettledTree(x, w, "block", at), Settled(c), i, j, k, Absent)
  <2>1. CASE w
    <3>1. Linked(BlockDone(t, i, j)) /\ WriteSafe(t, "block", at)
      BY <1>2, <2>1 DEF TreeInv, SettledTree
    <3>2. Safe(t.l1[i][j], t.mode)
      BY <1>3, <3>1 DEF WriteSafe
    <3>3. /\ x \in Tree /\ x.mode = t.mode
          /\ x.l1 = [t.l1 EXCEPT ![i] = [@ EXCEPT ![j] = n]]
          /\ Safe(x.l1[i][j], x.mode)
          /\ Linked(BlockDone(x, i, j))
          /\ PutIn(BlockDone(x, i, j), BlockDone(t, i, j), i, j, k, Absent)
      BY <1>1, <1>2, <1>3, <1>4, <3>1, <3>2, DeferredRemoval
    <3> HIDE DEF x, n
    <3>4. WriteSafe(x, "block", at)
      BY <3>3 DEF WriteSafe
    <3>5. /\ SettledTree(x, w, "block", at) = BlockDone(x, i, j)
          /\ SettledTree(t, w, "block", at) = BlockDone(t, i, j)
      BY <2>1 DEF SettledTree
    <3> QED BY <1>5, <3>3, <3>4, <3>5 DEF TreeInv
  <2>2. CASE ~ w
    <3>1. /\ SettledTree(x, w, "block", at) = x
          /\ SettledTree(t, w, "block", at) = t
      BY <2>2 DEF SettledTree
    <3>2. Linked(t)
      BY <1>2, <3>1 DEF TreeInv
    <3>3. x \in Tree /\ Linked(x) /\ PutIn(x, t, i, j, k, Absent)
      BY <1>1, <1>2, <1>3, <1>4, <3>2, TreeRemoval
    <3>4. OnePath(t, x, i, j, n, t.own1[i], Above2(t, i, j, n), t.own2,
                  Above3(t, i, j, n))
      BY <1>2, <1>3, <1>4, TakenPath
    <3> HIDE DEF x, n, w
    <3>5. x.mode = t.mode /\ x.l1 = [t.l1 EXCEPT ![i] = [@ EXCEPT ![j] = n]]
      BY <3>4 DEF OnePath
    <3> QED BY <1>5, <2>2, <3>1, <3>3, <3>5 DEF TreeInv
  <2> QED BY <2>1, <2>2
<1> HIDE DEF x, n
<1> QED BY <1>1, <1>6, BlockPut

-----------------------------------------------------------------------------
(* All steps *)

(* Every step keeps the invariant, if no changed slot is misread in it. *)
LEMMA NextKeeps == IInv /\ [Next]_vars /\ misread' = {} => IInv'
<1> SUFFICES ASSUME IInv, [Next]_vars, misread' = {} PROVE IInv'
  OBVIOUS
<1>1. CASE TreeCall
  <2>1. ASSUME NEW c \in Component, NEW i \in Fan3, NEW j \in Fan2, NEW k \in Fan1,
               Write(c, i, j, k)
        PROVE  IInv'
    BY <2>1, WriteKeeps
  <2>2. ASSUME NEW c \in Component, NEW i \in Fan3, NEW j \in Fan2, NEW k \in Fan1,
               Remove(c, i, j, k)
        PROVE  IInv'
    BY <2>2, RemoveKeepsIInv
  <2>3. CASE EndTick
    BY <2>3, EndTickKeeps
  <2>4. CASE RollbackAll
    BY <2>4, RollbackAllKeeps
  <2>5. ASSUME NEW m \in Mode, SetMode(m)
        PROVE  IInv'
    BY <2>5, SetModeKeepsIInv
  <2> QED BY <1>1, <2>1, <2>2, <2>3, <2>4, <2>5 DEF TreeCall
<1>2. CASE Step
  <2>1. CASE Flush
    BY <2>1, FlushKeeps
  <2>2. CASE LoadL1
    BY <2>2, LoadL1Keeps
  <2>3. CASE LoadL2
    BY <2>3, LoadL2Keeps
  <2>4. CASE NextBlock
    BY <2>4, NextBlockKeeps
  <2>5. CASE End
    BY <2>5, EndKeeps
  <2>6. ASSUME NEW c \in Component, NEW k \in Fan1, IterWrite(c, k)
        PROVE  IInv'
    BY <2>6, IterWriteKeeps
  <2>7. ASSUME NEW c \in Component, NEW k \in Fan1, IterRemove(c, k)
        PROVE  IInv'
    BY <2>7, IterRemoveKeeps
  <2> QED BY <1>2, <2>1, <2>2, <2>3, <2>4, <2>5, <2>6, <2>7 DEF Step
<1>3. ASSUME NEW q \in Query, Begin(q)
      PROVE  IInv'
  BY <1>3, BeginKeeps
<1>4. CASE UNCHANGED vars
  BY <1>4 DEF vars, cursor, store, IInv, TypeOK, Places, Yields, Visited, TreesHold,
              StoresHeld, Settled
<1> QED BY <1>1, <1>2, <1>3, <1>4 DEF Next

-----------------------------------------------------------------------------
(* The shape of the state, which a misread slot does not harm *)

Shape == TypeOK /\ query \in SomeQuery /\ Places

(* The tree u is t with a leaf, its node and the root replaced. *)
Replaced(u, t, i, j, n, s, r) ==
  /\ u.mode = t.mode /\ u.root = r /\ u.own2 = t.own2 /\ u.own1 = t.own1
  /\ u.l2 = [t.l2 EXCEPT ![i] = s]
  /\ u.l1 = [t.l1 EXCEPT ![i] = [@ EXCEPT ![j] = n]]
  /\ u = [mode |-> u.mode, root |-> u.root, own2 |-> u.own2,
          l2 |-> u.l2, own1 |-> u.own1, l1 |-> u.l1]

(* It is a tree. *)
LEMMA PathType ==
  ASSUME NEW t \in Tree, NEW i \in Fan3, NEW j \in Fan2, NEW n \in L1Node,
         NEW s \in Summary(Fan2), NEW r \in Summary(Fan3), NEW u,
         Replaced(u, t, i, j, n, s, r)
  PROVE  u \in Tree /\ u.mode = t.mode
<1>1. u.l1 \in [Fan3 -> [Fan2 -> L1Node]]
  BY DEF Tree, Replaced
<1>2. u.l2 \in [Fan3 -> Summary(Fan2)]
  BY DEF Tree, Replaced
<1> QED BY <1>1, <1>2 DEF Tree, Replaced

(* Nodes acquired. *)
LEMMA AcquiredType ==
  ASSUME NEW t \in Tree, NEW i \in Fan3, NEW j \in Fan2
  PROVE  LET u == AcquireL1(AcquireL2(t, i), i, j)
         IN u \in Tree /\ u.mode = t.mode
<1> DEFINE a == AcquireL2(t, i)
           u == AcquireL1(a, i, j)
<1>1. a \in Tree /\ a.mode = t.mode
  <2>1. CASE i \in t.own2
    BY <2>1 DEF AcquireL2
  <2>2. CASE i \notin t.own2
    <3>1. /\ a.mode = t.mode /\ a.root = t.root /\ a.own2 = t.own2 \cup {i}
          /\ a.own1 = [t.own1 EXCEPT ![i] = {}]
          /\ a.l2 = [t.l2 EXCEPT ![i] = NoSummary]
          /\ a.l1 = [t.l1 EXCEPT ![i] = NoLeaves]
          /\ a = [mode |-> a.mode, root |-> a.root, own2 |-> a.own2,
                  l2 |-> a.l2, own1 |-> a.own1, l1 |-> a.l1]
      BY <2>2 DEF AcquireL2, Tree
    <3>2. NoLeaves \in [Fan2 -> L1Node] /\ NoSummary \in Summary(Fan2)
      BY DefaultNodes DEF NoLeaves
    <3>3. a.l1 \in [Fan3 -> [Fan2 -> L1Node]]
      BY <3>1, <3>2 DEF Tree
    <3>4. a.l2 \in [Fan3 -> Summary(Fan2)]
      BY <3>1, <3>2 DEF Tree
    <3>5. a.own1 \in [Fan3 -> SUBSET Fan2] /\ a.own2 \in SUBSET Fan3
      BY <3>1 DEF Tree
    <3> HIDE DEF a
    <3> QED BY <3>1, <3>3, <3>4, <3>5 DEF Tree
  <2> QED BY <2>1, <2>2
<1> HIDE DEF a
<1>2. CASE j \in a.own1[i]
  BY <1>1, <1>2 DEF AcquireL1, a
<1>3. CASE j \notin a.own1[i]
  <2>1. /\ u.mode = a.mode /\ u.root = a.root /\ u.own2 = a.own2 /\ u.l2 = a.l2
        /\ u.own1 = [a.own1 EXCEPT ![i] = @ \cup {j}]
        /\ u.l1 = [a.l1 EXCEPT ![i] = [@ EXCEPT ![j] = NoL1]]
        /\ u = [mode |-> u.mode, root |-> u.root, own2 |-> u.own2,
                l2 |-> u.l2, own1 |-> u.own1, l1 |-> u.l1]
    BY <1>1, <1>3 DEF AcquireL1, Tree
  <2>2. u.l1 \in [Fan3 -> [Fan2 -> L1Node]]
    BY <1>1, <2>1, DefaultNodes DEF Tree
  <2>3. u.own1 \in [Fan3 -> SUBSET Fan2]
    BY <1>1, <2>1 DEF Tree
  <2> HIDE DEF u
  <2> QED BY <1>1, <2>1, <2>2, <2>3 DEF Tree, u, a
<1> QED BY <1>2, <1>3

(* A write of a system. *)
LEMMA GetMutType ==
  ASSUME NEW t \in Tree, NEW i \in Fan3, NEW j \in Fan2, NEW k \in Fan1, NEW v \in Value
  PROVE  GetMut(t, i, j, k, v) \in Tree /\ GetMut(t, i, j, k, v).mode = t.mode
<1> DEFINE a == AcquireL1(AcquireL2(t, i), i, j)
           m == a.mode
           n1 == MarkL1(a.l1[i][j], m, k)
           n2 == MarkUp(a.l2[i], m, j, n1.pred = Fan1, n1.conf = Fan1)
           n3 == MarkUp(a.root, m, i, n2.predAll = Fan2, n2.confAll = Fan2)
           b == Mark(t, i, j, k)
           w == IF t.mode = "PREDICT" THEN [b.l1[i][j] EXCEPT !.pval[k] = v]
                                      ELSE [b.l1[i][j] EXCEPT !.cval[k] = v]
           u == GetMut(t, i, j, k, v)
<1>1. a \in Tree /\ m = t.mode
  BY AcquiredType
<1>2. b = [a EXCEPT !.l1[i][j] = n1, !.l2[i] = n2, !.root = n3]
  BY DEF Mark
<1>3. u = [b EXCEPT !.l1[i][j] = w]
  BY DEF GetMut
<1> HIDE DEF a, b, u
<1>4. /\ m \in Mode /\ a.l1[i][j] \in L1Node
      /\ a.l2[i] \in Summary(Fan2) /\ a.root \in Summary(Fan3)
  BY <1>1 DEF Tree
<1>5. n1 \in L1Node
  BY <1>4, MarkL1Fields
<1>6. n2 \in Summary(Fan2)
  BY <1>4, MarkUpFields
<1>7. n3 \in Summary(Fan3)
  BY <1>4, MarkUpFields
<1> HIDE DEF n1, n2, n3, w
<1>8. b \in Tree /\ b.mode = a.mode
  <2>1. Replaced(b, a, i, j, n1, n2, n3)
    BY <1>1, <1>2 DEF Tree, Replaced
  <2> QED BY <1>1, <1>5, <1>6, <1>7, <2>1, PathType
<1>9. w \in L1Node
  <2>1. b.l1[i][j] \in L1Node
    BY <1>8 DEF Tree
  <2> QED BY <2>1 DEF L1Node, w
<1>10. u \in Tree /\ LeafPut(u, b, i, j, w)
  BY <1>3, <1>8, <1>9, LeafPutType
<1> QED BY <1>1, <1>8, <1>10 DEF LeafPut, u

(* A removal by one. *)
LEMMA RemoveType ==
  ASSUME NEW t \in Tree, NEW i \in Fan3, NEW j \in Fan2, NEW k \in Fan1
  PROVE  RemoveSlot(t, i, j, k) \in Tree /\ RemoveSlot(t, i, j, k).mode = t.mode
<1>1. RemoveSlot(t, i, j, k) \in Tree
  BY RemoveNode
<1>2. RemoveSlot(t, i, j, k).mode = t.mode
  BY DEF RemoveSlot, Tree
<1> QED BY <1>1, <1>2

(* The end of a tick, and a rollback. *)
LEMMA ClearChangedType ==
  ASSUME NEW t \in Tree
  PROVE  ClearChanged(t) \in Tree /\ ClearChanged(t).mode = t.mode
<1> DEFINE u == ClearChanged(t)
           f2 == [i \in Fan3 |-> IF i \in t.root.changed \cap t.own2
                                   THEN [t.l2[i] EXCEPT !.changed = {}]
                                   ELSE t.l2[i]]
           f1 == [i \in Fan3 |-> [j \in Fan2 |->
                    IF EndTickReaches(t, i, j)
                      THEN [t.l1[i][j] EXCEPT !.changed = {}]
                      ELSE t.l1[i][j]]]
           r == [t.root EXCEPT !.changed = {}]
<1>1. u = [t EXCEPT !.root.changed = {}, !.l2 = f2, !.l1 = f1]
  BY DEF ClearChanged
<1>2. r \in Summary(Fan3)
  BY DEF Tree, Summary
<1>3. f2 \in [Fan3 -> Summary(Fan2)]
  <2> SUFFICES ASSUME NEW i \in Fan3
               PROVE  [t.l2[i] EXCEPT !.changed = {}] \in Summary(Fan2)
    BY DEF Tree
  <2>1. t.l2[i] \in Summary(Fan2)
    BY DEF Tree
  <2> QED BY <2>1 DEF Summary
<1>4. f1 \in [Fan3 -> [Fan2 -> L1Node]]
  <2> SUFFICES ASSUME NEW i \in Fan3, NEW j \in Fan2
               PROVE  [t.l1[i][j] EXCEPT !.changed = {}] \in L1Node
    BY DEF Tree
  <2>1. t.l1[i][j] \in L1Node
    BY DEF Tree
  <2> QED BY <2>1 DEF L1Node
<1>5. /\ u.mode = t.mode /\ u.root = r /\ u.own2 = t.own2 /\ u.own1 = t.own1
      /\ u.l2 = f2 /\ u.l1 = f1
      /\ u = [mode |-> u.mode, root |-> u.root, own2 |-> u.own2,
              l2 |-> u.l2, own1 |-> u.own1, l1 |-> u.l1]
  <2> HIDE DEF f2, f1
  <2> QED BY <1>1 DEF Tree
<1> HIDE DEF u, f2, f1, r
<1>6. u \in Tree /\ u.mode = t.mode
  BY <1>2, <1>3, <1>4, <1>5 DEF Tree
<1> QED BY <1>6 DEF u

(* A rollback. *)
LEMMA RollbackType ==
  ASSUME NEW t \in Tree
  PROVE  Rollback(t) \in Tree /\ Rollback(t).mode = t.mode
<1> DEFINE u == Rollback(t)
           f1 == [i \in Fan3 |-> [j \in Fan2 |->
                    IF RollbackFrees2(t, i) THEN NoL1
                    ELSE IF RollbackReaches(t, i, j) THEN RolledL1(t.l1[i][j])
                                                     ELSE t.l1[i][j]]]
           g1 == [i \in Fan3 |-> IF RollbackFrees2(t, i) THEN {} ELSE t.own1[i] \
                    {j \in Fan2 : RollbackReaches(t, i, j) /\ t.l1[i][j].conf = {}}]
           f2 == [i \in Fan3 |-> IF RollbackReaches2(t, i) THEN RolledL2(t.l2[i])
                                                           ELSE t.l2[i]]
           g2 == t.own2 \ {i \in Fan3 : RollbackFrees2(t, i)}
           r == Rolled(t.root)
<1>1. CASE Touched(t.root) = {}
  BY <1>1 DEF Rollback
<1>2. CASE Touched(t.root) # {}
  <2>1. u = [t EXCEPT !.l1 = f1, !.own1 = g1, !.l2 = f2, !.own2 = g2, !.root = r]
    BY <1>2 DEF Rollback
  <2>2. \A s \in Summary(Fan3) : Rolled(s) \in Summary(Fan3)
    BY DEF Rolled, Summary
  <2>3. \A s \in Summary(Fan2) : RolledL2(s) \in Summary(Fan2)
    BY DefaultNodes DEF RolledL2, Rolled, Summary
  <2>4. \A n \in L1Node : RolledL1(n) \in L1Node
    BY DefaultNodes DEF RolledL1, L1Node
  <2>5. r \in Summary(Fan3)
    BY <2>2 DEF Tree
  <2>6. f2 \in [Fan3 -> Summary(Fan2)]
    BY <2>3 DEF Tree
  <2>7. f1 \in [Fan3 -> [Fan2 -> L1Node]]
    BY <2>4, DefaultNodes DEF Tree
  <2>8. g1 \in [Fan3 -> SUBSET Fan2] /\ g2 \in SUBSET Fan3
    BY DEF Tree
  <2> HIDE DEF f1, g1, f2, g2, r
  <2>9. /\ u.mode = t.mode /\ u.root = r /\ u.own2 = g2 /\ u.own1 = g1
        /\ u.l2 = f2 /\ u.l1 = f1
        /\ u = [mode |-> u.mode, root |-> u.root, own2 |-> u.own2,
                l2 |-> u.l2, own1 |-> u.own1, l1 |-> u.l1]
    BY <2>1 DEF Tree
  <2> HIDE DEF u
  <2> QED BY <2>5, <2>6, <2>7, <2>8, <2>9 DEF Tree, u
<1> QED BY <1>1, <1>2

(* A block flushed. *)
LEMMA FlushedType ==
  ASSUME NEW t \in Tree, NEW i \in Fan3, NEW j \in Fan2
  PROVE  FlushedTree(t, i, j) \in Tree /\ FlushedTree(t, i, j).mode = t.mode
<1> DEFINE n == FlushedL1(t.l1[i][j], t.mode)
           s == Propagated(t.l2[i], j, n, t.mode)
<1>1. t.l1[i][j] \in L1Node /\ t.l2[i] \in Summary(Fan2) /\ t.mode \in Mode
  BY DEF Tree
<1>2. n \in L1Node
  BY <1>1 DEF FlushedL1, L1Node
<1>3. s \in Summary(Fan2)
  BY <1>1, SummedFields
<1>4. FlushedTree(t, i, j) = [t EXCEPT !.l1[i][j] = n, !.l2[i] = s, !.root = t.root]
  <2> HIDE DEF n, s
  <2>1. FlushedTree(t, i, j) = [t EXCEPT !.l1[i][j] = n, !.l2[i] = s]
    BY DEF FlushedTree, n, s
  <2> QED BY <2>1 DEF Tree
<1>5. t.root \in Summary(Fan3)
  BY DEF Tree
<1> DEFINE u == FlushedTree(t, i, j)
<1> HIDE DEF n, s, u
<1>6. u = [t EXCEPT !.l1[i][j] = n, !.l2[i] = s, !.root = t.root]
  BY <1>4 DEF u
<1>7. Replaced(u, t, i, j, n, s, t.root)
  BY <1>6 DEF Tree, Replaced
<1>8. u \in Tree /\ u.mode = t.mode
  BY <1>2, <1>3, <1>5, <1>7, PathType
<1> QED BY <1>8 DEF u

(* An L2 node with the bits of one of its leaves. *)
LEMMA NotedType ==
  ASSUME NEW t \in Tree, NEW i \in Fan3, NEW j \in Fan2, NEW m \in Mode
  PROVE  LET u == [t EXCEPT !.l2[i] = Propagated(@, j, t.l1[i][j], m)]
         IN u \in Tree /\ u.mode = t.mode
<1> DEFINE s == Propagated(t.l2[i], j, t.l1[i][j], m)
           u == [t EXCEPT !.l2[i] = s]
<1>1. s \in Summary(Fan2)
  <2>1. t.l2[i] \in Summary(Fan2)
    BY DEF Tree
  <2> QED BY <2>1, SummedFields
<1>2. u = [t EXCEPT !.l2[i] = s]
  OBVIOUS
<1> HIDE DEF s, u
<1>3. /\ u.mode = t.mode /\ u.root = t.root /\ u.own2 = t.own2 /\ u.own1 = t.own1
      /\ u.l2 = [t.l2 EXCEPT ![i] = s] /\ u.l1 = t.l1
      /\ u = [mode |-> u.mode, root |-> u.root, own2 |-> u.own2,
              l2 |-> u.l2, own1 |-> u.own1, l1 |-> u.l1]
  BY <1>2 DEF Tree
<1>4. u.l2 \in [Fan3 -> Summary(Fan2)]
  BY <1>1, <1>3 DEF Tree
<1>5. u \in Tree /\ u.mode = t.mode
  BY <1>3, <1>4 DEF Tree
<1> QED BY <1>5 DEF s, u

(* A call between two iterations. *)
LEMMA ShapeIdle ==
  ASSUME Shape, UNCHANGED <<pc, cursor, seen, expected, misread>>,
         trees' \in [Component -> Tree],
         \A c \in Component : trees'[c].mode = mode'
  PROVE  Shape'
BY DEF Shape, TypeOK, Places, cursor

(* The trees, whatever a step makes of them one by one. *)
LEMMA ShapeTrees ==
  ASSUME Shape
  PROVE  /\ trees \in [Component -> Tree] /\ at \in Place
         /\ \A c \in Component : /\ trees[c] \in Tree /\ trees[c].mode = mode
                                 /\ mode \in Mode
<1>1. trees \in [Component -> Tree] /\ \A c \in Component : trees[c].mode = mode
  BY DEF Shape, TypeOK
<1>2. \A c \in Component : trees[c] \in Tree /\ trees[c].mode \in Mode
  BY <1>1 DEF Tree
<1> QED BY <1>1, <1>2 DEF Shape, TypeOK, Place

(* Every call between two iterations keeps the shape. *)
LEMMA TreeCallShape ==
  ASSUME Shape, TreeCall
  PROVE  Shape'
<1>1. /\ trees \in [Component -> Tree]
      /\ \A c \in Component : trees[c] \in Tree /\ trees[c].mode = mode
  BY ShapeTrees
<1>2. ASSUME NEW c \in Component, NEW i \in Fan3, NEW j \in Fan2, NEW k \in Fan1,
             Write(c, i, j, k)
      PROVE  Shape'
  <2>1. PICK v \in IF c \in Tag THEN {Zero} ELSE Value :
          trees' = [trees EXCEPT ![c] = GetMut(trees[c], i, j, k, v)]
    BY <1>2 DEF Write
  <2> DEFINE u == GetMut(trees[c], i, j, k, v)
  <2>2. u \in Tree /\ u.mode = mode
    BY <1>1, GetMutType
  <2>3. UNCHANGED <<mode, pc, cursor, seen, expected, misread>>
    BY <1>2 DEF Write
  <2> HIDE DEF u
  <2>4. /\ trees' \in [Component -> Tree]
        /\ \A d \in Component : trees'[d].mode = mode'
    BY <1>1, <2>1, <2>2, <2>3 DEF u
  <2> QED BY <2>3, <2>4, ShapeIdle
<1>3. ASSUME NEW c \in Component, NEW i \in Fan3, NEW j \in Fan2, NEW k \in Fan1,
             Remove(c, i, j, k)
      PROVE  Shape'
  <2> DEFINE u == RemoveSlot(trees[c], i, j, k)
  <2>1. trees' = [trees EXCEPT ![c] = u]
    BY <1>3 DEF Remove
  <2>2. u \in Tree /\ u.mode = mode
    BY <1>1, RemoveType
  <2>3. UNCHANGED <<mode, pc, cursor, seen, expected, misread>>
    BY <1>3 DEF Remove
  <2> HIDE DEF u
  <2>4. /\ trees' \in [Component -> Tree]
        /\ \A d \in Component : trees'[d].mode = mode'
    BY <1>1, <2>1, <2>2, <2>3
  <2> QED BY <2>3, <2>4, ShapeIdle
<1>4. CASE EndTick
  <2>1. /\ trees' = [c \in Component |-> ClearChanged(trees[c])]
        /\ UNCHANGED <<mode, pc, cursor, seen, expected, misread>>
    BY <1>4 DEF EndTick
  <2>2. \A c \in Component : trees'[c] \in Tree /\ trees'[c].mode = mode'
    BY <1>1, <2>1, ClearChangedType
  <2> QED BY <2>1, <2>2, ShapeIdle
<1>5. CASE RollbackAll
  <2>1. /\ trees' = [c \in Component |-> Rollback(trees[c])]
        /\ UNCHANGED <<mode, pc, cursor, seen, expected, misread>>
    BY <1>5 DEF RollbackAll
  <2>2. \A c \in Component : trees'[c] \in Tree /\ trees'[c].mode = mode'
    BY <1>1, <2>1, RollbackType
  <2> QED BY <2>1, <2>2, ShapeIdle
<1>6. ASSUME NEW m \in Mode, SetMode(m)
      PROVE  Shape'
  <2>1. /\ trees' = [c \in Component |-> [trees[c] EXCEPT !.mode = m]]
        /\ mode' = m /\ UNCHANGED <<pc, cursor, seen, expected, misread>>
    BY <1>6 DEF SetMode
  <2>2. \A t \in Tree : [t EXCEPT !.mode = m] \in Tree /\ [t EXCEPT !.mode = m].mode = m
    BY DEF Tree
  <2>3. \A c \in Component : trees'[c] \in Tree /\ trees'[c].mode = mode'
    BY <1>1, <2>1, <2>2
  <2> QED BY <2>1, <2>3, ShapeIdle
<1> QED BY <1>2, <1>3, <1>4, <1>5, <1>6 DEF TreeCall

(* The steps of an iteration keep it. *)
LEMMA BeginShape ==
  ASSUME Shape, NEW q \in Query, Begin(q)
  PROVE  Shape'
<1>1. /\ pc = "idle" /\ pc' = "scan" /\ query' = q
      /\ mask3' = L3Mask(q) /\ mask2' = {} /\ at' = Nowhere /\ hits' = {}
      /\ seen' = {} /\ expected' = Matches(q)
      /\ trees' = trees /\ mode' = mode /\ misread' = misread
  BY DEF Begin
<1>2. q \in SomeQuery /\ Nowhere \notin Fan3 \X Fan2
  BY QueryAssumption, BlockPlace DEF SomeQuery
<1>3. mask3' \subseteq Fan3 /\ expected' \subseteq Slot
  BY <1>1, MasksAre, MatchesAre DEF Hits3
<1>4. TypeOK'
  BY <1>1, <1>3 DEF Shape, TypeOK
<1>5. Places'
  BY <1>1, <1>2 DEF Places
<1> QED BY <1>1, <1>2, <1>4, <1>5 DEF Shape

(* The flush of the block just left. *)
LEMMA FlushShape ==
  ASSUME Shape, Flush
  PROVE  Shape'
<1> DEFINE i == at[1]
           j == at[2]
<1>1. /\ pc = "call" /\ pc' = "scan" /\ hits' = {}
      /\ UNCHANGED <<mode, query, mask3, mask2, at, seen, expected, misread>>
  BY DEF Flush
<1>2. i \in Fan3 /\ j \in Fan2
  BY <1>1, BlockPlace DEF Shape, Places
<1>3. /\ trees \in [Component -> Tree]
      /\ \A c \in Component : trees[c] \in Tree /\ trees[c].mode = mode
  BY ShapeTrees
<1>4. trees' = [c \in Component |->
                  IF c \in query.write THEN FlushedTree(trees[c], i, j) ELSE trees[c]]
  <2>1. trees' = [c \in Component |->
                    IF c \in query.write
                      THEN LET n == FlushedL1(trees[c].l1[i][j], mode)
                           IN [trees[c] EXCEPT !.l1[i][j] = n,
                                               !.l2[i] = Propagated(@, j, n, mode)]
                      ELSE trees[c]]
    BY DEF Flush
  <2>2. \A c \in Component :
          FlushedTree(trees[c], i, j)
            = LET n == FlushedL1(trees[c].l1[i][j], mode)
              IN [trees[c] EXCEPT !.l1[i][j] = n, !.l2[i] = Propagated(@, j, n, mode)]
    BY <1>3 DEF FlushedTree
  <2> QED BY <2>1, <2>2
<1> HIDE DEF i, j
<1>5. \A c \in Component : trees'[c] \in Tree /\ trees'[c].mode = mode
  BY <1>2, <1>3, <1>4, FlushedType
<1>6. TypeOK'
  BY <1>1, <1>4, <1>5 DEF Shape, TypeOK
<1>7. Places'
  BY <1>1 DEF Shape, Places
<1> QED BY <1>1, <1>6, <1>7 DEF Shape

(* The next block, matched or not. *)
LEMMA LoadL1Shape ==
  ASSUME Shape, LoadL1
  PROVE  Shape'
<1> DEFINE i == at[1]
           j == Min(mask2)
           found == L1Mask(query, i, j)
           Noted(c) == [trees[c] EXCEPT !.l2[i] = Propagated(@, j, trees[c].l1[i][j], mode)]
<1>1. /\ pc = "scan" /\ mask2 # {}
      /\ mask2' = mask2 \ {j} /\ at' = <<i, j>> /\ hits' = found
      /\ pc' = IF found # {} THEN "block" ELSE "scan"
      /\ trees' = [c \in Component |->
                     IF found = {} /\ c \in query.write THEN Noted(c) ELSE trees[c]]
      /\ seen' = seen \cup {<<i, j, k>> : k \in found}
      /\ misread' = IF found # {} THEN misread \cup LeftAt(i, j) ELSE misread
      /\ UNCHANGED <<mode, query, mask3, expected>>
  BY DEF LoadL1
<1>2. TypeOK /\ query \in SomeQuery /\ Places
  BY DEF Shape
<1>3. at # Nowhere /\ i \in Fan3 /\ i \notin mask3
  <2>1. at \in Place /\ at # Nowhere
    BY <1>1, <1>2 DEF TypeOK, Place, Places
  <2> QED BY <1>2, <2>1, NodePlace DEF Places
<1>4. j \in mask2 /\ j \in Fan2
  <2>1. mask2 \in SUBSET Nat /\ mask2 \subseteq Fan2
    BY <1>2, PositionAssumption DEF TypeOK
  <2> QED BY <1>1, <2>1, LeastPosition
<1>5. found \subseteq Fan1
  BY MasksAre DEF Hits1
<1>6. \A c \in Component : Noted(c) \in Tree /\ Noted(c).mode = mode
  BY <1>3, <1>4, ShapeTrees, NotedType
<1> HIDE DEF i, j, found, Noted
<1>7. /\ trees' \in [Component -> Tree]
      /\ \A c \in Component : trees'[c].mode = mode'
  BY <1>1, <1>2, <1>6 DEF TypeOK
<1>8. /\ at' \in Fan3 \X Fan2 /\ at' # Nowhere /\ at'[1] = i /\ at'[2] = j
  BY <1>1, <1>3, <1>4, NextPlace
<1>9. seen' \subseteq Slot
  BY <1>1, <1>2, <1>3, <1>4, <1>5 DEF TypeOK, Slot
<1>10. misread' \subseteq Component \X Slot
  <2>1. query.write \subseteq Component
    BY <1>2 DEF SomeQuery
  <2>2. ASSUME NEW y \in LeftAt(i, j)
        PROVE  y \in Component \X Slot
    <3>1. PICK c \in query.write :
            y \in {<<c, <<i, j, k>> >> : k \in Leftover(trees[c].l1[i][j])}
      BY <2>2 DEF LeftAt
    <3>2. PICK k \in Leftover(trees[c].l1[i][j]) : y = <<c, <<i, j, k>> >>
      BY <3>1
    <3>3. c \in Component /\ trees[c] \in Tree
      BY <1>2, <2>1 DEF TypeOK
    <3>4. k \in Fan1
      BY <1>3, <1>4, <3>2, <3>3 DEF Tree, L1Node, Leftover
    <3>5. <<i, j, k>> \in Slot
      BY <1>3, <1>4, <3>4 DEF Slot
    <3> QED BY <3>2, <3>3, <3>5
  <2> QED BY <1>1, <1>2, <2>2 DEF TypeOK
<1>11. TypeOK'
  BY <1>1, <1>2, <1>5, <1>7, <1>8, <1>9, <1>10 DEF TypeOK
<1>12. Places'
  BY <1>1, <1>2, <1>3, <1>8 DEF Places
<1> QED BY <1>1, <1>2, <1>11, <1>12 DEF Shape

(* The next L2 nodes, or the end. *)
LEMMA LoadL2Shape ==
  ASSUME Shape, LoadL2
  PROVE  Shape'
<1> DEFINE next == Min(mask3)
           Left(c) == IF at # Nowhere /\ c \in query.write
                        THEN SummedTree(trees[c], at[1]) ELSE trees[c]
<1>1. /\ pc = "scan" /\ mask2 = {}
      /\ UNCHANGED <<mode, query, hits, seen, expected, misread>>
  BY DEF LoadL2
<1>2. TypeOK /\ query \in SomeQuery /\ Places
  BY DEF Shape
<1>3. trees' = [c \in Component |-> Left(c)]
  <2>1. trees' = [c \in Component |->
                    IF at # Nowhere /\ c \in query.write
                      THEN [trees[c] EXCEPT !.root =
                              Propagated(@, at[1], trees[c].l2[at[1]], mode)]
                      ELSE trees[c]]
    BY DEF LoadL2
  <2>2. \A c \in Component :
          SummedTree(trees[c], at[1])
            = [trees[c] EXCEPT !.root =
                 Propagated(@, at[1], trees[c].l2[at[1]], mode)]
    BY <1>2 DEF TypeOK, SummedTree
  <2> QED BY <2>1, <2>2
<1>4. \A c \in Component : Left(c) \in Tree /\ Left(c).mode = mode
  BY ShapeTrees, NodePlace, SummedParts
<1> HIDE DEF Left
<1>5. trees' \in [Component -> Tree] /\ \A c \in Component : trees'[c].mode = mode'
  BY <1>1, <1>3, <1>4
<1>6. CASE mask3 = {}
  <2>1. pc' = "done" /\ mask3' = mask3 /\ mask2' = mask2 /\ at' = at
    BY <1>6 DEF LoadL2
  <2>2. TypeOK'
    BY <1>1, <1>2, <1>5, <2>1 DEF TypeOK
  <2>3. Places'
    BY <1>1, <1>2, <1>6, <2>1 DEF Places
  <2> QED BY <1>1, <1>2, <2>2, <2>3 DEF Shape
<1>7. CASE mask3 # {}
  <2>1. /\ pc' = "scan" /\ mask3' = mask3 \ {next} /\ at' = <<next>>
        /\ mask2' = L2Mask(query, next)
    BY <1>1, <1>7 DEF LoadL2
  <2>2. next \in mask3 /\ next \in Fan3
    <3>1. mask3 \in SUBSET Nat /\ mask3 \subseteq Fan3
      BY <1>2, PositionAssumption DEF TypeOK
    <3> QED BY <1>7, <3>1, LeastPosition
  <2>3. mask2' \subseteq Fan2
    BY <2>1, MasksAre DEF Hits2
  <2> HIDE DEF next
  <2> DEFINE p == <<next>>
  <2>4. p \in Place /\ p # Nowhere /\ p[1] = next /\ p \notin Fan3 \X Fan2
    <3>1. PICK y : y \in Fan2
      BY FanAssumption
    <3> QED BY <2>2, <3>1, NextPlace
  <2>5. at' = p
    BY <2>1
  <2> HIDE DEF p
  <2>6. TypeOK'
    BY <1>1, <1>2, <1>5, <2>1, <2>3, <2>4, <2>5 DEF TypeOK, Place
  <2>7. Places'
    BY <2>1, <2>4, <2>5 DEF Places
  <2> QED BY <1>1, <1>2, <2>6, <2>7 DEF Shape
<1> QED BY <1>6, <1>7

(* The calls of the loop body. *)
LEMMA BlockShape ==
  ASSUME Shape, NEW c \in Component, NEW k \in Fan1,
         IterWrite(c, k) \/ IterRemove(c, k)
  PROVE  Shape'
<1> DEFINE t == trees[c]
           i == at[1]
           j == at[2]
<1>1. pc = "block" /\ UNCHANGED <<mode, pc, cursor, seen, expected, misread>>
  BY DEF IterWrite, IterRemove
<1>2. i \in Fan3 /\ j \in Fan2
  BY <1>1, BlockPlace DEF Shape, Places
<1>3. trees \in [Component -> Tree] /\ t \in Tree /\ t.mode = mode /\ mode \in Mode
  BY ShapeTrees
<1>4. \E u \in Tree : u.mode = mode /\ trees' = [trees EXCEPT ![c] = u]
  <2>1. CASE IterWrite(c, k)
    <3>1. PICK v \in Value :
            trees' = [trees EXCEPT ![c].l1[i][j] = WrittenLeaf(@, mode, k, v)]
      BY <2>1 DEF IterWrite, WrittenLeaf
    <3> DEFINE n == WrittenLeaf(t.l1[i][j], mode, k, v)
               u == [t EXCEPT !.l1[i][j] = n]
    <3>2. trees' = [trees EXCEPT ![c] = u]
      BY <1>3, <3>1
    <3>3. n \in L1Node
      <4>1. t.l1[i][j] \in L1Node
        BY <1>2, <1>3 DEF Tree
      <4> QED BY <1>3, <4>1, WrittenFields
    <3> HIDE DEF n
    <3>4. u = [t EXCEPT !.l1[i][j] = n]
      OBVIOUS
    <3> HIDE DEF u, t, i, j
    <3>5. u \in Tree /\ LeafPut(u, t, i, j, n)
      BY <1>2, <1>3, <3>3, <3>4, LeafPutType
    <3>6. u.mode = mode
      BY <1>3, <3>5 DEF LeafPut
    <3> QED BY <3>2, <3>5, <3>6
  <2>2. CASE IterRemove(c, k)
    <3> DEFINE u == IterRemoved(t, i, j, k)
    <3>1. trees' = [trees EXCEPT ![c] = u]
      BY <2>2 DEF IterRemove
    <3> DEFINE n == TakenLeaf(t.l1[i][j], t.mode, k)
    <3> HIDE DEF t, i, j
    <3>2. u \in Tree /\ OnePath(t, u, i, j, n, t.own1[i], Above2(t, i, j, n), t.own2,
                               Above3(t, i, j, n))
      BY <1>2, <1>3, TakenPath
    <3> HIDE DEF u, n
    <3>3. u.mode = mode
      BY <1>3, <3>2 DEF OnePath
    <3> QED BY <3>1, <3>2, <3>3
  <2> QED BY <2>1, <2>2
<1>5. /\ trees' \in [Component -> Tree]
      /\ \A d \in Component : trees'[d].mode = mode'
  BY <1>1, <1>4, ShapeTrees
<1> QED BY <1>1, <1>5, ShapeIdle

(* All steps do. *)
LEMMA NextShape == Shape /\ [Next]_vars => Shape'
<1> SUFFICES ASSUME Shape, [Next]_vars PROVE Shape'
  OBVIOUS
<1>1. CASE TreeCall
  BY <1>1, TreeCallShape
<1>2. CASE Step
  <2>1. CASE Flush
    BY <2>1, FlushShape
  <2>2. CASE LoadL1
    BY <2>2, LoadL1Shape
  <2>3. CASE LoadL2
    BY <2>3, LoadL2Shape
  <2>4. CASE NextBlock
    BY <2>4 DEF NextBlock, cursor, Shape, TypeOK, Places
  <2>5. CASE End
    <3>1. Nowhere \notin Fan3 \X Fan2
      BY BlockPlace
    <3> QED BY <2>5, <3>1, NoQueryType DEF End, Shape, TypeOK, Places
  <2>6. ASSUME NEW c \in Component, NEW k \in Fan1, IterWrite(c, k) \/ IterRemove(c, k)
        PROVE  Shape'
    BY <2>6, BlockShape
  <2> QED BY <1>2, <2>1, <2>2, <2>3, <2>4, <2>5, <2>6 DEF Step
<1>3. ASSUME NEW q \in Query, Begin(q)
      PROVE  Shape'
  BY <1>3, BeginShape
<1>4. CASE UNCHANGED vars
  BY <1>4 DEF vars, cursor, Shape, TypeOK, Places
<1> QED BY <1>1, <1>2, <1>3, <1>4 DEF Next

(* A misread slot stays on record. *)
LEMMA MisreadStays == [Next]_vars => misread \subseteq misread'
<1> SUFFICES ASSUME [Next]_vars PROVE misread \subseteq misread'
  OBVIOUS
<1>1. CASE TreeCall
  BY <1>1 DEF TreeCall, Write, Remove, EndTick, RollbackAll, SetMode
<1>2. CASE Step
  <2>1. CASE LoadL1
    BY <2>1 DEF LoadL1
  <2>2. CASE Flush \/ LoadL2 \/ NextBlock \/ End
    BY <2>2 DEF Flush, LoadL2, NextBlock, End
  <2>3. ASSUME NEW c \in Component, NEW k \in Fan1, IterWrite(c, k) \/ IterRemove(c, k)
        PROVE  misread' = misread
    BY <2>3 DEF IterWrite, IterRemove
  <2> QED BY <1>2, <2>1, <2>2, <2>3 DEF Step
<1>3. ASSUME NEW q \in Query, Begin(q)
      PROVE  misread' = misread
  BY <1>3 DEF Begin
<1>4. CASE UNCHANGED vars
  BY <1>4 DEF vars
<1> QED BY <1>1, <1>2, <1>3, <1>4 DEF Next

-----------------------------------------------------------------------------
(* The theorems *)

(* What holds throughout: until a slot is misread, the trees are linked at each
   point of an iteration, and their images those of the calls made, once what
   the iterator has put off is done. *)
Sound == Shape /\ (misread = {} => IInv)

(* That is an invariant of the specification. *)
THEOREM IteratorInvariant == Spec => []Sound
<1>1. Init => Sound
  BY InitHolds DEF Sound, Shape, IInv
<1>2. Sound /\ [Next]_vars => Sound'
  <2> SUFFICES ASSUME Sound, [Next]_vars PROVE Sound'
    OBVIOUS
  <2>1. Shape' /\ misread \subseteq misread'
    BY NextShape, MisreadStays DEF Sound
  <2>2. CASE misread' = {}
    <3>1. misread = {}
      BY <2>1, <2>2
    <3>2. IInv
      BY <3>1 DEF Sound
    <3>3. IInv'
      BY <2>2, <3>2, NextKeeps
    <3> QED BY <2>1, <3>3 DEF Sound
  <2>3. CASE misread' # {}
    BY <2>1, <2>3 DEF Sound
  <2> QED BY <2>2, <2>3
<1> QED BY <1>1, <1>2, PTL DEF Spec

(* The trees keep their shape under the deferred updates, and the iterator
   stands at a position that exists, with masks of positions that exist,
   whatever a flush misreads. *)
THEOREM IteratorType == Spec => []TypeOK
<1>1. Sound => TypeOK
  BY DEF Sound, Shape
<1> QED BY <1>1, IteratorInvariant, PTL

(* Until an iteration yields a block with a slot that its flush misreads, the
   pruning by the summary masks yields every entity that matched when the
   iteration began, and no other, whatever the loop body writes and removes. *)
THEOREM IteratorYields == Spec => []YieldsMatches
<1>1. Sound => YieldsMatches
  <2> SUFFICES ASSUME Sound, misread = {}
               PROVE  seen \subseteq expected /\ (pc = "done" => seen = expected)
    BY DEF YieldsMatches
  <2>1. IInv
    BY DEF Sound
  <2>2. seen \subseteq Slot /\ expected \subseteq Slot
    BY <2>1 DEF IInv, TypeOK
  <2>3. CASE pc = "idle"
    BY <2>1, <2>3 DEF IInv, Places
  <2>4. CASE pc # "idle"
    <3>1. \A s \in Slot : s \in seen <=> s \in expected /\ Visited(s[1], s[2])
      BY <2>1, <2>4 DEF IInv, Yields
    <3>2. pc = "done" => \A x, y : Visited(x, y)
      BY <2>1 DEF IInv, Places, Visited
    <3> QED BY <2>2, <3>1, <3>2
  <2> QED BY <2>3, <2>4
<1> QED BY <1>1, IteratorInvariant, PTL

(* While no slot has been misread, the summaries of every tree are exact for
   both images between two iterations, and no dirty or changed bit hides below
   one without it. *)
THEOREM IteratorSummaries == Spec => [](misread = {} => SummariesExact)
<1>1. Sound => (misread = {} => SummariesExact)
  <2> SUFFICES ASSUME Sound, misread = {}, pc = "idle",
                      NEW c \in Component, NEW i \in Fan3
               PROVE  LET t == trees[c]  s == t.l2[i]
                      IN /\ SummaryOf(t.root, i, s, s.predAny = {}, s.predAll = Fan2,
                                      s.confAny = {}, s.confAll = Fan2)
                         /\ \A j \in Fan2 :
                              LET n == t.l1[i][j]
                              IN \/ MisreadIn(c, i, j)
                                 \/ SummaryOf(s, j, n, n.pred = {}, n.pred = Fan1,
                                              n.conf = {}, n.conf = Fan1)
    BY DEF SummariesExact
  <2>1. Linked(trees[c])
    BY IdleTrees DEF Sound
  <2> QED BY <2>1 DEF Linked, NodeLinked, LeafLinked
<1> QED BY <1>1, IteratorInvariant, PTL

(* While no slot has been misread, both images hold between two iterations what
   the calls of the tree and of the iterator stored. *)
THEOREM IteratorStores == Spec => [](misread = {} => StoresAgree)
<1>1. Sound => (misread = {} => StoresAgree)
  <2> SUFFICES ASSUME Sound, misread = {}, pc = "idle" PROVE StoresAgree
    BY DEF StoresAgree
  <2>1. \A c \in Component : /\ ViewOf(trees[c]) = view[c]
                             /\ ConfirmedOf(trees[c]) = confirmed[c]
    BY IdleTrees DEF Sound
  <2> QED BY <2>1 DEF StoresAgree
<1> QED BY <1>1, IteratorInvariant, PTL

(* A rollback leaves every tree at rest, as its assertion demands, while no slot
   has been misread. *)
THEOREM IteratorRollback == Spec => RollbackSettles
<1>1. Sound /\ RollbackAll /\ misread = {} => \A c \in Component : MasksValid(trees'[c])
  <2> SUFFICES ASSUME Sound, RollbackAll, misread = {}, NEW c \in Component
               PROVE  MasksValid(trees'[c])
    OBVIOUS
  <2>1. pc = "idle" /\ trees'[c] = Rollback(trees[c])
    BY DEF RollbackAll
  <2>2. trees[c] \in Tree /\ Linked(trees[c])
    BY <2>1, IdleTrees DEF Sound
  <2> QED BY <2>1, <2>2, RollbackRests
<1> QED BY <1>1, IteratorInvariant, PTL DEF RollbackSettles
=============================================================================
