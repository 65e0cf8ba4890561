-------------------------- MODULE HibitBufferProofs --------------------------
(* Proofs about HibitBuffer, for every fan-out, heap and set of elements. *)
EXTENDS HibitBuffer, HibitNodesProofs, SequenceTheorems

USE FanAssumption, ZeroAssumption

(* The tree and the heap with what they hold. *)
Typed == tree \in Tree /\ heap \in [Block -> Seq(Elem) \cup {Free}]

(* The invariant, as long as no flush has misread a changed slot. *)
BInv == Typed /\ WellFormed(tree) /\ OwnedOnce

-----------------------------------------------------------------------------
(* Ownership, of any pointers P by the images that hold data, H, in a heap h. *)

Owned(P, H, h) ==
  /\ \A im \in Image : im \notin H => P[im] = Null
  /\ \A im \in Image : P[im] # Null => h[P[im]] # Free
  /\ \A im, other \in Image : P[im] = P[other] /\ P[im] # Null => im = other
  /\ \A b \in Block : h[b] # Free => \E im \in Image : P[im] = b

PointersOf(t) == [im \in Image |-> Pointer(t, im)]
HeldIn(t) == {im \in Image : Holds(t, im)}

(* The state's ownership, in these terms. *)
LEMMA OwnedIs == OwnedOnce <=> Owned(PointersOf(tree), HeldIn(tree), heap)
BY DEF OwnedOnce, Owned, PointersOf, HeldIn

(* The same of the next state. *)
LEMMA OwnedIsAfter ==
  OwnedOnce' <=> Owned(PointersOf(tree'), HeldIn(tree'), heap')
BY DEF OwnedOnce, Owned, PointersOf, HeldIn

(* One image gets pointer p, and is the last to hold its old one; the heap
   changes where those two point, and nowhere else. *)
Repointed(P, H, h, Q, K, g, at, p) ==
  /\ Q = [P EXCEPT ![at] = p]
  /\ \A im \in Image : im # at => (im \in K <=> im \in H)
  /\ at \notin K => p = Null
  /\ p = Null \/ p = P[at] \/ h[p] = Free
  /\ p # Null => g[p] # Free
  /\ P[at] # Null /\ P[at] # p => g[P[at]] = Free
  /\ \A b \in Block : b # p /\ b # P[at] => g[b] = h[b]

(* Ownership survives it. *)
LEMMA OneImage ==
  ASSUME NEW P, P \in [Image -> Value], NEW H, NEW h, Owned(P, H, h),
         NEW at \in Image, NEW p \in Value, NEW Q, NEW K, NEW g,
         Repointed(P, H, h, Q, K, g, at, p)
  PROVE  Owned(Q, K, g)
<1> USE DEF Repointed
<1>1. Q[at] = p /\ \A im \in Image : im # at => Q[im] = P[im]
  OBVIOUS
<1>2. ASSUME NEW im \in Image, im \notin K
      PROVE  Q[im] = Null
  BY <1>1, <1>2 DEF Owned
<1>3. ASSUME NEW im \in Image, im # at, P[im] # Null
      PROVE  P[im] # p /\ P[im] # P[at]
  BY <1>3 DEF Owned
<1>4. ASSUME NEW im \in Image, Q[im] # Null
      PROVE  g[Q[im]] # Free
  <2>1. CASE im = at
    BY <1>1, <1>4, <2>1
  <2>2. CASE im # at
    <3>1. Q[im] = P[im] /\ P[im] \in Block
      BY <1>1, <1>4, <2>2 DEF Block
    <3>2. g[P[im]] = h[P[im]]
      BY <1>3, <2>2, <3>1 DEF Block
    <3> QED BY <1>4, <3>1, <3>2 DEF Owned
  <2> QED BY <2>1, <2>2
<1>5. ASSUME NEW im \in Image, NEW other \in Image, Q[im] = Q[other], Q[im] # Null
      PROVE  im = other
  BY <1>1, <1>3, <1>5 DEF Owned
<1>6. ASSUME NEW b \in Block, g[b] # Free
      PROVE  \E im \in Image : Q[im] = b
  <2>1. CASE b = p
    BY <1>1, <2>1
  <2>2. CASE b # p
    <3>1. b # P[at]
      BY <1>6, <2>2 DEF Block
    <3>2. PICK im \in Image : P[im] = b
      BY <1>6, <2>2, <3>1 DEF Owned
    <3> QED BY <1>1, <3>1, <3>2
  <2> QED BY <2>1, <2>2
<1> QED BY <1>2, <1>4, <1>5, <1>6 DEF Owned

(* The images of D lose their data and their blocks at once. *)
AllDropped(P, H, h, Q, K, g, D) ==
  /\ \A im \in Image : Q[im] = IF im \in D THEN Null ELSE P[im]
  /\ \A im \in Image : im \in K <=> im \in H /\ im \notin D
  /\ \A b \in Block : g[b] = IF \E im \in Image : im \in D /\ P[im] = b
                              THEN Free ELSE h[b]

(* Ownership survives that too. *)
LEMMA DropImages ==
  ASSUME NEW P, P \in [Image -> Value], NEW H, NEW h, Owned(P, H, h),
         NEW D, NEW Q, NEW K, NEW g, AllDropped(P, H, h, Q, K, g, D)
  PROVE  Owned(Q, K, g)
<1> USE DEF AllDropped
<1>1. \A im \in Image : im \notin K => Q[im] = Null
  BY DEF Owned
<1>2. ASSUME NEW im \in Image, Q[im] # Null
      PROVE  g[Q[im]] # Free
  <2>1. im \notin D /\ Q[im] = P[im] /\ P[im] \in Block
    BY <1>2 DEF Block
  <2>2. ~ \E other \in Image : other \in D /\ P[other] = P[im]
    BY <2>1 DEF Owned, Block
  <2>3. g[P[im]] = h[P[im]]
    BY <2>1, <2>2
  <2> QED BY <1>2, <2>1, <2>3 DEF Owned
<1>3. \A im, other \in Image : Q[im] = Q[other] /\ Q[im] # Null => im = other
  BY DEF Owned
<1>4. ASSUME NEW b \in Block, g[b] # Free
      PROVE  \E im \in Image : Q[im] = b
  <2>1. h[b] # Free /\ ~ \E im \in Image : im \in D /\ P[im] = b
    BY <1>4
  <2>2. PICK im \in Image : P[im] = b
    BY <2>1 DEF Owned
  <2> QED BY <2>1, <2>2
<1> QED BY <1>1, <1>2, <1>3, <1>4 DEF Owned

-----------------------------------------------------------------------------
(* Pointers and data of a tree, image by image *)

ImageAt(i, j, k, m) == <<<<i, j, k>>, m>>

HeldAt(n, m, k) == k \in IF m = "PREDICT" THEN n.pred \cap n.dirty ELSE n.conf

(* Every image is one of those, and two of them are one only if all agree. *)
LEMMA ImagesAre ==
  /\ \A im \in Image : \E i \in Fan3, j \in Fan2, k \in Fan1, m \in Mode :
       im = ImageAt(i, j, k, m)
  /\ \A i \in Fan3, j \in Fan2, k \in Fan1, m \in Mode : ImageAt(i, j, k, m) \in Image
BY DEF Image, Slot, ImageAt

(* Its pointer, and whether it holds data, are those of the leaf. *)
LEMMA ImageFields ==
  ASSUME NEW t, NEW i \in Fan3, NEW j \in Fan2, NEW k \in Fan1, NEW m \in Mode
  PROVE  /\ PointersOf(t)[ImageAt(i, j, k, m)] = ImageOf(t.l1[i][j], m, k)
         /\ ImageAt(i, j, k, m) \in HeldIn(t) <=> HeldAt(t.l1[i][j], m, k)
BY ImagesAre DEF PointersOf, HeldIn, Pointer, Holds, ImageAt, HeldAt

(* What every image of a tree points to is a pointer. *)
LEMMA PointersType ==
  ASSUME NEW t \in Tree
  PROVE  PointersOf(t) \in [Image -> Value]
<1>1. ASSUME NEW im \in Image
      PROVE  PointersOf(t)[im] \in Value
  <2>1. PICK i \in Fan3, j \in Fan2, k \in Fan1, m \in Mode : im = ImageAt(i, j, k, m)
    BY ImagesAre
  <2>2. t.l1[i][j] \in L1Node
    BY DEF Tree
  <2>3. ImageOf(t.l1[i][j], m, k) \in Value
    BY <2>2 DEF ImageOf, L1Node
  <2> QED BY <2>1, <2>3, ImageFields
<1> QED BY <1>1 DEF PointersOf

(* A tree u whose leaves differ from t's in one image of one slot. *)
Differs(u, t, i, j, k, m, p) ==
  \A x \in Fan3, y \in Fan2, z \in Fan1, q \in Mode :
    IF <<x, y, z, q>> = <<i, j, k, m>>
      THEN ImageOf(u.l1[x][y], q, z) = p
      ELSE /\ ImageOf(u.l1[x][y], q, z) = ImageOf(t.l1[x][y], q, z)
           /\ HeldAt(u.l1[x][y], q, z) <=> HeldAt(t.l1[x][y], q, z)

OnlyImage(u, t, at, p) ==
  /\ PointersOf(u) = [PointersOf(t) EXCEPT ![at] = p]
  /\ \A im \in Image : im # at => (im \in HeldIn(u) <=> im \in HeldIn(t))

(* It differs in that image only. *)
LEMMA OneImageDiffers ==
  ASSUME NEW t \in Tree, NEW u, NEW i \in Fan3, NEW j \in Fan2, NEW k \in Fan1,
         NEW m \in Mode, NEW p, Differs(u, t, i, j, k, m, p)
  PROVE  OnlyImage(u, t, ImageAt(i, j, k, m), p)
<1> DEFINE at == ImageAt(i, j, k, m)
<1>1. ASSUME NEW im \in Image
      PROVE  /\ PointersOf(u)[im] = IF im = at THEN p ELSE PointersOf(t)[im]
             /\ im # at => (im \in HeldIn(u) <=> im \in HeldIn(t))
  <2>1. PICK x \in Fan3, y \in Fan2, z \in Fan1, q \in Mode : im = ImageAt(x, y, z, q)
    BY ImagesAre
  <2>2. im = at <=> <<x, y, z, q>> = <<i, j, k, m>>
    BY <2>1 DEF ImageAt
  <2>3. /\ PointersOf(t)[im] = ImageOf(t.l1[x][y], q, z)
        /\ PointersOf(u)[im] = ImageOf(u.l1[x][y], q, z)
        /\ im \in HeldIn(t) <=> HeldAt(t.l1[x][y], q, z)
        /\ im \in HeldIn(u) <=> HeldAt(u.l1[x][y], q, z)
    BY <2>1, ImageFields
  <2> QED BY <2>2, <2>3 DEF Differs
<1>2. PointersOf(u) = [PointersOf(t) EXCEPT ![at] = p]
  <2>1. PointersOf(u) = [im \in Image |-> PointersOf(u)[im]]
    BY DEF PointersOf
  <2>2. PointersOf(t) = [im \in Image |-> PointersOf(t)[im]]
    BY DEF PointersOf
  <2> QED BY <1>1, <2>1, <2>2
<1> QED BY <1>1, <1>2 DEF OnlyImage

-----------------------------------------------------------------------------
(* Element-level writes *)

(* A leaf whose slot k was written with p, in mode m. *)
LeafTouched(w, n, m, k, p) ==
  w \in L1Node /\ LeafMarked(w, n, m, k) /\ BytesStored(w, n, m, k, p)

TreeTouched(u, t, i, j, k, p) ==
  /\ u \in Tree /\ WellFormed(u) /\ u.mode = t.mode
  /\ \E w : /\ LeafTouched(w, t.l1[i][j], t.mode, k, p)
            /\ u.l1 = [t.l1 EXCEPT ![i] = [@ EXCEPT ![j] = w]]

(* A write through the tree. *)
LEMMA GetMutTouches ==
  ASSUME NEW t \in Tree, WellFormed(t), NEW i \in Fan3, NEW j \in Fan2,
         NEW k \in Fan1, NEW p \in Value
  PROVE  TreeTouched(GetMut(t, i, j, k, p), t, i, j, k, p)
<1> DEFINE u == GetMut(t, i, j, k, p)
           w == Stored(t.l1[i][j], t.mode, k, p)
<1>1. u \in Tree /\ WellFormed(u)
  BY GetMutKeeps
<1>2. \E o1, n2, o2, n3 : OnePath(t, u, i, j, w, o1, n2, o2, n3)
  <2>1. Linked(t)
    BY DEF WellFormed
  <2> QED BY <2>1, GetMutPath, Zenon
<1>3. t.mode \in Mode /\ t.l1[i][j] \in L1Node
  BY DEF Tree
<1>4. LeafTouched(w, t.l1[i][j], t.mode, k, p)
  BY <1>3, StoredFields DEF LeafTouched
<1> HIDE DEF u, w
<1>5. u.mode = t.mode /\ u.l1 = [t.l1 EXCEPT ![i] = [@ EXCEPT ![j] = w]]
  BY <1>2 DEF OnePath
<1> QED BY <1>1, <1>4, <1>5 DEF TreeTouched, u

(* The leaf that an iteration leaves after its flush, without p and with it. *)
IterFlushed(t, i, j, k) ==
  FlushedL1([t.l1[i][j] EXCEPT !.changed = @ \cup {k},
                               !.dirty = @ \cup IfPredict(t.mode, {k})], t.mode)

IterWritten(t, i, j, k, p) ==
  IF t.mode = "PREDICT" THEN [IterFlushed(t, i, j, k) EXCEPT !.pval[k] = p]
                        ELSE [IterFlushed(t, i, j, k) EXCEPT !.cval[k] = p]

(* A present slot of a block that has no changed slot a flush would misread. *)
IterMay(t, i, j, k) ==
  Present(t, i, j, k) /\ Leftover(t.l1[i][j], t.mode) = {}

(* It keeps its presence masks. *)
LEMMA IterLeaf ==
  ASSUME NEW t \in Tree, WellFormed(t), NEW i \in Fan3, NEW j \in Fan2,
         NEW k \in Fan1, NEW p \in Value, IterMay(t, i, j, k)
  PROVE  LET n == IterFlushed(t, i, j, k)
             w == IterWritten(t, i, j, k, p)
         IN /\ LeafTouched(w, t.l1[i][j], t.mode, k, p)
            /\ w.dirty = n.dirty /\ w.changed = n.changed
            /\ w.pred = t.l1[i][j].pred /\ w.conf = t.l1[i][j].conf
<1> DEFINE m == t.mode
           a == t.l1[i][j]
           b == [a EXCEPT !.changed = @ \cup {k}, !.dirty = @ \cup IfPredict(m, {k})]
           n == FlushedL1(b, m)
           w == IF m = "PREDICT" THEN [n EXCEPT !.pval[k] = p]
                                 ELSE [n EXCEPT !.cval[k] = p]
<1>1. m \in Mode /\ a \in L1Node
  BY DEF Tree
<1>2. /\ k \in a.pred
      /\ a.changed \subseteq IF m = "PREDICT" THEN a.pred \cap a.dirty ELSE a.conf
  BY DEF IterMay, Present, Leftover
<1>3. m = "CONFIRMED" => a.dirty = {}
  BY CleanRoot DEF WellFormed, Linked
<1>4. a.pred \ a.dirty = a.conf \ a.dirty
  BY DEF WellFormed, Linked, LeafLinked
<1> HIDE DEF a, m
<1>5. /\ b \in L1Node /\ b.pred = a.pred /\ b.conf = a.conf
      /\ b.cval = a.cval /\ b.pval = a.pval
      /\ b.changed = a.changed \cup {k}
      /\ b.dirty = a.dirty \cup IfPredict(m, {k})
  BY <1>1 DEF L1Node, IfPredict
<1> HIDE DEF b
<1>6. CASE m = "PREDICT"
  <2>1. n = [b EXCEPT !.dirty = @ \cup b.changed, !.pred = @ \cup b.changed]
    BY <1>6 DEF FlushedL1
  <2> HIDE DEF n
  <2>2. /\ n \in L1Node /\ n.pred = a.pred /\ n.conf = a.conf
        /\ n.cval = a.cval /\ n.pval = a.pval
        /\ n.changed = a.changed \cup {k} /\ n.dirty = a.dirty \cup {k}
    BY <1>2, <1>5, <1>6, <2>1 DEF L1Node, IfPredict
  <2>3. w = [n EXCEPT !.pval[k] = p]
    BY <1>6
  <2> HIDE DEF w
  <2>4. /\ w \in L1Node /\ w.pred = n.pred /\ w.conf = n.conf
        /\ w.changed = n.changed /\ w.dirty = n.dirty
        /\ w.cval = n.cval /\ w.pval = [n.pval EXCEPT ![k] = p]
    BY <2>2, <2>3 DEF L1Node
  <2>5. LeafMarked(w, a, m, k) /\ BytesStored(w, a, m, k, p)
    BY <1>2, <1>6, <2>2, <2>4 DEF LeafMarked, BytesStored, IfConfirmed, IfPredict
  <2> QED BY <2>2, <2>4, <2>5 DEF LeafTouched, a, b, n, m, w, IterFlushed, IterWritten
<1>7. CASE m = "CONFIRMED"
  <2>1. n = [b EXCEPT !.pred = @ \cup b.changed, !.conf = @ \cup b.changed]
    BY <1>7 DEF FlushedL1
  <2> HIDE DEF n
  <2>2. /\ n \in L1Node /\ n.pred = a.pred /\ n.conf = a.conf
        /\ n.cval = a.cval /\ n.pval = a.pval
        /\ n.changed = a.changed \cup {k} /\ n.dirty = a.dirty
    BY <1>1, <1>2, <1>3, <1>4, <1>5, <1>7, <2>1 DEF L1Node, IfPredict
  <2>3. w = [n EXCEPT !.cval[k] = p]
    BY <1>7
  <2> HIDE DEF w
  <2>4. /\ w \in L1Node /\ w.pred = n.pred /\ w.conf = n.conf
        /\ w.changed = n.changed /\ w.dirty = n.dirty
        /\ w.pval = n.pval /\ w.cval = [n.cval EXCEPT ![k] = p]
    BY <2>2, <2>3 DEF L1Node
  <2>5. k \in a.conf
    BY <1>2, <1>3, <1>4, <1>7
  <2>6. LeafMarked(w, a, m, k) /\ BytesStored(w, a, m, k, p)
    BY <1>2, <1>7, <2>2, <2>4, <2>5 DEF LeafMarked, BytesStored, IfConfirmed, IfPredict
  <2> QED BY <2>2, <2>4, <2>6 DEF LeafTouched, a, b, n, m, w, IterFlushed, IterWritten
<1> QED BY <1>1, <1>6, <1>7 DEF Mode

(* A write through an iterator. *)
LEMMA IterMutTouches ==
  ASSUME NEW t \in Tree, WellFormed(t), NEW i \in Fan3, NEW j \in Fan2,
         NEW k \in Fan1, NEW p \in Value, IterMay(t, i, j, k)
  PROVE  TreeTouched(IterMut(t, i, j, k, p), t, i, j, k, p)
<1> DEFINE m == t.mode
           a == t.l1[i][j]
           n == IterFlushed(t, i, j, k)
           s == Propagated(t.l2[i], j, n, m)
           r == Propagated(t.root, i, s, m)
           w == IterWritten(t, i, j, k, p)
           u == IterMut(t, i, j, k, p)
<1>1. /\ m \in Mode /\ a \in L1Node
      /\ t.l2[i] \in Summary(Fan2) /\ t.root \in Summary(Fan3)
  BY DEF Tree
<1>2. /\ LeafTouched(w, a, m, k, p)
      /\ w.dirty = n.dirty /\ w.changed = n.changed
      /\ w.pred = a.pred /\ w.conf = a.conf
  BY IterLeaf
<1>3. u = [t EXCEPT !.root = r, !.l2[i] = s, !.l1[i][j] = w]
  BY DEF IterMut, IterFlushed, IterWritten
<1> HIDE DEF a, n, w, u, m
<1>4. /\ n.changed = a.changed \cup {k} /\ n.dirty = a.dirty \cup IfPredict(m, {k})
  BY <1>2 DEF LeafTouched, LeafMarked
<1>5. n.changed # {} /\ (m = "PREDICT" => n.dirty # {})
  BY <1>4 DEF IfPredict
<1>6. s \in Summary(Fan2) /\ OnlyTouched(s, t.l2[i], m, j)
  BY <1>1, <1>5, PropagatedFields
<1> HIDE DEF s
<1>7. s.changed # {} /\ (m = "PREDICT" => s.dirty # {})
  BY <1>6 DEF OnlyTouched, IfPredict
<1>8. r \in Summary(Fan3) /\ OnlyTouched(r, t.root, m, i)
  BY <1>1, <1>7, PropagatedFields
<1> HIDE DEF r
<1>9. w \in L1Node
  BY <1>2 DEF LeafTouched
<1>10. /\ u.mode = t.mode /\ u.root = r /\ u.own2 = t.own2 /\ u.own1 = t.own1
       /\ u.l2 = [t.l2 EXCEPT ![i] = s]
       /\ u = [mode |-> u.mode, root |-> u.root, own2 |-> u.own2,
               l2 |-> u.l2, own1 |-> u.own1, l1 |-> u.l1]
  BY <1>3 DEF Tree
<1>11. u.l1 = [t.l1 EXCEPT ![i] = [@ EXCEPT ![j] = w]]
  BY <1>3 DEF Tree
<1>12. u \in Tree
  <2>1. u.l1 \in [Fan3 -> [Fan2 -> L1Node]]
    BY <1>9, <1>11 DEF Tree
  <2>2. u.l2 \in [Fan3 -> Summary(Fan2)]
    BY <1>6, <1>10 DEF Tree
  <2> QED BY <1>8, <1>10, <2>1, <2>2 DEF Tree
<1>13. OnePath(t, u, i, j, w, t.own1[i], s, t.own2, r)
  BY <1>10, <1>11 DEF OnePath, Tree
<1>14. LeafNoted(w, a, m, k)
  BY <1>2, <1>4 DEF LeafNoted
<1>15. Linked(u)
  <2>1. Linked(t) /\ Present(t, i, j, k)
    BY DEF WellFormed, IterMay
  <2> QED BY <1>6, <1>8, <1>13, <1>14, <2>1, TouchedPathLinks DEF a, m
<1>16. /\ i \in t.own2 => t.l2[i].confAny # {} \/ t.l2[i].dirty # {}
       /\ j \in t.own1[i] => a.conf # {} \/ a.dirty # {}
  BY DEF WellFormed, NoneIdle, a
<1>17. NoneIdle(u)
  <2>1. NoneIdle(t)
    BY DEF WellFormed
  <2>2. ~ NodeIdle(t.own2, s, i)
    BY <1>6, <1>16 DEF NodeIdle, OnlyTouched
  <2>3. ~ LeafIdle(t.own1[i], w, j)
    BY <1>2, <1>4, <1>16 DEF LeafIdle
  <2> QED BY <1>13, <2>1, <2>2, <2>3, PathKeepsBusy
<1>18. WellFormed(u)
  BY <1>15, <1>17 DEF WellFormed
<1> QED BY <1>2, <1>10, <1>11, <1>12, <1>18 DEF TreeTouched, u, a, m

(* Of all images, a write changes the pointer of the one that it writes. *)
LEMMA TouchedPointers ==
  ASSUME NEW t \in Tree, WellFormed(t), NEW i \in Fan3, NEW j \in Fan2,
         NEW k \in Fan1, NEW p \in Value, NEW u, TreeTouched(u, t, i, j, k, p)
  PROVE  /\ OnlyImage(u, t, ImageAt(i, j, k, t.mode), p)
         /\ ImageAt(i, j, k, t.mode) \in HeldIn(u)
<1> DEFINE m == t.mode
           n == t.l1[i][j]
<1>1. PICK w : /\ LeafTouched(w, n, m, k, p)
               /\ u.l1 = [t.l1 EXCEPT ![i] = [@ EXCEPT ![j] = w]]
  BY DEF TreeTouched
<1>2. n \in L1Node /\ m \in Mode
  BY DEF Tree
<1>3. m = "CONFIRMED" => n.dirty = {}
  BY CleanRoot DEF WellFormed, Linked
<1>4. \A x \in Fan3, y \in Fan2 :
        u.l1[x][y] = IF x = i /\ y = j THEN w ELSE t.l1[x][y]
  BY <1>1 DEF Tree
<1> HIDE DEF n, m
<1>5. ASSUME NEW z \in Fan1, NEW q \in Mode
      PROVE  IF z = k /\ q = m
               THEN ImageOf(w, q, z) = p /\ HeldAt(w, q, z)
               ELSE /\ ImageOf(w, q, z) = ImageOf(n, q, z)
                    /\ HeldAt(w, q, z) <=> HeldAt(n, q, z)
  <2>1. CASE m = "CONFIRMED"
    <3>1. /\ w.conf = n.conf \cup {k} /\ w.dirty = {} /\ n.dirty = {}
          /\ w.cval = [n.cval EXCEPT ![k] = p] /\ w.pval = n.pval
      BY <1>1, <1>3, <2>1
         DEF LeafTouched, LeafMarked, BytesStored, IfConfirmed, IfPredict
    <3>2. w.cval[z] = IF z = k THEN p ELSE n.cval[z]
      BY <1>2, <3>1 DEF L1Node
    <3> QED BY <2>1, <3>1, <3>2 DEF ImageOf, HeldAt, Mode
  <2>2. CASE m = "PREDICT"
    <3>1. /\ w.pred = n.pred \cup {k} /\ w.conf = n.conf
          /\ w.dirty = n.dirty \cup {k} /\ w.cval = n.cval
          /\ w.pval = [n.pval EXCEPT ![k] = p]
      BY <1>1, <2>2
         DEF LeafTouched, LeafMarked, BytesStored, IfConfirmed, IfPredict
    <3>2. w.pval[z] = IF z = k THEN p ELSE n.pval[z]
      BY <1>2, <3>1 DEF L1Node
    <3> QED BY <2>2, <3>1, <3>2 DEF ImageOf, HeldAt, Mode
  <2> QED BY <1>2, <2>1, <2>2 DEF Mode
<1>6. Differs(u, t, i, j, k, m, p)
  BY <1>4, <1>5 DEF n, Differs
<1>7. ImageAt(i, j, k, m) \in HeldIn(u)
  BY <1>2, <1>4, <1>5, ImageFields
<1>8. OnlyImage(u, t, ImageAt(i, j, k, m), p)
  BY <1>2, <1>6, OneImageDiffers
<1> QED BY <1>7, <1>8 DEF m

-----------------------------------------------------------------------------
(* Removal, rollback, teardown *)

(* Bytes that hold no data are NULL: a part of the ownership invariant. *)
Tidy(t) ==
  \A i \in Fan3, j \in Fan2, k \in Fan1, m \in Mode :
    ~ HeldAt(t.l1[i][j], m, k) => ImageOf(t.l1[i][j], m, k) = Null

(* In a state of the invariant every tree is tidy. *)
LEMMA OwnedTidy ==
  ASSUME NEW t, NEW h, Owned(PointersOf(t), HeldIn(t), h)
  PROVE  Tidy(t)
BY ImagesAre, ImageFields DEF Tidy, Owned

SameMasks(u, n) ==
  /\ u.conf = n.conf /\ u.pred = n.pred
  /\ u.dirty = n.dirty /\ u.changed = n.changed

(* Bytes may change in owned leaves: the invariant does not speak of them. *)
LEMMA RewriteBytes ==
  ASSUME NEW t \in Tree, WellFormed(t), NEW f \in [Fan3 -> [Fan2 -> L1Node]],
         \A i \in Fan3, j \in Fan2 :
           /\ SameMasks(f[i][j], t.l1[i][j])
           /\ j \notin t.own1[i] => f[i][j] = t.l1[i][j]
  PROVE  LET u == [t EXCEPT !.l1 = f]
         IN /\ u \in Tree /\ WellFormed(u) /\ u.mode = t.mode /\ u.l1 = f
            /\ u.root = t.root /\ u.own2 = t.own2
            /\ u.l2 = t.l2 /\ u.own1 = t.own1
<1> DEFINE u == [t EXCEPT !.l1 = f]
<1>1. /\ u \in Tree /\ u.mode = t.mode /\ u.root = t.root /\ u.own2 = t.own2
      /\ u.l2 = t.l2 /\ u.own1 = t.own1 /\ u.l1 = f
  BY DEF Tree
<1> HIDE DEF u
<1>2. ASSUME NEW i \in Fan3, NEW j \in Fan2
      PROVE  LeafLinked(u.l2[i], u.own1[i], u.l1[i][j], j)
  <2>1. LeafLinked(t.l2[i], t.own1[i], t.l1[i][j], j)
    BY DEF WellFormed, Linked
  <2>2. /\ SameMasks(u.l1[i][j], t.l1[i][j])
        /\ j \notin t.own1[i] => u.l1[i][j] = t.l1[i][j]
    BY <1>1
  <2> DEFINE a == t.l1[i][j]
             b == u.l1[i][j]
  <2>3. LeafLinked(t.l2[i], t.own1[i], a, j) /\ SameMasks(b, a)
        /\ (j \notin t.own1[i] => b = a)
    BY <2>1, <2>2
  <2> HIDE DEF a, b
  <2>4. LeafLinked(t.l2[i], t.own1[i], b, j)
    BY <2>3 DEF LeafLinked, SummaryOf, SameMasks
  <2> QED BY <1>1, <2>4 DEF b
<1>3. Linked(u)
  BY <1>1, <1>2 DEF WellFormed, Linked
<1>4. NoneIdle(u)
  <2>1. \A i \in Fan3 : t.own1[i] \subseteq Fan2
    BY DEF Tree
  <2> QED BY <1>1, <2>1 DEF WellFormed, NoneIdle, SameMasks
<1>5. WellFormed(u)
  BY <1>3, <1>4 DEF WellFormed
<1> QED BY <1>1, <1>5 DEF u

EmptiedTree(t, i, j, k) == [t EXCEPT !.l1[i][j] = Emptied(@, t.mode, k)]

(* The bytes of a leaf whose pointer was replaced by NULL. *)
BytesEmptied(e, n, m, k) ==
  /\ m = "CONFIRMED" => e.cval = [n.cval EXCEPT ![k] = Null] /\ e.pval = n.pval
  /\ m = "PREDICT" => /\ e.cval = n.cval
                      /\ IF k \in n.pred \cap n.dirty
                           THEN e.pval = [n.pval EXCEPT ![k] = Null]
                           ELSE e.pval = n.pval

(* Its masks stay. *)
LEMMA EmptiedFields ==
  ASSUME NEW n \in L1Node, NEW m \in Mode, NEW k \in Fan1
  PROVE  LET e == Emptied(n, m, k)
         IN e \in L1Node /\ SameMasks(e, n) /\ BytesEmptied(e, n, m, k)
<1> DEFINE e == Emptied(n, m, k)
<1>1. CASE m = "CONFIRMED"
  <2>1. e = [n EXCEPT !.cval[k] = Null]
    BY <1>1 DEF Emptied
  <2> HIDE DEF e
  <2>2. /\ e \in L1Node /\ SameMasks(e, n)
        /\ e.cval = [n.cval EXCEPT ![k] = Null] /\ e.pval = n.pval
    BY <2>1 DEF L1Node, SameMasks, Null
  <2> QED BY <1>1, <2>2 DEF e, BytesEmptied
<1>2. CASE m = "PREDICT" /\ k \in n.pred \cap n.dirty
  <2>1. e = [n EXCEPT !.pval[k] = Null]
    BY <1>2 DEF Emptied
  <2> HIDE DEF e
  <2>2. /\ e \in L1Node /\ SameMasks(e, n)
        /\ e.pval = [n.pval EXCEPT ![k] = Null] /\ e.cval = n.cval
    BY <2>1 DEF L1Node, SameMasks, Null
  <2> QED BY <1>2, <2>2 DEF e, BytesEmptied
<1>3. CASE m = "PREDICT" /\ k \notin n.pred \cap n.dirty
  <2>1. e = n
    BY <1>3 DEF Emptied
  <2> QED BY <1>3, <2>1 DEF SameMasks, BytesEmptied
<1> QED BY <1>1, <1>2, <1>3 DEF Mode

(* The bytes emptied by a removal leave the tree well-formed. *)
LEMMA EmptiedKeeps ==
  ASSUME NEW t \in Tree, WellFormed(t), NEW i \in Fan3, NEW j \in Fan2,
         NEW k \in Fan1, Present(t, i, j, k)
  PROVE  LET u == EmptiedTree(t, i, j, k)
         IN /\ u \in Tree /\ WellFormed(u) /\ u.mode = t.mode /\ Present(u, i, j, k)
            /\ u.l1 = [t.l1 EXCEPT ![i] =
                         [@ EXCEPT ![j] = Emptied(t.l1[i][j], t.mode, k)]]
<1> DEFINE e == Emptied(t.l1[i][j], t.mode, k)
           f == [t.l1 EXCEPT ![i] = [@ EXCEPT ![j] = e]]
           u == EmptiedTree(t, i, j, k)
<1>1. t.mode \in Mode /\ t.l1[i][j] \in L1Node
  BY DEF Tree
<1>2. e \in L1Node /\ SameMasks(e, t.l1[i][j])
  BY <1>1, EmptiedFields
<1>3. LeafLinked(t.l2[i], t.own1[i], t.l1[i][j], j)
  BY DEF WellFormed, Linked
<1>4. j \in t.own1[i]
  BY <1>3 DEF Present, LeafLinked, NoL1
<1>5. u = [t EXCEPT !.l1 = f]
  BY DEF EmptiedTree, Tree
<1> HIDE DEF e, u
<1>6. /\ f \in [Fan3 -> [Fan2 -> L1Node]]
      /\ \A x \in Fan3, y \in Fan2 :
           f[x][y] = IF x = i /\ y = j THEN e ELSE t.l1[x][y]
  BY <1>2 DEF Tree
<1>7. \A x \in Fan3, y \in Fan2 :
        /\ SameMasks(f[x][y], t.l1[x][y])
        /\ y \notin t.own1[x] => f[x][y] = t.l1[x][y]
  BY <1>2, <1>4, <1>6 DEF SameMasks
<1>8. f[i][j] = e
  BY <1>6
<1> HIDE DEF f
<1>9. u \in Tree /\ WellFormed(u) /\ u.mode = t.mode /\ u.l1 = f
  BY <1>5, <1>6, <1>7, RewriteBytes
<1>10. Present(u, i, j, k)
  BY <1>2, <1>8, <1>9 DEF Present, SameMasks
<1> QED BY <1>9, <1>10 DEF u, e, f

(* The leaf that a removal leaves: the default node once it is empty. *)
LeafRemoved(n, m, k) ==
  IF m = "CONFIRMED" /\ UnmarkL1(n, m, k).pred = {} THEN NoL1 ELSE UnmarkL1(n, m, k)

(* A leaf with no slot in either image, and no write to flush. *)
Vacant(n) == n.pred = {} /\ n.conf = {} /\ n.dirty = {}

(* Another leaf is left as it is by a removal, or is vacant: the L2 node went. *)
SiblingLeft(w, n) == w = n \/ (w = NoL1 /\ Vacant(n))

(* A removal changes one leaf, and releases vacant ones with their L2 node. *)
LEMMA RemovalLeaves ==
  ASSUME NEW t \in Tree, WellFormed(t), NEW i \in Fan3, NEW j \in Fan2,
         NEW k \in Fan1, Present(t, i, j, k)
  PROVE  LET u == RemoveSlot(t, i, j, k)
         IN \A x \in Fan3, y \in Fan2 :
              IF x = i /\ y = j
                THEN u.l1[x][y] = LeafRemoved(t.l1[i][j], t.mode, k)
                ELSE SiblingLeft(u.l1[x][y], t.l1[x][y])
<1> DEFINE u == RemoveSlot(t, i, j, k)
           w == UnmarkL1(t.l1[i][j], t.mode, k)
           n2 == Above2(t, i, j, w)
           n3 == Above3(t, i, j, w)
           row == IF Frees2(t, n2) THEN NoLeaves
                                   ELSE [t.l1[i] EXCEPT ![j] = RemovedLeaf(t, w)]
<1>1. u.l1 = [t.l1 EXCEPT ![i] = row]
  <2>1. \E o1, w2, o2 : OneNode(t, u, i, row, o1, w2, o2, n3)
    BY RemoveNode, Zenon
  <2> QED BY <2>1 DEF OneNode
<1>2. w \in L1Node /\ LeafLost(w, t.l1[i][j], t.mode, k)
  BY RemovalLost
<1>3. RemovedLeaf(t, w) = LeafRemoved(t.l1[i][j], t.mode, k)
  BY DEF RemovedLeaf, LeafRemoved
<1>4. Linked(t)
  BY DEF WellFormed
<1> HIDE DEF w, u
<1>5. /\ LeafLinked(n2, t.own1[i], w, j)
      /\ \A c \in Fan2 \ {j} : LeafLinked(n2, t.own1[i], t.l1[i][c], c)
  BY <1>2, <1>4, UnmarkLinks, PresentOwned
<1> HIDE DEF n2
<1>6. \A x \in Fan3, y \in Fan2 :
        u.l1[x][y] = IF x = i THEN row[y] ELSE t.l1[x][y]
  BY <1>1 DEF Tree
<1>7. CASE Frees2(t, n2)
  <2>1. t.root.dirty = {} /\ n2.predAny = {}
    BY <1>4, <1>7 DEF Frees2, Linked
  <2>2. w.pred = {}
    BY <1>5, <2>1 DEF LeafLinked, SummaryOf
  <2>3. ASSUME NEW c \in Fan2 \ {j}
        PROVE  Vacant(t.l1[i][c])
    <3>1. t.l1[i][c].pred = {}
      BY <1>5, <2>1 DEF LeafLinked, SummaryOf
    <3>2. t.l1[i][c].dirty = {}
      BY <1>4, <2>1, CleanRoot
    <3>3. t.l1[i][c].conf = t.l1[i][c].pred
      BY <1>4, <2>1, ConfirmedNode
    <3> QED BY <3>1, <3>2, <3>3 DEF Vacant
  <2>4. \A c \in Fan2 : row[c] = NoL1
    BY <1>7 DEF NoLeaves
  <2>5. LeafRemoved(t.l1[i][j], t.mode, k) = NoL1
    BY <1>3, <1>7, <2>2 DEF RemovedLeaf, Frees2
  <2> HIDE DEF row
  <2> QED BY <1>6, <2>3, <2>4, <2>5 DEF SiblingLeft, u
<1>8. CASE ~ Frees2(t, n2)
  <2>1. \A c \in Fan2 :
          row[c] = IF c = j THEN RemovedLeaf(t, w) ELSE t.l1[i][c]
    BY <1>8 DEF Tree
  <2> HIDE DEF row
  <2> QED BY <1>3, <1>6, <2>1 DEF SiblingLeft, u
<1> QED BY <1>7, <1>8

(* Of all images, a removal empties the one that the mode reads. *)
LEMMA RemovedPointers ==
  ASSUME NEW t \in Tree, WellFormed(t), Tidy(t), NEW i \in Fan3, NEW j \in Fan2,
         NEW k \in Fan1, Present(t, i, j, k)
  PROVE  LET u == RemoveSlot(EmptiedTree(t, i, j, k), i, j, k)
         IN /\ u \in Tree /\ WellFormed(u)
            /\ OnlyImage(u, t, ImageAt(i, j, k, t.mode), Null)
<1> DEFINE s == EmptiedTree(t, i, j, k)
           u == RemoveSlot(s, i, j, k)
           m == t.mode
           n == t.l1[i][j]
           e == Emptied(n, m, k)
           n1 == UnmarkL1(e, m, k)
           w == LeafRemoved(e, m, k)
<1>1. /\ s \in Tree /\ WellFormed(s) /\ s.mode = m /\ Present(s, i, j, k)
      /\ s.l1 = [t.l1 EXCEPT ![i] = [@ EXCEPT ![j] = e]]
  BY EmptiedKeeps
<1> HIDE DEF s
<1>2. u \in Tree /\ WellFormed(u)
  BY <1>1, RemoveKeeps
<1>3. \A x \in Fan3, y \in Fan2 :
        s.l1[x][y] = IF x = i /\ y = j THEN e ELSE t.l1[x][y]
  BY <1>1 DEF Tree
<1>4. \A x \in Fan3, y \in Fan2 :
        IF x = i /\ y = j THEN u.l1[x][y] = w
                          ELSE SiblingLeft(u.l1[x][y], t.l1[x][y])
  <2>1. s.mode = m /\ s.l1[i][j] = e
    BY <1>1, <1>3
  <2> HIDE DEF w, m, e, u
  <2>2. \A x \in Fan3, y \in Fan2 :
          IF x = i /\ y = j
            THEN u.l1[x][y] = LeafRemoved(s.l1[i][j], s.mode, k)
            ELSE SiblingLeft(u.l1[x][y], s.l1[x][y])
    BY <1>1, RemovalLeaves DEF u
  <2> QED BY <1>3, <2>1, <2>2 DEF w
<1>5. m \in Mode /\ n \in L1Node
  BY DEF Tree
<1>6. e \in L1Node /\ SameMasks(e, n) /\ BytesEmptied(e, n, m, k)
  BY <1>5, EmptiedFields
<1> HIDE DEF e
<1>7. LeafUnmarked(n1, e, m, k) /\ n1.cval = e.cval /\ n1.pval = e.pval
  BY <1>5, <1>6, UnmarkL1Fields
<1>8. m = "CONFIRMED" => n.dirty = {}
  BY CleanRoot DEF WellFormed, Linked
<1>9. n.pred \ n.dirty = n.conf \ n.dirty
  BY DEF WellFormed, Linked, LeafLinked
<1>10. \A z \in Fan1, q \in Mode : ~ HeldAt(n, q, z) => ImageOf(n, q, z) = Null
  BY DEF Tidy
<1>11. \A x \in Fan3, y \in Fan2, z \in Fan1, q \in Mode :
         ~ (x = i /\ y = j) =>
           /\ ImageOf(u.l1[x][y], q, z) = ImageOf(t.l1[x][y], q, z)
           /\ HeldAt(u.l1[x][y], q, z) <=> HeldAt(t.l1[x][y], q, z)
  <2> SUFFICES ASSUME NEW x \in Fan3, NEW y \in Fan2, NEW z \in Fan1, NEW q \in Mode,
                      ~ (x = i /\ y = j)
               PROVE  /\ ImageOf(u.l1[x][y], q, z) = ImageOf(t.l1[x][y], q, z)
                      /\ HeldAt(u.l1[x][y], q, z) <=> HeldAt(t.l1[x][y], q, z)
    OBVIOUS
  <2> HIDE DEF u, w
  <2>1. SiblingLeft(u.l1[x][y], t.l1[x][y])
    BY <1>4
  <2>2. CASE Vacant(t.l1[x][y]) /\ u.l1[x][y] = NoL1
    <3>1. ~ HeldAt(t.l1[x][y], q, z)
      BY <2>2 DEF Vacant, HeldAt
    <3>2. ImageOf(t.l1[x][y], q, z) = Null
      BY <3>1 DEF Tidy
    <3>3. ~ HeldAt(NoL1, q, z) /\ ImageOf(NoL1, q, z) = Null
      BY DEF HeldAt, ImageOf, NoL1, Null
    <3> QED BY <2>2, <3>1, <3>2, <3>3
  <2> QED BY <2>1, <2>2 DEF SiblingLeft
<1>12. w = IF m = "CONFIRMED" /\ n1.pred = {} THEN NoL1 ELSE n1
  BY DEF LeafRemoved
<1> HIDE DEF n1, n, m, u, w
<1>13. ASSUME NEW z \in Fan1, NEW q \in Mode
       PROVE  IF z = k /\ q = m
                THEN ImageOf(w, q, z) = Null
                ELSE /\ ImageOf(w, q, z) = ImageOf(n, q, z)
                     /\ HeldAt(w, q, z) <=> HeldAt(n, q, z)
  <2>1. CASE m = "CONFIRMED"
    <3>1. /\ n1.pred = n.pred \ {k} /\ n1.conf = n.conf \ {k}
          /\ n1.dirty = {} /\ n.dirty = {} /\ n.pred = n.conf
          /\ n1.cval = [n.cval EXCEPT ![k] = Null] /\ n1.pval = n.pval
      BY <1>6, <1>7, <1>8, <1>9, <2>1
         DEF LeafUnmarked, SameMasks, BytesEmptied, IfConfirmed, IfPredict
    <3>2. n1.cval[z] = IF z = k THEN Null ELSE n.cval[z]
      BY <1>5, <3>1 DEF L1Node
    <3>3. CASE n1.pred = {}
      <4>1. w = NoL1
        BY <1>12, <2>1, <3>3
      <4>2. ImageOf(NoL1, q, z) = Null /\ ~ HeldAt(NoL1, q, z)
        BY DEF ImageOf, HeldAt, NoL1, Null
      <4>3. ~ (z = k /\ q = m) => ~ HeldAt(n, q, z)
        BY <2>1, <3>1, <3>3 DEF HeldAt, Mode
      <4> QED BY <1>10, <4>1, <4>2, <4>3
    <3>4. CASE n1.pred # {}
      <4>1. w = n1
        BY <1>12, <3>4
      <4> QED BY <2>1, <3>1, <3>2, <4>1 DEF ImageOf, HeldAt, Mode
    <3> QED BY <3>3, <3>4
  <2>2. CASE m = "PREDICT"
    <3>1. w = n1
      BY <1>12, <2>2
    <3>2. /\ n1.pred = n.pred \ {k} /\ n1.conf = n.conf
          /\ n1.dirty = n.dirty \cup {k} /\ n1.cval = n.cval
          /\ n1.pval = e.pval
      BY <1>6, <1>7, <2>2 DEF LeafUnmarked, SameMasks, BytesEmptied, IfConfirmed, IfPredict
    <3>3. n1.pval[z] = IF z = k THEN Null ELSE n.pval[z]
      <4>1. CASE k \in n.pred \cap n.dirty
        BY <1>5, <1>6, <2>2, <3>2, <4>1 DEF L1Node, BytesEmptied
      <4>2. CASE k \notin n.pred \cap n.dirty
        <5>1. n.pval[k] = Null
          BY <1>5, <1>10, <2>2, <4>2 DEF HeldAt, ImageOf
        <5> QED BY <1>6, <2>2, <3>2, <4>2, <5>1 DEF BytesEmptied
      <4> QED BY <4>1, <4>2
    <3> QED BY <2>2, <3>1, <3>2, <3>3 DEF ImageOf, HeldAt, Mode
  <2> QED BY <1>5, <2>1, <2>2 DEF Mode
<1>14. Differs(u, t, i, j, k, m, Null)
  BY <1>4, <1>11, <1>13 DEF n, Differs
<1>15. OnlyImage(u, t, ImageAt(i, j, k, m), Null)
  BY <1>5, <1>14, OneImageDiffers
<1> QED BY <1>2, <1>15 DEF m, u, s

(* A dirty leaf is on the path of the rollback's walk. *)
LEMMA DirtyIsWalked ==
  ASSUME NEW t \in Tree, WellFormed(t), NEW i \in Fan3, NEW j \in Fan2,
         t.l1[i][j].dirty # {}
  PROVE  RollbackReaches(t, i, j)
<1>1. /\ NodeLinked(t.root, t.own2, t.l2[i], t.own1[i], i)
      /\ LeafLinked(t.l2[i], t.own1[i], t.l1[i][j], j)
  BY DEF WellFormed, Linked
<1>2. j \in t.l2[i].dirty /\ j \in t.own1[i]
  BY <1>1 DEF LeafLinked, SummaryOf, NoL1
<1>3. i \in t.root.dirty /\ i \in t.own2
  BY <1>1, <1>2 DEF NodeLinked, SummaryOf, NoSummary
<1> QED BY <1>2, <1>3 DEF RollbackReaches, RollbackReaches2, Touched

Walked(t) == {v \in Fan3 \X Fan2 : RollbackReaches(t, v[1], v[2])}

DroppedTree(t) ==
  [t EXCEPT !.l1 = [i \in Fan3 |-> [j \in Fan2 |->
     IF <<i, j>> \in Walked(t) THEN Dropped(t.l1[i][j]) ELSE t.l1[i][j]]]]

(* The leaf whose victims were dropped. *)
LEMMA DroppedFields ==
  ASSUME NEW n \in L1Node
  PROVE  /\ Dropped(n) \in L1Node /\ SameMasks(Dropped(n), n)
         /\ Dropped(n).cval = n.cval
         /\ Dropped(n).pval = [k \in Fan1 |-> IF k \in Victims(n) THEN Null
                                                                 ELSE n.pval[k]]
BY DEF Dropped, SameMasks, L1Node, Null

(* The bytes emptied by a rollback leave the tree well-formed, leaf by leaf. *)
LEMMA DroppedKeeps ==
  ASSUME NEW t \in Tree, WellFormed(t)
  PROVE  LET u == DroppedTree(t)
         IN /\ u \in Tree /\ WellFormed(u) /\ u.mode = t.mode
            /\ u.root = t.root /\ u.own2 = t.own2
            /\ u.l2 = t.l2 /\ u.own1 = t.own1
            /\ \A i \in Fan3, j \in Fan2 :
                 u.l1[i][j] = IF RollbackReaches(t, i, j) THEN Dropped(t.l1[i][j])
                                                          ELSE t.l1[i][j]
<1> DEFINE f == [i \in Fan3 |-> [j \in Fan2 |->
                   IF <<i, j>> \in Walked(t) THEN Dropped(t.l1[i][j]) ELSE t.l1[i][j]]]
           u == DroppedTree(t)
<1>1. \A i \in Fan3, j \in Fan2 : t.l1[i][j] \in L1Node
  BY DEF Tree
<1>2. \A i \in Fan3, j \in Fan2 :
        f[i][j] = IF RollbackReaches(t, i, j) THEN Dropped(t.l1[i][j])
                                              ELSE t.l1[i][j]
  BY DEF Walked
<1>3. \A i \in Fan3, j \in Fan2 :
        /\ f[i][j] \in L1Node /\ SameMasks(f[i][j], t.l1[i][j])
        /\ j \notin t.own1[i] => f[i][j] = t.l1[i][j]
  BY <1>1, <1>2, DroppedFields DEF SameMasks, RollbackReaches
<1>4. f \in [Fan3 -> [Fan2 -> L1Node]]
  BY <1>3
<1>5. u = [t EXCEPT !.l1 = f]
  BY DEF DroppedTree
<1> HIDE DEF f, u
<1> QED BY <1>2, <1>3, <1>4, <1>5, RewriteBytes DEF u

(* After a rollback no predicted image holds a pointer; the others stay. *)
LEMMA RolledPointers ==
  ASSUME NEW t \in Tree, WellFormed(t), Tidy(t),
         NEW i \in Fan3, NEW j \in Fan2, NEW k \in Fan1
  PROVE  LET w == Rollback(DroppedTree(t)).l1[i][j]
             n == t.l1[i][j]
         IN /\ ImageOf(w, "PREDICT", k) = Null /\ ~ HeldAt(w, "PREDICT", k)
            /\ ImageOf(w, "CONFIRMED", k) = ImageOf(n, "CONFIRMED", k)
            /\ HeldAt(w, "CONFIRMED", k) <=> HeldAt(n, "CONFIRMED", k)
<1> DEFINE s == DroppedTree(t)
           n == t.l1[i][j]
           d == s.l1[i][j]
           w == Rollback(s).l1[i][j]
<1>1. /\ s \in Tree /\ WellFormed(s)
      /\ s.root = t.root /\ s.own2 = t.own2 /\ s.l2 = t.l2 /\ s.own1 = t.own1
      /\ d = IF RollbackReaches(t, i, j) THEN Dropped(n) ELSE n
  BY DroppedKeeps
<1> HIDE DEF s
<1>2. n \in L1Node
  BY DEF Tree
<1>3. RollbackReaches(s, i, j) <=> RollbackReaches(t, i, j)
  BY <1>1 DEF RollbackReaches, RollbackReaches2, Touched
<1>4. w = IF RollbackFrees2(s, i) THEN NoL1
          ELSE IF RollbackReaches(s, i, j) THEN RolledL1(d) ELSE d
  <2>1. CASE Touched(s.root) = {}
    <3>1. Rollback(s) = s
      BY <2>1 DEF Rollback
    <3>2. ~ RollbackReaches(s, i, j) /\ ~ RollbackFrees2(s, i)
      BY <2>1 DEF RollbackReaches, RollbackFrees2, RollbackReaches2
    <3> QED BY <3>1, <3>2
  <2>2. CASE Touched(s.root) # {}
    <3> DEFINE f == [x \in Fan3 |-> [y \in Fan2 |->
                       IF RollbackFrees2(s, x) THEN NoL1
                       ELSE IF RollbackReaches(s, x, y) THEN RolledL1(s.l1[x][y])
                                                        ELSE s.l1[x][y]]]
    <3>1. Rollback(s).l1 = f
      BY <1>1, <2>2, Zenon DEF Rollback, Tree
    <3>2. f[i][j] = IF RollbackFrees2(s, i) THEN NoL1
                    ELSE IF RollbackReaches(s, i, j) THEN RolledL1(d) ELSE d
      OBVIOUS
    <3> QED BY <3>1, <3>2
  <2> QED BY <2>1, <2>2
<1>5. /\ ~ HeldAt(n, "CONFIRMED", k) => ImageOf(n, "CONFIRMED", k) = Null
      /\ ~ HeldAt(n, "PREDICT", k) => ImageOf(n, "PREDICT", k) = Null
  BY DEF Tidy, Mode
<1>6. n.dirty # {} => RollbackReaches(t, i, j)
  BY DirtyIsWalked
<1>7. RollbackFrees2(s, i) => n.conf = {}
  <2> SUFFICES ASSUME RollbackFrees2(s, i) PROVE n.conf = {}
    OBVIOUS
  <2>1. t.l2[i].confAny = {}
    BY <1>1 DEF RollbackFrees2
  <2>2. LeafLinked(t.l2[i], t.own1[i], n, j)
    BY DEF WellFormed, Linked
  <2> QED BY <2>1, <2>2 DEF LeafLinked, SummaryOf
<1> HIDE DEF n, d, w
<1>8. CASE RollbackFrees2(s, i)
  <2>1. w = NoL1 /\ n.conf = {}
    BY <1>4, <1>7, <1>8
  <2> QED BY <1>5, <2>1 DEF NoL1, HeldAt, ImageOf, Null, n, w, s
<1>9. CASE RollbackReaches(t, i, j) /\ ~ RollbackFrees2(s, i)
  <2>1. d = Dropped(n) /\ w = RolledL1(d)
    BY <1>1, <1>3, <1>4, <1>9
  <2>2. /\ d \in L1Node /\ d.conf = n.conf /\ d.cval = n.cval
        /\ d.pval[k] = IF k \in n.pred \cap n.dirty THEN Null ELSE n.pval[k]
    BY <1>2, <2>1, DroppedFields DEF SameMasks, Victims
  <2>3. d.pval[k] = Null
    BY <1>5, <2>2 DEF HeldAt, ImageOf
  <2>4. CASE d.conf = {}
    <3>1. w = NoL1
      BY <2>1, <2>4 DEF RolledL1
    <3> QED BY <1>5, <2>2, <2>4, <3>1 DEF NoL1, HeldAt, ImageOf, Null, n, w, s
  <2>5. CASE d.conf # {}
    <3>1. w = [d EXCEPT !.pred = d.conf, !.dirty = {}, !.changed = {}]
      BY <2>1, <2>5 DEF RolledL1
    <3>2. /\ w.conf = d.conf /\ w.dirty = {} /\ w.cval = d.cval /\ w.pval = d.pval
      BY <2>2, <3>1 DEF L1Node
    <3> QED BY <2>2, <2>3, <3>2 DEF HeldAt, ImageOf, n, w, s
  <2> QED BY <2>4, <2>5
<1>10. CASE ~ RollbackReaches(t, i, j) /\ ~ RollbackFrees2(s, i)
  <2>1. w = n /\ n.dirty = {}
    BY <1>1, <1>3, <1>4, <1>6, <1>10
  <2> QED BY <1>5, <2>1 DEF HeldAt, ImageOf, n, w, s
<1> QED BY <1>8, <1>9, <1>10

-----------------------------------------------------------------------------
(* The invariant *)

(* It holds at first: no image of an empty tree points anywhere. *)
LEMMA NewTreePointers ==
  /\ \A im \in Image : PointersOf(NewTree)[im] = Null
  /\ HeldIn(NewTree) = {}
<1>1. \A i \in Fan3, j \in Fan2 : NewTree.l1[i][j] = NoL1
  BY DEF NewTree, NoLeaves
<1>2. \A k \in Fan1, m \in Mode : ImageOf(NoL1, m, k) = Null /\ ~ HeldAt(NoL1, m, k)
  BY DEF ImageOf, HeldAt, NoL1, Null
<1>3. ASSUME NEW im \in Image
      PROVE  PointersOf(NewTree)[im] = Null /\ im \notin HeldIn(NewTree)
  <2>1. PICK i \in Fan3, j \in Fan2, k \in Fan1, m \in Mode : im = ImageAt(i, j, k, m)
    BY ImagesAre
  <2> QED BY <1>1, <1>2, <2>1, ImageFields
<1> QED BY <1>3 DEF HeldIn

(* An empty tree and an unused heap satisfy the invariant. *)
LEMMA BufferInit == Init => BInv
<1> SUFFICES ASSUME Init PROVE BInv
  OBVIOUS
<1>1. tree \in Tree /\ WellFormed(tree)
  BY NewTreeType, NewTreeWellFormed DEF Init
<1>2. Owned(PointersOf(tree), HeldIn(tree), heap)
  BY NewTreePointers DEF Init, Owned
<1>3. heap \in [Block -> Seq(Elem) \cup {Free}]
  BY DEF Init
<1> QED BY <1>1, <1>2, <1>3, OwnedIs DEF BInv, Typed

(* What the invariant says of the slot that a call is about. *)
LEMMA SlotFacts ==
  ASSUME BInv, NEW i \in Fan3, NEW j \in Fan2, NEW k \in Fan1
  PROVE  LET n == tree.l1[i][j]
             m == tree.mode
             old == PointersOf(tree)[ImageAt(i, j, k, m)]
         IN /\ tree \in Tree /\ WellFormed(tree) /\ Tidy(tree)
            /\ Owned(PointersOf(tree), HeldIn(tree), heap)
            /\ m \in Mode /\ old \in Value
            /\ LivePointer(n, m, k) = old
            /\ (IF m = "PREDICT" /\ k \notin n.dirty THEN Null
                                                    ELSE ImageOf(n, m, k)) = old
            /\ LiveList(n, m, k) \in Seq(Elem)
            /\ old # Null => heap[old] # Free
<1> DEFINE n == tree.l1[i][j]
           m == tree.mode
           old == PointersOf(tree)[ImageAt(i, j, k, m)]
<1>1. /\ tree \in Tree /\ WellFormed(tree) /\ Tidy(tree)
      /\ Owned(PointersOf(tree), HeldIn(tree), heap)
  BY OwnedIs, OwnedTidy DEF BInv, Typed
<1>2. m \in Mode
  BY <1>1 DEF Tree
<1>3. old \in Value
  BY <1>1, <1>2, ImagesAre, PointersType
<1>4. old = ImageOf(n, m, k)
  BY <1>2, ImageFields
<1>5. ~ HeldAt(n, m, k) => old = Null
  BY <1>1, <1>2, <1>4 DEF Tidy
<1>6. LivePointer(n, m, k) = old
  BY <1>4, <1>5 DEF LivePointer, NeedsCow, HeldAt
<1>7. (IF m = "PREDICT" /\ k \notin n.dirty THEN Null ELSE ImageOf(n, m, k)) = old
  BY <1>4, <1>5 DEF HeldAt
<1>8. ASSUME NEW q \in Mode
      PROVE  ListOf(ImageOf(n, q, k)) \in Seq(Elem)
  <2> DEFINE p == PointersOf(tree)[ImageAt(i, j, k, q)]
  <2>1. p = ImageOf(n, q, k) /\ p \in Value
    <3>1. PointersOf(tree) \in [Image -> Value]
      BY <1>1, PointersType
    <3>2. ImageAt(i, j, k, q) \in Image
      BY ImagesAre
    <3>3. p = ImageOf(n, q, k)
      BY ImageFields
    <3> QED BY <3>1, <3>2, <3>3
  <2>2. p # Null => heap[p] # Free
    BY <1>1, ImagesAre DEF Owned
  <2>3. p # Null => heap[p] \in Seq(Elem)
    BY <2>1, <2>2 DEF BInv, Typed, Block
  <2> QED BY <2>1, <2>3 DEF ListOf
<1>9. LiveList(n, m, k) \in Seq(Elem)
  <2>1. CASE NeedsCow(n, m, k) /\ k \in n.conf
    <3>1. ImageOf(n, "CONFIRMED", k) = n.cval[k]
      BY DEF ImageOf
    <3>2. ListOf(n.cval[k]) \in Seq(Elem)
      BY <1>8, <3>1 DEF Mode
    <3> QED BY <2>1, <3>2 DEF LiveList
  <2>2. CASE ~ (NeedsCow(n, m, k) /\ k \in n.conf)
    <3>1. ListOf(old) \in Seq(Elem)
      BY <1>2, <1>4, <1>8
    <3> QED BY <1>6, <2>2, <3>1 DEF LiveList
  <2> QED BY <2>1, <2>2
<1>10. old # Null => heap[old] # Free
  BY <1>1, <1>2, ImagesAre DEF Owned
<1> QED BY <1>1, <1>2, <1>3, <1>6, <1>7, <1>9, <1>10

(* What a push, a pop and a clear have in common: the slot gets a pointer to
   the list it now has, and the heap changes for that alone. *)
ListIn(h, p) == IF p = Null THEN <<>> ELSE h[p]

PointsAnew(i, j, k, p) ==
  Repointed(PointersOf(tree), HeldIn(tree), heap,
            PointersOf(tree'), HeldIn(tree'), heap', ImageAt(i, j, k, tree.mode), p)

ElementWrite(i, j, k, list) ==
  \E p \in Value : /\ TreeTouched(tree', tree, i, j, k, p)
                   /\ PointsAnew(i, j, k, p)
                   /\ heap' \in [Block -> Seq(Elem) \cup {Free}]
                   /\ ListIn(heap', p) = list

(* A write by one of its two ways is what TreeTouched says. *)
LEMMA TouchTouches ==
  ASSUME BInv, NEW i \in Fan3, NEW j \in Fan2, NEW k \in Fan1, NEW p \in Value,
         Touch(i, j, k, p), misread' = {}
  PROVE  /\ tree' \in Tree /\ WellFormed(tree') /\ TreeTouched(tree', tree, i, j, k, p)
         /\ OnlyImage(tree', tree, ImageAt(i, j, k, tree.mode), p)
         /\ ImageAt(i, j, k, tree.mode) \in HeldIn(tree')
<1>1. tree \in Tree /\ WellFormed(tree)
  BY DEF BInv, Typed
<1>2. TreeTouched(tree', tree, i, j, k, p)
  <2>1. CASE TouchTree(i, j, k, p)
    BY <1>1, <2>1, GetMutTouches DEF TouchTree
  <2>2. CASE TouchBlock(i, j, k, p)
    <3>1. {<<i, j, x>> : x \in Leftover(tree.l1[i][j], tree.mode)} = {}
      BY <2>2 DEF TouchBlock
    <3>2. IterMay(tree, i, j, k)
      BY <2>2, <3>1 DEF TouchBlock, IterMay
    <3> QED BY <1>1, <2>2, <3>2, IterMutTouches DEF TouchBlock
  <2> QED BY <2>1, <2>2 DEF Touch
<1>3. tree' \in Tree /\ WellFormed(tree')
  BY <1>2 DEF TreeTouched
<1> QED BY <1>1, <1>2, <1>3, TouchedPointers

(* A call that gives one image a pointer, its own or one that was free. *)
LEMMA OnePointerKeeps ==
  ASSUME BInv, NEW i \in Fan3, NEW j \in Fan2, NEW k \in Fan1, NEW p \in Value,
         tree' \in Tree, WellFormed(tree'), PointsAnew(i, j, k, p),
         heap' \in [Block -> Seq(Elem) \cup {Free}]
  PROVE  BInv'
<1> DEFINE at == ImageAt(i, j, k, tree.mode)
<1>1. /\ tree \in Tree /\ tree.mode \in Mode
      /\ Owned(PointersOf(tree), HeldIn(tree), heap)
  BY SlotFacts
<1>2. at \in Image /\ PointersOf(tree) \in [Image -> Value]
  BY <1>1, ImagesAre, PointersType
<1>3. Repointed(PointersOf(tree), HeldIn(tree), heap,
                PointersOf(tree'), HeldIn(tree'), heap', at, p)
  BY DEF PointsAnew
<1> HIDE DEF at
<1>4. Owned(PointersOf(tree'), HeldIn(tree'), heap')
  BY <1>1, <1>2, <1>3, OneImage
<1> QED BY <1>4, OwnedIsAfter DEF BInv, Typed

(* An element-level write preserves the invariant. *)
LEMMA ElementWriteKeeps ==
  ASSUME BInv, NEW i \in Fan3, NEW j \in Fan2, NEW k \in Fan1, NEW list,
         ElementWrite(i, j, k, list)
  PROVE  BInv'
BY OnePointerKeeps DEF ElementWrite, TreeTouched

(* A push. *)
LEMMA PushWrites ==
  ASSUME BInv, NEW i \in Fan3, NEW j \in Fan2, NEW k \in Fan1, Push(i, j, k),
         misread' = {}
  PROVE  \E e \in Elem : ElementWrite(i, j, k, Append(LiveList(tree.l1[i][j], tree.mode, k), e))
<1> DEFINE n == tree.l1[i][j]
           m == tree.mode
           old == PointersOf(tree)[ImageAt(i, j, k, m)]
           list == LiveList(n, m, k)
<1>1. /\ old \in Value /\ LivePointer(n, m, k) = old
      /\ list \in Seq(Elem)
  BY SlotFacts
<1> HIDE DEF old, list
<1>2. PICK p \in Unused \cup ({old} \ {Null}), e \in Elem :
        /\ Touch(i, j, k, p)
        /\ heap' = [Freed({old}) EXCEPT ![p] = Append(list, e)]
  BY <1>1 DEF Push, list
<1>3. p \in Block /\ (p = old \/ heap[p] = Free)
  BY <1>1, <1>2 DEF Unused, Block
<1>4. Append(list, e) \in Seq(Elem)
  BY <1>1
<1>5. \A b \in Block : heap'[b] = IF b = p THEN Append(list, e)
                                  ELSE IF b = old THEN Free ELSE heap[b]
  BY <1>2, <1>3 DEF Freed
<1>6. heap \in [Block -> Seq(Elem) \cup {Free}]
  BY DEF BInv, Typed
<1>7. heap' \in [Block -> Seq(Elem) \cup {Free}]
  BY <1>2, <1>3, <1>4, <1>6 DEF Freed
<1>8. Append(list, e) # Free
  BY <1>4, ElemAssumption
<1>9. old # Null /\ old # p => heap'[old] = Free
  BY <1>1, <1>5 DEF Block
<1>10. heap'[p] # Free
  BY <1>3, <1>5, <1>8
<1>11. \A b \in Block : b # p /\ b # old => heap'[b] = heap[b]
  BY <1>5
<1>12. p \in Value
  BY <1>3 DEF Block
<1>13. /\ tree' \in Tree /\ WellFormed(tree')
       /\ OnlyImage(tree', tree, ImageAt(i, j, k, tree.mode), p)
       /\ ImageAt(i, j, k, tree.mode) \in HeldIn(tree')
  BY <1>2, <1>12, TouchTouches
<1>14. TreeTouched(tree', tree, i, j, k, p)
  BY <1>2, <1>12, TouchTouches
<1>15. PointsAnew(i, j, k, p)
  BY <1>3, <1>9, <1>10, <1>11, <1>13 DEF PointsAnew, Repointed, OnlyImage, old
<1>16. ListIn(heap', p) = Append(list, e)
  BY <1>3, <1>5 DEF ListIn, Block
<1> QED BY <1>7, <1>12, <1>14, <1>15, <1>16 DEF ElementWrite, list

(* The list less its last element. *)
LEMMA FrontType ==
  ASSUME NEW list \in Seq(Elem), list # <<>>
  PROVE  Front(list) \in Seq(Elem)
<1>1. Len(list) \in Nat /\ Len(list) # 0
  BY EmptySeq
<1>2. SubSeq(list, 1, Len(list) - 1) \in Seq(Elem)
  BY <1>1, SubSeqProperties
<1> QED BY <1>2 DEF Front

(* A pop. *)
LEMMA PopWrites ==
  ASSUME BInv, NEW i \in Fan3, NEW j \in Fan2, NEW k \in Fan1, Pop(i, j, k),
         misread' = {}
  PROVE  /\ LiveList(tree.l1[i][j], tree.mode, k) # <<>>
         /\ ElementWrite(i, j, k, Front(LiveList(tree.l1[i][j], tree.mode, k)))
<1> DEFINE n == tree.l1[i][j]
           m == tree.mode
           old == PointersOf(tree)[ImageAt(i, j, k, m)]
           list == LiveList(n, m, k)
<1>1. /\ old \in Value /\ LivePointer(n, m, k) = old
      /\ list \in Seq(Elem)
  BY SlotFacts
<1> HIDE DEF old, list
<1>2. list # <<>>
  BY DEF Pop, list
<1>3. PICK p \in IF old = Null THEN Unused ELSE {old} :
        Touch(i, j, k, p) /\ heap' = [heap EXCEPT ![p] = Front(list)]
  BY <1>1 DEF Pop, list
<1>4. p \in Block /\ (p = old \/ (old = Null /\ heap[p] = Free))
  BY <1>1, <1>3 DEF Unused, Block
<1>5. Front(list) \in Seq(Elem)
  BY <1>1, <1>2, FrontType
<1>6. heap \in [Block -> Seq(Elem) \cup {Free}]
  BY DEF BInv, Typed
<1>7. heap' \in [Block -> Seq(Elem) \cup {Free}]
  BY <1>3, <1>5, <1>6
<1>8. heap'[p] # Free
  BY <1>3, <1>4, <1>5, <1>6, ElemAssumption
<1>9. \A b \in Block : b # p /\ b # old => heap'[b] = heap[b]
  BY <1>3, <1>6
<1>10. p \in Value
  BY <1>4 DEF Block
<1>11. /\ tree' \in Tree /\ WellFormed(tree')
       /\ OnlyImage(tree', tree, ImageAt(i, j, k, tree.mode), p)
       /\ ImageAt(i, j, k, tree.mode) \in HeldIn(tree')
  BY <1>3, <1>10, TouchTouches
<1>12. TreeTouched(tree', tree, i, j, k, p)
  BY <1>3, <1>10, TouchTouches
<1>13. PointsAnew(i, j, k, p)
  BY <1>4, <1>8, <1>9, <1>11 DEF PointsAnew, Repointed, OnlyImage, old
<1>14. ListIn(heap', p) = Front(list)
  BY <1>3, <1>4, <1>6 DEF ListIn, Block
<1> QED BY <1>2, <1>7, <1>10, <1>12, <1>13, <1>14 DEF ElementWrite, list

(* A clear. *)
LEMMA ClearWrites ==
  ASSUME BInv, NEW i \in Fan3, NEW j \in Fan2, NEW k \in Fan1, Clear(i, j, k),
         misread' = {}
  PROVE  ElementWrite(i, j, k, <<>>)
<1> DEFINE n == tree.l1[i][j]
           m == tree.mode
           old == PointersOf(tree)[ImageAt(i, j, k, m)]
<1>1. old \in Value /\ LivePointer(n, m, k) = old
  BY SlotFacts
<1> HIDE DEF old
<1>2. /\ Touch(i, j, k, old)
      /\ heap' = [b \in Block |-> IF b = old THEN <<>> ELSE heap[b]]
  BY <1>1 DEF Clear
<1>3. heap \in [Block -> Seq(Elem) \cup {Free}] /\ <<>> \in Seq(Elem)
  BY DEF BInv, Typed
<1>4. heap' \in [Block -> Seq(Elem) \cup {Free}]
  BY <1>2, <1>3
<1>5. old # Null => heap'[old] # Free
  BY <1>1, <1>2, <1>3, ElemAssumption DEF Block
<1>6. \A b \in Block : b # old => heap'[b] = heap[b]
  BY <1>2
<1>7. /\ tree' \in Tree /\ WellFormed(tree')
      /\ OnlyImage(tree', tree, ImageAt(i, j, k, tree.mode), old)
      /\ ImageAt(i, j, k, tree.mode) \in HeldIn(tree')
  BY <1>1, <1>2, TouchTouches
<1>8. TreeTouched(tree', tree, i, j, k, old)
  BY <1>1, <1>2, TouchTouches
<1>9. PointsAnew(i, j, k, old)
  BY <1>5, <1>6, <1>7 DEF PointsAnew, Repointed, OnlyImage, old
<1>10. ListIn(heap', old) = <<>>
  BY <1>1, <1>2 DEF ListIn, Block
<1> QED BY <1>1, <1>4, <1>8, <1>9, <1>10 DEF ElementWrite

(* A removal: the image that the mode writes points nowhere. *)
LEMMA RemoveWrites ==
  ASSUME BInv, NEW i \in Fan3, NEW j \in Fan2, NEW k \in Fan1, RemoveBuffer(i, j, k)
  PROVE  /\ Present(tree, i, j, k)
         /\ tree' = RemoveSlot(EmptiedTree(tree, i, j, k), i, j, k)
         /\ tree' \in Tree /\ WellFormed(tree') /\ PointsAnew(i, j, k, Null)
         /\ heap' \in [Block -> Seq(Elem) \cup {Free}]
<1> DEFINE n == tree.l1[i][j]
           m == tree.mode
           old == PointersOf(tree)[ImageAt(i, j, k, m)]
<1>1. /\ tree \in Tree /\ WellFormed(tree) /\ Tidy(tree) /\ old \in Value
      /\ (IF m = "PREDICT" /\ k \notin n.dirty THEN Null ELSE ImageOf(n, m, k)) = old
  BY SlotFacts
<1> HIDE DEF old
<1>2. /\ Present(tree, i, j, k) /\ heap' = Freed({old})
      /\ tree' = RemoveSlot([tree EXCEPT !.l1[i][j] = Emptied(@, tree.mode, k)], i, j, k)
  BY <1>1 DEF RemoveBuffer
<1>3. tree' = RemoveSlot(EmptiedTree(tree, i, j, k), i, j, k)
  BY <1>2 DEF EmptiedTree
<1>4. /\ tree' \in Tree /\ WellFormed(tree')
      /\ OnlyImage(tree', tree, ImageAt(i, j, k, tree.mode), Null)
  BY <1>1, <1>2, <1>3, RemovedPointers
<1>5. heap \in [Block -> Seq(Elem) \cup {Free}]
  BY DEF BInv, Typed
<1>6. heap' \in [Block -> Seq(Elem) \cup {Free}]
  BY <1>2, <1>5 DEF Freed
<1>7. /\ old # Null => heap'[old] = Free
      /\ \A b \in Block : b # old => heap'[b] = heap[b]
  BY <1>1, <1>2 DEF Freed, Block
<1>8. PointsAnew(i, j, k, Null)
  BY <1>4, <1>7 DEF PointsAnew, Repointed, OnlyImage, old
<1> QED BY <1>2, <1>3, <1>4, <1>6, <1>8

(* It preserves the invariant. *)
LEMMA RemoveBufferKeeps ==
  ASSUME BInv, NEW i \in Fan3, NEW j \in Fan2, NEW k \in Fan1, RemoveBuffer(i, j, k)
  PROVE  BInv'
BY RemoveWrites, OnePointerKeeps DEF Null

(* A call after which the images of D hold nothing and their blocks are free. *)
LEMMA DropKeeps ==
  ASSUME BInv, NEW D,
         tree' \in Tree, WellFormed(tree'),
         \A im \in Image : PointersOf(tree')[im]
                             = IF im \in D THEN Null ELSE PointersOf(tree)[im],
         \A im \in Image : im \in HeldIn(tree') <=> im \in HeldIn(tree) /\ im \notin D,
         NEW blocks, heap' = Freed(blocks),
         \A b \in Block :
           b \in blocks <=> \E im \in Image : im \in D /\ PointersOf(tree)[im] = b
  PROVE  BInv'
<1>1. PointersOf(tree) \in [Image -> Value]
  BY PointersType DEF BInv, Typed
<1>2. Owned(PointersOf(tree), HeldIn(tree), heap)
  BY OwnedIs DEF BInv
<1>3. heap' \in [Block -> Seq(Elem) \cup {Free}]
  BY DEF BInv, Typed, Freed
<1>4. \A b \in Block :
        heap'[b] = IF \E im \in Image : im \in D /\ PointersOf(tree)[im] = b
                     THEN Free ELSE heap[b]
  BY DEF Freed
<1>5. AllDropped(PointersOf(tree), HeldIn(tree), heap,
                 PointersOf(tree'), HeldIn(tree'), heap', D)
  BY <1>4 DEF AllDropped
<1>6. Owned(PointersOf(tree'), HeldIn(tree'), heap')
  BY <1>1, <1>2, <1>5, DropImages
<1> QED BY <1>3, <1>6, OwnedIsAfter DEF BInv, Typed

(* The blocks that a rollback frees. *)
RolledBlocks(t) ==
  UNION {{t.l1[v[1]][v[2]].pval[k] : k \in Victims(t.l1[v[1]][v[2]])} : v \in Walked(t)}

(* They are those of the predicted images: the walk misses none of them. *)
LEMMA RolledBlocksAre ==
  ASSUME NEW t \in Tree, WellFormed(t), Tidy(t), NEW b \in Block
  PROVE  b \in RolledBlocks(t) <=>
           \E im \in Image : im \in {x \in Image : x[2] = "PREDICT"}
                           /\ PointersOf(t)[im] = b
<1> DEFINE D == {im \in Image : im[2] = "PREDICT"}
           At(v) == t.l1[v[1]][v[2]]
<1>1. ASSUME b \in RolledBlocks(t)
      PROVE  \E im \in Image : im \in D /\ PointersOf(t)[im] = b
  <2>1. PICK v \in Walked(t) : \E k \in Victims(At(v)) : At(v).pval[k] = b
    BY <1>1 DEF RolledBlocks
  <2>2. PICK k \in Victims(At(v)) : At(v).pval[k] = b
    BY <2>1
  <2>3. PICK i \in Fan3, j \in Fan2 : v = <<i, j>>
    BY DEF Walked
  <2>4. t.l1[i][j] \in L1Node
    BY DEF Tree
  <2>5. k \in Fan1
    BY <2>2, <2>3, <2>4 DEF Victims, L1Node
  <2> DEFINE im == ImageAt(i, j, k, "PREDICT")
  <2>6. im \in Image /\ im \in D
    BY <2>5, ImagesAre DEF Mode, ImageAt
  <2>7. PointersOf(t)[im] = t.l1[i][j].pval[k]
    BY <2>5, ImageFields DEF Mode, ImageOf
  <2> QED BY <2>2, <2>3, <2>6, <2>7
<1>2. ASSUME NEW im \in Image, im \in D, PointersOf(t)[im] = b
      PROVE  b \in RolledBlocks(t)
  <2>1. PICK i \in Fan3, j \in Fan2, k \in Fan1, m \in Mode : im = ImageAt(i, j, k, m)
    BY ImagesAre
  <2>2. m = "PREDICT"
    BY <1>2, <2>1 DEF ImageAt
  <2>3. t.l1[i][j].pval[k] = b
    BY <1>2, <2>1, <2>2, ImageFields DEF ImageOf
  <2>4. HeldAt(t.l1[i][j], m, k)
    BY <1>2, <2>1, ImageFields DEF Tidy, Block
  <2>5. k \in Victims(t.l1[i][j]) /\ t.l1[i][j].dirty # {}
    BY <2>2, <2>4 DEF HeldAt, Victims
  <2>6. RollbackReaches(t, i, j)
    BY <2>5, DirtyIsWalked
  <2>7. <<i, j>> \in Walked(t) /\ At(<<i, j>>) = t.l1[i][j]
    BY <2>6 DEF Walked
  <2> QED BY <2>3, <2>5, <2>7 DEF RolledBlocks
<1> QED BY <1>1, <1>2

(* A rollback: all predicted images. *)
LEMMA RollbackTreeKeeps == BInv /\ RollbackTree => BInv'
<1> SUFFICES ASSUME BInv, RollbackTree PROVE BInv'
  OBVIOUS
<1> DEFINE D == {im \in Image : im[2] = "PREDICT"}
<1>1. /\ tree \in Tree /\ WellFormed(tree) /\ Tidy(tree)
  BY OwnedIs, OwnedTidy DEF BInv, Typed
<1>2. tree' = Rollback(DroppedTree(tree)) /\ heap' = Freed(RolledBlocks(tree))
  BY DEF RollbackTree, DroppedTree, Walked, RolledBlocks
<1>3. tree' \in Tree /\ WellFormed(tree')
  <2>1. DroppedTree(tree) \in Tree /\ WellFormed(DroppedTree(tree))
    BY <1>1, DroppedKeeps
  <2> QED BY <1>2, <2>1, RollbackKeeps
<1>4. ASSUME NEW im \in Image
      PROVE  /\ PointersOf(tree')[im] = IF im \in D THEN Null ELSE PointersOf(tree)[im]
             /\ im \in HeldIn(tree') <=> im \in HeldIn(tree) /\ im \notin D
  <2>1. PICK i \in Fan3, j \in Fan2, k \in Fan1, m \in Mode : im = ImageAt(i, j, k, m)
    BY ImagesAre
  <2>2. im \in D <=> m = "PREDICT"
    BY <2>1 DEF ImageAt
  <2>3. /\ PointersOf(tree)[im] = ImageOf(tree.l1[i][j], m, k)
        /\ PointersOf(tree')[im] = ImageOf(tree'.l1[i][j], m, k)
        /\ im \in HeldIn(tree) <=> HeldAt(tree.l1[i][j], m, k)
        /\ im \in HeldIn(tree') <=> HeldAt(tree'.l1[i][j], m, k)
    BY <2>1, ImageFields
  <2>4. /\ ImageOf(tree'.l1[i][j], "PREDICT", k) = Null
        /\ ~ HeldAt(tree'.l1[i][j], "PREDICT", k)
        /\ ImageOf(tree'.l1[i][j], "CONFIRMED", k) = ImageOf(tree.l1[i][j], "CONFIRMED", k)
        /\ HeldAt(tree'.l1[i][j], "CONFIRMED", k) <=> HeldAt(tree.l1[i][j], "CONFIRMED", k)
    BY <1>1, <1>2, RolledPointers
  <2> QED BY <2>2, <2>3, <2>4 DEF Mode
<1>5. \A b \in Block :
        b \in RolledBlocks(tree) <=> \E im \in Image : im \in D /\ PointersOf(tree)[im] = b
  BY <1>1, RolledBlocksAre
<1> HIDE DEF D
<1> QED BY <1>2, <1>3, <1>4, <1>5, DropKeeps

(* The teardown: all images. *)
LEMMA DestroyKeeps == BInv /\ Destroy => BInv'
<1> SUFFICES ASSUME BInv, Destroy PROVE BInv'
  OBVIOUS
<1> DEFINE Visited == {v \in Fan3 \X Fan2 :
                         v[1] \in tree.root.confAny /\ v[2] \in tree.l2[v[1]].confAny}
           At(v) == tree.l1[v[1]][v[2]]
           blocks == UNION {{At(v).cval[k] : k \in At(v).conf} : v \in Visited}
<1>1. /\ tree \in Tree /\ WellFormed(tree) /\ Tidy(tree) /\ NoDirty(tree)
  BY OwnedIs, OwnedTidy DEF BInv, Typed, Destroy
<1>2. tree' = NewTree /\ heap' = Freed(blocks)
  BY DEF Destroy
<1>3. tree' \in Tree /\ WellFormed(tree')
  BY <1>2, NewTreeType, NewTreeWellFormed
<1>4. \A im \in Image :
        /\ PointersOf(tree')[im] = IF im \in Image THEN Null ELSE PointersOf(tree)[im]
        /\ im \in HeldIn(tree') <=> im \in HeldIn(tree) /\ im \notin Image
  BY <1>2, NewTreePointers
<1>5. ASSUME NEW b \in Block
      PROVE  b \in blocks <=> \E im \in Image : im \in Image /\ PointersOf(tree)[im] = b
  <2>1. ASSUME b \in blocks
        PROVE  \E im \in Image : PointersOf(tree)[im] = b
    <3>1. PICK v \in Visited : \E k \in At(v).conf : At(v).cval[k] = b
      BY <2>1
    <3>2. PICK k \in At(v).conf : At(v).cval[k] = b
      BY <3>1
    <3>3. PICK i \in Fan3, j \in Fan2 : v = <<i, j>>
      OBVIOUS
    <3>4. tree.l1[i][j] \in L1Node
      BY <1>1 DEF Tree
    <3>5. k \in Fan1
      BY <3>2, <3>3, <3>4 DEF L1Node
    <3> DEFINE im == ImageAt(i, j, k, "CONFIRMED")
    <3>6. im \in Image
      BY <3>5, ImagesAre DEF Mode
    <3>7. PointersOf(tree)[im] = tree.l1[i][j].cval[k]
      BY <3>5, ImageFields DEF Mode, ImageOf
    <3> QED BY <3>2, <3>3, <3>6, <3>7
  <2>2. ASSUME NEW im \in Image, PointersOf(tree)[im] = b
        PROVE  b \in blocks
    <3>1. PICK i \in Fan3, j \in Fan2, k \in Fan1, m \in Mode : im = ImageAt(i, j, k, m)
      BY ImagesAre
    <3>2. HeldAt(tree.l1[i][j], m, k)
      BY <1>1, <2>2, <3>1, ImageFields DEF Tidy, Block
    <3>3. tree.l1[i][j].dirty = {}
      BY <1>1, CleanNode DEF WellFormed
    <3>4. m = "CONFIRMED" /\ k \in tree.l1[i][j].conf
      BY <3>2, <3>3 DEF HeldAt, Mode
    <3>5. tree.l1[i][j].cval[k] = b
      BY <2>2, <3>1, <3>4, ImageFields DEF ImageOf
    <3>6. /\ NodeLinked(tree.root, tree.own2, tree.l2[i], tree.own1[i], i)
          /\ LeafLinked(tree.l2[i], tree.own1[i], tree.l1[i][j], j)
      BY <1>1 DEF WellFormed, Linked
    <3>7. j \in tree.l2[i].confAny
      BY <3>4, <3>6 DEF LeafLinked, SummaryOf
    <3>8. i \in tree.root.confAny
      BY <3>6, <3>7 DEF NodeLinked, SummaryOf
    <3>9. <<i, j>> \in Visited /\ At(<<i, j>>) = tree.l1[i][j]
      BY <3>7, <3>8
    <3> QED BY <3>4, <3>5, <3>9
  <2> QED BY <2>1, <2>2
<1> HIDE DEF blocks
<1> QED BY <1>2, <1>3, <1>4, <1>5, DropKeeps

(* A call that changes no leaf's presence masks, dirty bits or bytes. *)
LEMMA SameLeavesKeep ==
  ASSUME BInv, tree' \in Tree, WellFormed(tree'), heap' = heap,
         \A i \in Fan3, j \in Fan2 :
           /\ tree'.l1[i][j].conf = tree.l1[i][j].conf
           /\ tree'.l1[i][j].pred = tree.l1[i][j].pred
           /\ tree'.l1[i][j].dirty = tree.l1[i][j].dirty
           /\ tree'.l1[i][j].cval = tree.l1[i][j].cval
           /\ tree'.l1[i][j].pval = tree.l1[i][j].pval
  PROVE  BInv'
<1>1. ASSUME NEW im \in Image
      PROVE  /\ PointersOf(tree')[im] = IF im \in {} THEN Null ELSE PointersOf(tree)[im]
             /\ im \in HeldIn(tree') <=> im \in HeldIn(tree) /\ im \notin {}
  <2>1. PICK i \in Fan3, j \in Fan2, k \in Fan1, m \in Mode : im = ImageAt(i, j, k, m)
    BY ImagesAre
  <2>2. /\ ImageOf(tree'.l1[i][j], m, k) = ImageOf(tree.l1[i][j], m, k)
        /\ HeldAt(tree'.l1[i][j], m, k) <=> HeldAt(tree.l1[i][j], m, k)
    BY DEF ImageOf, HeldAt
  <2> QED BY <2>1, <2>2, ImageFields
<1>2. heap' = Freed({})
  BY DEF BInv, Typed, Freed
<1> QED BY <1>1, <1>2, DropKeeps

(* The end of a tick and a change of mode. *)
LEMMA EndTickKeeps == BInv /\ EndTick => BInv'
<1> SUFFICES ASSUME BInv, EndTick PROVE BInv'
  OBVIOUS
<1>1. tree \in Tree /\ WellFormed(tree) /\ tree' = ClearChanged(tree) /\ heap' = heap
  BY DEF BInv, Typed, EndTick
<1>2. tree' \in Tree /\ WellFormed(tree')
  BY <1>1, ClearChangedKeeps
<1>3. \A i \in Fan3, j \in Fan2 :
        ClearChanged(tree).l1[i][j] = [tree.l1[i][j] EXCEPT !.changed = {}]
  BY <1>1, ClearChangedParts DEF WellFormed
<1>4. ASSUME NEW i \in Fan3, NEW j \in Fan2
      PROVE  /\ tree'.l1[i][j].conf = tree.l1[i][j].conf
             /\ tree'.l1[i][j].pred = tree.l1[i][j].pred
             /\ tree'.l1[i][j].dirty = tree.l1[i][j].dirty
             /\ tree'.l1[i][j].cval = tree.l1[i][j].cval
             /\ tree'.l1[i][j].pval = tree.l1[i][j].pval
  <2> DEFINE n == tree.l1[i][j]
             w == tree'.l1[i][j]
  <2>1. n \in L1Node /\ w = [n EXCEPT !.changed = {}]
    BY <1>1, <1>3 DEF Tree
  <2> HIDE DEF n, w
  <2>2. /\ w.conf = n.conf /\ w.pred = n.pred /\ w.dirty = n.dirty
        /\ w.cval = n.cval /\ w.pval = n.pval
    BY <2>1 DEF L1Node
  <2> QED BY <2>2 DEF n, w
<1> QED BY <1>1, <1>2, <1>4, SameLeavesKeep

(* A mode switch preserves the invariant: no leaf changes. *)
LEMMA SetModeTreeKeeps ==
  ASSUME BInv, NEW m \in Mode, SetMode(m)
  PROVE  BInv'
<1>1. /\ tree \in Tree /\ WellFormed(tree) /\ NoDirty(tree)
      /\ tree' = [tree EXCEPT !.mode = m] /\ heap' = heap
  BY DEF BInv, Typed, SetMode
<1>2. tree' \in Tree /\ WellFormed(tree')
  BY <1>1, SetModeKeeps
<1>3. tree'.l1 = tree.l1
  BY <1>1 DEF Tree
<1> QED BY <1>1, <1>2, <1>3, SameLeavesKeep

(* Every call preserves the invariant, if no changed slot is misread in it. *)
LEMMA BufferNext == BInv /\ [Next]_vars /\ misread' = {} => BInv'
<1> SUFFICES ASSUME BInv, [Next]_vars, misread' = {} PROVE BInv'
  OBVIOUS
<1>1. ASSUME NEW i \in Fan3, NEW j \in Fan2, NEW k \in Fan1,
             Push(i, j, k) \/ Pop(i, j, k) \/ Clear(i, j, k) \/ RemoveBuffer(i, j, k)
      PROVE  BInv'
  BY <1>1, PushWrites, PopWrites, ClearWrites, ElementWriteKeeps, RemoveBufferKeeps
<1>2. CASE EndTick
  BY <1>2, EndTickKeeps
<1>3. CASE RollbackTree
  BY <1>3, RollbackTreeKeeps
<1>4. CASE Destroy
  BY <1>4, DestroyKeeps
<1>5. ASSUME NEW m \in Mode, SetMode(m) PROVE BInv'
  BY <1>5, SetModeTreeKeeps
<1>6. CASE UNCHANGED vars
  <2>1. tree' = tree /\ heap' = heap
    BY <1>6 DEF vars
  <2>2. OwnedOnce'
    BY <2>1, OwnedIs, OwnedIsAfter DEF BInv
  <2> QED BY <2>1, <2>2 DEF BInv, Typed
<1> QED BY <1>1, <1>2, <1>3, <1>4, <1>5, <1>6 DEF Next

(* A misread slot stays on record. *)
LEMMA MisreadStays == [Next]_vars => misread \subseteq misread'
<1> SUFFICES ASSUME [Next]_vars PROVE misread \subseteq misread'
  OBVIOUS
<1>1. ASSUME NEW i, NEW j, NEW k, NEW p, Touch(i, j, k, p)
      PROVE  misread \subseteq misread'
  BY <1>1 DEF Touch, TouchTree, TouchBlock
<1>2. ASSUME NEW i, NEW j, NEW k, Push(i, j, k) \/ Pop(i, j, k) \/ Clear(i, j, k)
      PROVE  misread \subseteq misread'
  <2>1. \E p : Touch(i, j, k, p)
    BY <1>2 DEF Push, Pop, Clear
  <2> QED BY <1>1, <2>1
<1>3. ASSUME NEW i, NEW j, NEW k, RemoveBuffer(i, j, k)
      PROVE  misread' = misread
  BY <1>3 DEF RemoveBuffer
<1>4. CASE EndTick \/ RollbackTree \/ Destroy
  BY <1>4 DEF EndTick, RollbackTree, Destroy
<1>5. ASSUME NEW m, SetMode(m)
      PROVE  misread' = misread
  BY <1>5 DEF SetMode
<1>6. CASE UNCHANGED vars
  BY <1>6 DEF vars
<1> QED BY <1>2, <1>3, <1>4, <1>5, <1>6 DEF Next

(* What holds throughout: until a changed slot is misread, the invariant. *)
Sound == misread = {} => BInv

(* It holds in every reachable state. *)
LEMMA BufferInvariance == Spec => []Sound
<1>1. Init => Sound
  BY BufferInit DEF Sound
<1>2. Sound /\ [Next]_vars => Sound'
  <2> SUFFICES ASSUME Sound, [Next]_vars PROVE Sound'
    OBVIOUS
  <2>1. misread \subseteq misread'
    BY MisreadStays
  <2>2. misread' = {} => BInv'
    BY <2>1, BufferNext DEF Sound
  <2> QED BY <2>2 DEF Sound
<1> QED BY <1>1, <1>2, PTL DEF Spec

(* A slot holds a pointer or NULL, a block a list or nothing, as long as no
   flush of an iterator has misread a changed slot. *)
THEOREM BufferTypeCorrect == Spec => [](misread = {} => TypeOK)
<1>1. Sound => (misread = {} => TypeOK)
  BY DEF Sound, BInv, Typed, TypeOK
<1> QED BY <1>1, BufferInvariance, PTL

(* No block is shared by two images, freed twice, used after it was freed or
   lost, whatever sequence of element writes, removals, rollbacks and teardowns
   the asserts of the code allow, as long as no flush of an iterator has misread
   a changed slot. *)
THEOREM OwnershipSound == Spec => [](misread = {} => OwnedOnce)
<1>1. Sound => (misread = {} => OwnedOnce)
  BY DEF Sound, BInv
<1> QED BY <1>1, BufferInvariance, PTL

-----------------------------------------------------------------------------
(* Refinement: the lists that the pointers stand for, in a heap h. *)

EntryIn(h, p) == IF p = Absent THEN Absent ELSE ListIn(h, p)

ListsIn(h, pointers) == [s \in Slot |-> EntryIn(h, pointers[s])]

(* In the present heap and in the next one they are those of the mapping. *)
LEMMA ListsAre ==
  /\ \A pointers : ListsOf(pointers) = ListsIn(heap, pointers)
  /\ ListsOf(ViewOf(tree))' = ListsIn(heap', ViewOf(tree'))
  /\ ListsOf(ConfirmedOf(tree))' = ListsIn(heap', ConfirmedOf(tree'))
BY DEF ListsOf, ListsIn, EntryIn, ListOf, ListIn

(* What a store holds at a slot is the pointer of one of its two images. *)
LEMMA EntriesAreImages ==
  ASSUME NEW t \in Tree, NEW i \in Fan3, NEW j \in Fan2, NEW k \in Fan1
  PROVE  LET P(m) == PointersOf(t)[ImageAt(i, j, k, m)]
         IN /\ ConfirmedOf(t)[<<i, j, k>>] \in {Absent, P("CONFIRMED")}
            /\ ViewOf(t)[<<i, j, k>>] \in {Absent, P("CONFIRMED"), P("PREDICT")}
<1> DEFINE n == t.l1[i][j]
<1>1. /\ PointersOf(t)[ImageAt(i, j, k, "CONFIRMED")] = n.cval[k]
      /\ PointersOf(t)[ImageAt(i, j, k, "PREDICT")] = n.pval[k]
  BY ImageFields DEF Mode, ImageOf
<1>2. ConfirmedOf(t)[<<i, j, k>>] = ConfirmedAt(n, k)
  BY DEF ConfirmedOf, Slot
<1>3. ViewOf(t)[<<i, j, k>>] = ViewAt(n, k)
  BY DEF ViewOf, Slot
<1> HIDE DEF n
<1> QED BY <1>1, <1>2, <1>3 DEF ConfirmedAt, ViewAt, CurrentBytes

(* A call that gives one image a pointer leaves the lists of the others. *)
LEMMA OthersKept ==
  ASSUME BInv, NEW i \in Fan3, NEW j \in Fan2, NEW k \in Fan1, NEW p \in Value,
         PointsAnew(i, j, k, p),
         NEW im \in Image, im # ImageAt(i, j, k, tree.mode)
  PROVE  EntryIn(heap', PointersOf(tree)[im]) = EntryIn(heap, PointersOf(tree)[im])
<1> DEFINE P == PointersOf(tree)
           at == ImageAt(i, j, k, tree.mode)
<1>1. /\ tree.mode \in Mode /\ Owned(P, HeldIn(tree), heap) /\ tree \in Tree
  BY SlotFacts
<1>2. at \in Image /\ P \in [Image -> Value]
  BY <1>1, ImagesAre, PointersType
<1>3. /\ p = Null \/ p = P[at] \/ heap[p] = Free
      /\ \A b \in Block : b # p /\ b # P[at] => heap'[b] = heap[b]
  BY DEF PointsAnew, Repointed
<1> HIDE DEF P, at
<1>4. CASE P[im] = Null
  BY <1>4 DEF EntryIn, ListIn, P
<1>5. CASE P[im] # Null
  <2>1. P[im] # P[at] /\ heap[P[im]] # Free
    BY <1>1, <1>2, <1>5 DEF Owned, at
  <2>2. P[im] # p /\ P[im] \in Block
    BY <1>2, <1>3, <1>5, <2>1 DEF Block
  <2>3. heap'[P[im]] = heap[P[im]]
    BY <1>3, <2>1, <2>2
  <2> QED BY <2>3 DEF EntryIn, ListIn, P
<1> QED BY <1>4, <1>5

(* The effect of Put(<<i, j, k>>, list) on the lists. *)
PutLists(i, j, k, list) ==
  /\ tree'.mode = tree.mode
  /\ ListsIn(heap', ViewOf(tree'))
       = [ListsIn(heap, ViewOf(tree)) EXCEPT ![<<i, j, k>>] = list]
  /\ ListsIn(heap', ConfirmedOf(tree'))
       = IF tree.mode = "CONFIRMED"
           THEN [ListsIn(heap, ConfirmedOf(tree)) EXCEPT ![<<i, j, k>>] = list]
           ELSE ListsIn(heap, ConfirmedOf(tree))

(* A store of pointers changes at one slot, and so does that of the lists. *)
LEMMA PointersToLists ==
  ASSUME BInv, NEW i \in Fan3, NEW j \in Fan2, NEW k \in Fan1,
         NEW p \in Value, PointsAnew(i, j, k, p),
         NEW c, PutIn(tree', tree, i, j, k, c)
  PROVE  PutLists(i, j, k, EntryIn(heap', c))
<1> DEFINE at == <<i, j, k>>
<1>1. tree \in Tree /\ tree.mode \in Mode /\ at \in Slot
  BY SlotFacts DEF Slot
<1>2. ASSUME NEW s \in Slot, s # at
      PROVE  /\ EntryIn(heap', ViewOf(tree)[s]) = EntryIn(heap, ViewOf(tree)[s])
             /\ EntryIn(heap', ConfirmedOf(tree)[s]) = EntryIn(heap, ConfirmedOf(tree)[s])
  <2>1. PICK x \in Fan3, y \in Fan2, z \in Fan1 : s = <<x, y, z>>
    BY DEF Slot
  <2>2. \A m \in Mode : /\ ImageAt(x, y, z, m) \in Image
                        /\ ImageAt(x, y, z, m) # ImageAt(i, j, k, tree.mode)
    BY <1>2, <2>1, ImagesAre DEF ImageAt
  <2>3. \A m \in Mode : EntryIn(heap', PointersOf(tree)[ImageAt(x, y, z, m)])
                          = EntryIn(heap, PointersOf(tree)[ImageAt(x, y, z, m)])
    BY <2>2, OthersKept
  <2>4. EntryIn(heap', Absent) = EntryIn(heap, Absent)
    BY DEF EntryIn
  <2> QED BY <1>1, <2>1, <2>3, <2>4, EntriesAreImages DEF Mode
<1>3. ASSUME tree.mode = "PREDICT"
      PROVE  EntryIn(heap', ConfirmedOf(tree)[at]) = EntryIn(heap, ConfirmedOf(tree)[at])
  <2>1. /\ ImageAt(i, j, k, "CONFIRMED") \in Image
        /\ ImageAt(i, j, k, "CONFIRMED") # ImageAt(i, j, k, tree.mode)
    BY <1>3, ImagesAre DEF ImageAt, Mode
  <2>2. EntryIn(heap', PointersOf(tree)[ImageAt(i, j, k, "CONFIRMED")])
          = EntryIn(heap, PointersOf(tree)[ImageAt(i, j, k, "CONFIRMED")])
    BY <2>1, OthersKept
  <2>3. EntryIn(heap', Absent) = EntryIn(heap, Absent)
    BY DEF EntryIn
  <2> QED BY <1>1, <2>2, <2>3, EntriesAreImages
<1>4. /\ ViewOf(tree) = [s \in Slot |-> ViewOf(tree)[s]]
      /\ ConfirmedOf(tree) = [s \in Slot |-> ConfirmedOf(tree)[s]]
  BY DEF ViewOf, ConfirmedOf
<1>5. /\ tree'.mode = tree.mode
      /\ ViewOf(tree') = [ViewOf(tree) EXCEPT ![at] = c]
      /\ ConfirmedOf(tree') = IF tree.mode = "CONFIRMED"
                                THEN [ConfirmedOf(tree) EXCEPT ![at] = c]
                                ELSE ConfirmedOf(tree)
  BY DEF PutIn
<1> HIDE DEF at
<1>6. ListsIn(heap', ViewOf(tree'))
        = [ListsIn(heap, ViewOf(tree)) EXCEPT ![at] = EntryIn(heap', c)]
  <2>1. \A s \in Slot : ViewOf(tree')[s] = IF s = at THEN c ELSE ViewOf(tree)[s]
    BY <1>4, <1>5
  <2>2. \A s \in Slot : EntryIn(heap', ViewOf(tree')[s])
                          = IF s = at THEN EntryIn(heap', c)
                                      ELSE EntryIn(heap, ViewOf(tree)[s])
    BY <1>2, <2>1
  <2> QED BY <1>1, <2>2 DEF ListsIn
<1>7. CASE tree.mode = "CONFIRMED"
  <2>1. \A s \in Slot :
          ConfirmedOf(tree')[s] = IF s = at THEN c ELSE ConfirmedOf(tree)[s]
    BY <1>4, <1>5, <1>7
  <2>2. \A s \in Slot : EntryIn(heap', ConfirmedOf(tree')[s])
                          = IF s = at THEN EntryIn(heap', c)
                                      ELSE EntryIn(heap, ConfirmedOf(tree)[s])
    BY <1>2, <2>1
  <2>3. ListsIn(heap', ConfirmedOf(tree'))
          = [ListsIn(heap, ConfirmedOf(tree)) EXCEPT ![at] = EntryIn(heap', c)]
    BY <2>2 DEF ListsIn
  <2> QED BY <1>5, <1>6, <1>7, <2>3 DEF PutLists, at
<1>8. CASE tree.mode = "PREDICT"
  <2>1. \A s \in Slot : EntryIn(heap', ConfirmedOf(tree')[s])
                          = EntryIn(heap, ConfirmedOf(tree)[s])
    BY <1>2, <1>3, <1>5, <1>8
  <2>2. ListsIn(heap', ConfirmedOf(tree')) = ListsIn(heap, ConfirmedOf(tree))
    BY <2>1 DEF ListsIn
  <2> QED BY <1>5, <1>6, <1>8, <2>2 DEF PutLists, at
<1> QED BY <1>1, <1>7, <1>8 DEF Mode

(* An element-level write is a Put of the list it leaves. *)
LEMMA ElementWritePuts ==
  ASSUME BInv, NEW i \in Fan3, NEW j \in Fan2, NEW k \in Fan1, NEW list,
         ElementWrite(i, j, k, list)
  PROVE  PutLists(i, j, k, list)
<1>1. PICK p \in Value : /\ TreeTouched(tree', tree, i, j, k, p)
                         /\ PointsAnew(i, j, k, p) /\ ListIn(heap', p) = list
  BY DEF ElementWrite
<1>2. tree \in Tree /\ WellFormed(tree)
  BY DEF BInv, Typed
<1>3. PICK w : /\ LeafTouched(w, tree.l1[i][j], tree.mode, k, p)
               /\ tree'.l1 = [tree.l1 EXCEPT ![i] = [@ EXCEPT ![j] = w]]
  BY <1>1 DEF TreeTouched
<1>4. tree'.mode = tree.mode
  BY <1>1 DEF TreeTouched
<1>5. PutIn(tree', tree, i, j, k, p)
  BY <1>2, <1>3, <1>4, LeafPuts DEF LeafTouched, WellFormed
<1>6. EntryIn(heap', p) = list
  BY <1>1, AbsentAssumption DEF EntryIn
<1> QED BY <1>1, <1>5, <1>6, PointersToLists

(* The bytes that a removal empties are those of the slot it removes. *)
LEMMA EmptiedPuts ==
  ASSUME NEW t \in Tree, WellFormed(t), NEW i \in Fan3, NEW j \in Fan2, NEW k \in Fan1,
         Present(t, i, j, k)
  PROVE  PutIn(RemoveSlot(EmptiedTree(t, i, j, k), i, j, k), t, i, j, k, Absent)
<1> DEFINE s == EmptiedTree(t, i, j, k)
           u == RemoveSlot(s, i, j, k)
           n == t.l1[i][j]
           e == Emptied(n, t.mode, k)
           at == <<i, j, k>>
<1>1. /\ s \in Tree /\ WellFormed(s) /\ s.mode = t.mode /\ Present(s, i, j, k)
      /\ s.l1 = [t.l1 EXCEPT ![i] = [@ EXCEPT ![j] = e]]
  BY EmptiedKeeps
<1>2. n \in L1Node /\ t.mode \in Mode
  BY DEF Tree
<1>3. e \in L1Node /\ SameMasks(e, n) /\ BytesEmptied(e, n, t.mode, k)
  BY <1>2, EmptiedFields
<1>4. PutIn(u, s, i, j, k, Absent)
  BY <1>1, RemovePuts DEF WellFormed
<1> HIDE DEF s, u, n, e
<1>5. /\ \A x \in Fan1 \ {k} : e.cval[x] = n.cval[x] /\ e.pval[x] = n.pval[x]
      /\ t.mode = "PREDICT" => e.cval = n.cval
  BY <1>2, <1>3 DEF BytesEmptied, L1Node, Mode
<1>6. \A x \in Fan1 \ {k} : /\ ConfirmedAt(e, x) = ConfirmedAt(n, x)
                            /\ ViewAt(e, x) = ViewAt(n, x)
  BY <1>3, <1>5 DEF ConfirmedAt, ViewAt, CurrentBytes, SameMasks
<1>7. t.mode = "PREDICT" => ConfirmedAt(e, k) = ConfirmedAt(n, k)
  BY <1>3, <1>5 DEF ConfirmedAt, SameMasks
<1>8. /\ ConfirmedOf(s) = [ConfirmedOf(t) EXCEPT ![at] = ConfirmedAt(e, k)]
      /\ ViewOf(s) = [ViewOf(t) EXCEPT ![at] = ViewAt(e, k)]
  <2>1. /\ s.l1 = [t.l1 EXCEPT ![i] = [@ EXCEPT ![j] = e]]
        /\ \A x \in Fan1 \ {k} : /\ ConfirmedAt(e, x) = ConfirmedAt(t.l1[i][j], x)
                                 /\ ViewAt(e, x) = ViewAt(t.l1[i][j], x)
    BY <1>1, <1>6 DEF n
  <2>2. \A c, d : ConfirmedAt(e, k) = c /\ ViewAt(e, k) = d
                    => /\ ConfirmedOf(s) = [ConfirmedOf(t) EXCEPT ![<<i, j, k>>] = c]
                       /\ ViewOf(s) = [ViewOf(t) EXCEPT ![<<i, j, k>>] = d]
    BY <2>1, OneSlotWritten
  <2> QED BY <2>2
<1>9. [ViewOf(s) EXCEPT ![at] = Absent] = [ViewOf(t) EXCEPT ![at] = Absent]
  BY <1>8 DEF ViewOf
<1>10. [ConfirmedOf(s) EXCEPT ![at] = Absent] = [ConfirmedOf(t) EXCEPT ![at] = Absent]
  BY <1>8 DEF ConfirmedOf
<1>11. t.mode = "PREDICT" => ConfirmedOf(s) = ConfirmedOf(t)
  <2>1. ConfirmedOf(t)[at] = ConfirmedAt(n, k)
    BY DEF ConfirmedOf, Slot, n
  <2>2. [ConfirmedOf(t) EXCEPT ![at] = ConfirmedOf(t)[at]] = ConfirmedOf(t)
    BY DEF ConfirmedOf
  <2> QED BY <1>7, <1>8, <2>1, <2>2
<1> QED BY <1>1, <1>2, <1>4, <1>9, <1>10, <1>11 DEF PutIn, Mode, u, s

(* A list that the frame sees is one: its block is not free. *)
LEMMA SeenIsList ==
  ASSUME BInv, NEW i \in Fan3, NEW j \in Fan2, NEW k \in Fan1,
         ViewOf(tree)[<<i, j, k>>] # Absent
  PROVE  ListsIn(heap, ViewOf(tree))[<<i, j, k>>] # Absent
<1> DEFINE c == ViewOf(tree)[<<i, j, k>>]
<1>1. /\ tree \in Tree /\ Owned(PointersOf(tree), HeldIn(tree), heap)
  BY SlotFacts
<1>2. PICK m \in Mode : c = PointersOf(tree)[ImageAt(i, j, k, m)]
  BY <1>1, EntriesAreImages DEF Mode
<1>3. c \in Value /\ (c # Null => heap[c] # Free)
  <2>1. ImageAt(i, j, k, m) \in Image /\ PointersOf(tree) \in [Image -> Value]
    BY <1>1, ImagesAre, PointersType
  <2> QED BY <1>1, <1>2, <2>1 DEF Owned
<1>4. ListIn(heap, c) \in Seq(Elem)
  BY <1>3 DEF ListIn, BInv, Typed, Block
<1>5. ListsIn(heap, ViewOf(tree))[<<i, j, k>>] = EntryIn(heap, c)
  BY DEF ListsIn, Slot
<1>6. c # Absent
  OBVIOUS
<1> HIDE DEF c
<1> QED BY <1>4, <1>5, <1>6, ElemAssumption DEF EntryIn

(* The list that a push or a pop starts from is the one that the frame sees. *)
LEMMA LiveListSeen ==
  ASSUME BInv, NEW i \in Fan3, NEW j \in Fan2, NEW k \in Fan1
  PROVE  LET c == ListsIn(heap, ViewOf(tree))[<<i, j, k>>]
         IN LiveList(tree.l1[i][j], tree.mode, k) = IF c = Absent THEN <<>> ELSE c
<1> DEFINE n == tree.l1[i][j]
           m == tree.mode
           v == ViewAt(n, k)
<1>1. /\ tree \in Tree /\ WellFormed(tree) /\ Tidy(tree) /\ m \in Mode
      /\ LiveList(n, m, k) \in Seq(Elem)
  BY SlotFacts
<1>2. ListsIn(heap, ViewOf(tree))[<<i, j, k>>] = EntryIn(heap, v)
  BY DEF ListsIn, ViewOf, Slot
<1>3. m = "CONFIRMED" => n.dirty = {}
  BY <1>1, CleanRoot DEF WellFormed, Linked
<1>4. n.pred \ n.dirty = n.conf \ n.dirty
  BY <1>1 DEF WellFormed, Linked, LeafLinked
<1>5. /\ n \in L1Node
      /\ k \notin n.conf => n.cval[k] = Null
      /\ k \notin n.pred \cap n.dirty => n.pval[k] = Null
  BY <1>1 DEF Tidy, HeldAt, ImageOf, Tree, Mode
<1> HIDE DEF n, m
<1>6. v = Absent => LiveList(n, m, k) = <<>>
  <2> SUFFICES ASSUME v = Absent PROVE LiveList(n, m, k) = <<>>
    OBVIOUS
  <2>1. k \notin n.pred
    BY <1>5, AbsentAssumption DEF ViewAt, CurrentBytes, L1Node
  <2> QED BY <1>1, <1>3, <1>4, <1>5, <2>1
          DEF LiveList, LivePointer, NeedsCow, ImageOf, ListOf, Mode
<1>7. v # Absent => LiveList(n, m, k) = ListOf(v)
  <2> SUFFICES ASSUME v # Absent PROVE LiveList(n, m, k) = ListOf(v)
    OBVIOUS
  <2>1. k \in n.pred
    BY DEF ViewAt
  <2>2. CASE k \in n.dirty
    <3>1. m = "PREDICT" /\ v = n.pval[k]
      BY <1>1, <1>3, <2>1, <2>2 DEF ViewAt, CurrentBytes, Mode
    <3> QED BY <2>2, <3>1 DEF LiveList, LivePointer, NeedsCow, ImageOf
  <2>3. CASE k \notin n.dirty
    <3>1. k \in n.conf /\ v = n.cval[k]
      BY <1>4, <2>1, <2>3 DEF ViewAt, CurrentBytes
    <3> QED BY <1>1, <2>3, <3>1 DEF LiveList, LivePointer, NeedsCow, ImageOf, Mode
  <2> QED BY <2>2, <2>3
<1>8. v # Absent => EntryIn(heap, v) = ListOf(v) /\ ListOf(v) # Absent
  BY <1>1, <1>7, ElemAssumption DEF EntryIn, ListIn, ListOf
<1>9. v = Absent => EntryIn(heap, v) = Absent
  BY DEF EntryIn
<1> HIDE DEF v
<1> QED BY <1>2, <1>6, <1>7, <1>8, <1>9 DEF n, m

-----------------------------------------------------------------------------
(* Each call is a step of the list store *)

(* The empty tree is the store without lists. *)
LEMMA NewTreeLists ==
  ASSUME NEW h
  PROVE  /\ ListsIn(h, ConfirmedOf(NewTree)) = [s \in Slot |-> Absent]
         /\ ListsIn(h, ViewOf(NewTree)) = [s \in Slot |-> Absent]
<1>1. \A i \in Fan3, j \in Fan2 :
        NewTree.l1[i][j].conf = {} /\ NewTree.l1[i][j].pred = {}
  BY DEF NewTree, NoLeaves, NoL1
<1>2. ConfirmedOf(NewTree) = [s \in Slot |-> Absent]
  BY <1>1 DEF ConfirmedOf, ConfirmedAt, Slot
<1>3. ViewOf(NewTree) = [s \in Slot |-> Absent]
  BY <1>1 DEF ViewOf, ViewAt, Slot
<1> QED BY <1>2, <1>3 DEF ListsIn, EntryIn

(* A rollback loses no confirmed list, and shows nothing else. *)
LEMMA RollbackLists ==
  ASSUME BInv, RollbackTree
  PROVE  /\ tree'.mode = tree.mode
         /\ ListsIn(heap', ConfirmedOf(tree')) = ListsIn(heap, ConfirmedOf(tree))
         /\ ListsIn(heap', ViewOf(tree')) = ListsIn(heap, ConfirmedOf(tree))
<1> DEFINE P == PointersOf(tree)
           d == DroppedTree(tree)
<1>1. /\ tree \in Tree /\ WellFormed(tree) /\ Tidy(tree) /\ Owned(P, HeldIn(tree), heap)
  BY OwnedIs, OwnedTidy DEF BInv, Typed
<1>2. tree' = Rollback(d) /\ heap' = Freed(RolledBlocks(tree))
  BY DEF RollbackTree, DroppedTree, Walked, RolledBlocks
<1>3. /\ d \in Tree /\ WellFormed(d)
      /\ \A i \in Fan3, j \in Fan2 :
           d.l1[i][j] = IF RollbackReaches(tree, i, j) THEN Dropped(tree.l1[i][j])
                                                       ELSE tree.l1[i][j]
  BY <1>1, DroppedKeeps
<1>4. d.mode = tree.mode
  BY <1>1 DEF DroppedTree, Tree
<1> HIDE DEF d, P
<1>5. ConfirmedOf(d) = ConfirmedOf(tree)
  <2>1. ASSUME NEW i \in Fan3, NEW j \in Fan2
        PROVE  d.l1[i][j].conf = tree.l1[i][j].conf /\ d.l1[i][j].cval = tree.l1[i][j].cval
    <3>1. tree.l1[i][j] \in L1Node
      BY <1>1 DEF Tree
    <3> QED BY <1>3, <3>1, DroppedFields DEF SameMasks
  <2> QED BY <2>1 DEF ConfirmedOf, ConfirmedAt, Slot
<1>6. /\ tree'.mode = tree.mode
      /\ ConfirmedOf(tree') = ConfirmedOf(tree) /\ ViewOf(tree') = ConfirmedOf(tree)
  BY <1>2, <1>3, <1>4, <1>5, RollbackDiscards DEF WellFormed
<1>7. ASSUME NEW s \in Slot
      PROVE  EntryIn(heap', ConfirmedOf(tree)[s]) = EntryIn(heap, ConfirmedOf(tree)[s])
  <2>1. PICK i \in Fan3, j \in Fan2, k \in Fan1 : s = <<i, j, k>>
    BY DEF Slot
  <2> DEFINE im == ImageAt(i, j, k, "CONFIRMED")
             p == P[im]
  <2>2. im \in Image /\ im[2] = "CONFIRMED"
    BY ImagesAre DEF ImageAt, Mode
  <2>3. ConfirmedOf(tree)[s] \in {Absent, p}
    BY <1>1, <2>1, EntriesAreImages DEF P
  <2>4. P \in [Image -> Value]
    BY <1>1, PointersType DEF P
  <2> HIDE DEF im
  <2>5. p # Null => heap'[p] = heap[p]
    <3> SUFFICES ASSUME p # Null PROVE heap'[p] = heap[p]
      OBVIOUS
    <3>1. p \in Block
      BY <2>2, <2>4 DEF Block
    <3>2. ~ \E x \in Image : x \in {y \in Image : y[2] = "PREDICT"} /\ P[x] = p
      BY <1>1, <2>2 DEF Owned
    <3>3. p \notin RolledBlocks(tree)
      BY <1>1, <3>1, <3>2, RolledBlocksAre DEF P
    <3> QED BY <1>2, <3>1, <3>3 DEF Freed
  <2> QED BY <2>3, <2>5 DEF EntryIn, ListIn
<1>8. ListsIn(heap', ConfirmedOf(tree)) = ListsIn(heap, ConfirmedOf(tree))
  BY <1>7 DEF ListsIn
<1> QED BY <1>6, <1>8

(* The lists of a step that the mapping sees as Put. *)
LEMMA PutsLists ==
  ASSUME NEW i \in Fan3, NEW j \in Fan2, NEW k \in Fan1, NEW list,
         PutLists(i, j, k, list)
  PROVE  Lists!Put(<<i, j, k>>, list)
BY ListsAre DEF PutLists, Lists!Put

(* Every call is a step of the list store, or a stutter, if no changed slot is
   misread in it. *)
LEMMA BufferNextRefines ==
  BInv /\ [Next]_vars /\ misread' = {} => [Lists!ListNext]_(Lists!listVars)
<1> SUFFICES ASSUME BInv, [Next]_vars, misread' = {}
             PROVE  [Lists!ListNext]_(Lists!listVars)
  OBVIOUS
<1>1. tree \in Tree /\ WellFormed(tree)
  BY DEF BInv, Typed
<1>2. ASSUME NEW i \in Fan3, NEW j \in Fan2, NEW k \in Fan1,
             Push(i, j, k) \/ Pop(i, j, k) \/ Clear(i, j, k) \/ RemoveBuffer(i, j, k)
      PROVE  Lists!ListNext
  <2> DEFINE s == <<i, j, k>>
             list == LiveList(tree.l1[i][j], tree.mode, k)
  <2>1. s \in Slot
    BY DEF Slot
  <2>2. Lists!ListAt(s) = list
    BY LiveListSeen, ListsAre DEF Lists!ListAt
  <2> HIDE DEF list
  <2>3. CASE Push(i, j, k)
    <3>1. PICK e \in Elem : ElementWrite(i, j, k, Append(list, e))
      BY <2>3, PushWrites DEF list
    <3>2. Lists!Put(s, Append(list, e))
      BY <3>1, ElementWritePuts, PutsLists
    <3> QED BY <2>1, <2>2, <3>2 DEF Lists!ListNext, Lists!ListPush
  <2>4. CASE Pop(i, j, k)
    <3>1. list # <<>> /\ ElementWrite(i, j, k, Front(list))
      BY <2>4, PopWrites DEF list
    <3>2. Lists!Put(s, Front(list))
      BY <3>1, ElementWritePuts, PutsLists
    <3> QED BY <2>1, <2>2, <3>1, <3>2
            DEF Lists!ListNext, Lists!ListPop, Front, Lists!Front
  <2>5. CASE Clear(i, j, k)
    <3>1. Lists!Put(s, <<>>)
      BY <2>5, ClearWrites, ElementWritePuts, PutsLists
    <3> QED BY <2>1, <3>1 DEF Lists!ListNext, Lists!ListClear
  <2>6. CASE RemoveBuffer(i, j, k)
    <3>1. /\ Present(tree, i, j, k) /\ PointsAnew(i, j, k, Null) /\ Null \in Value
          /\ tree' = RemoveSlot(EmptiedTree(tree, i, j, k), i, j, k)
      BY <2>6, RemoveWrites DEF Null
    <3>2. PutLists(i, j, k, Absent)
      <4>1. PutIn(tree', tree, i, j, k, Absent)
        BY <1>1, <3>1, EmptiedPuts
      <4>2. EntryIn(heap', Absent) = Absent
        BY DEF EntryIn
      <4> QED BY <3>1, <4>1, <4>2, PointersToLists
    <3>3. Lists!Put(s, Absent)
      BY <3>2, PutsLists
    <3>4. ListsOf(ViewOf(tree))[s] # Absent
      BY <1>1, <3>1, PresentInView, SeenIsList, ListsAre
    <3> QED BY <2>1, <3>3, <3>4 DEF Lists!ListNext, Lists!ListRemove
  <2> QED BY <1>2, <2>3, <2>4, <2>5, <2>6
<1>3. CASE EndTick
  <2>1. /\ tree'.mode = tree.mode /\ heap' = heap
        /\ ConfirmedOf(tree') = ConfirmedOf(tree) /\ ViewOf(tree') = ViewOf(tree)
    BY <1>1, <1>3, EndTickStutters DEF EndTick, WellFormed
  <2> QED BY <2>1, ListsAre DEF Lists!listVars
<1>4. CASE RollbackTree
  <2>1. Lists!Discard
    BY <1>4, RollbackLists, ListsAre DEF Lists!Discard
  <2> QED BY <2>1 DEF Lists!ListNext
<1>5. CASE Destroy
  <2>1. ViewOf(tree) = ConfirmedOf(tree) /\ tree' = NewTree
    BY <1>1, <1>5, CleanViewConfirmed DEF Destroy, WellFormed
  <2>2. NewTree.mode = "CONFIRMED"
    BY DEF NewTree
  <2>3. Lists!Reset
    BY <2>1, <2>2, NewTreeLists, ListsAre DEF Lists!Reset, Lists!NoLists
  <2> QED BY <2>3 DEF Lists!ListNext
<1>6. ASSUME NEW m \in Mode, SetMode(m)
      PROVE  Lists!ListNext
  <2>1. ViewOf(tree) = ConfirmedOf(tree)
    BY <1>1, <1>6, CleanViewConfirmed DEF SetMode, WellFormed
  <2>2. tree'.mode = m /\ tree'.l1 = tree.l1 /\ heap' = heap
    BY <1>1, <1>6 DEF SetMode, Tree
  <2>3. ViewOf(tree') = ViewOf(tree) /\ ConfirmedOf(tree') = ConfirmedOf(tree)
    BY <2>2 DEF ViewOf, ConfirmedOf
  <2>4. Lists!SwitchMode(m)
    BY <2>1, <2>2, <2>3, ListsAre DEF Lists!SwitchMode
  <2> QED BY <2>4 DEF Lists!ListNext, Mode, Lists!Mode
<1>7. CASE UNCHANGED vars
  BY <1>7, ListsAre DEF vars, Lists!listVars
<1> QED BY <1>2, <1>3, <1>4, <1>5, <1>6, <1>7 DEF Next

(* The tree with its heap implements the store of lists: a push, a pop or a
   clear acts on the list the frame sees, prediction never shows through to the
   confirmed lists, and a rollback brings exactly those back.  So every step does
   until a flush of an iterator misreads a changed slot. *)
THEOREM BufferRefinement == Spec => ImplementsLists
<1>1. Init => Lists!ListInit
  <2> SUFFICES ASSUME Init PROVE Lists!ListInit
    OBVIOUS
  <2>1. tree = NewTree /\ NewTree.mode = "CONFIRMED"
    BY DEF Init, NewTree
  <2> QED BY <2>1, NewTreeLists, ListsAre DEF Lists!ListInit, Lists!NoLists
<1>2. Sound /\ [Next]_vars => [misread' = {} => Lists!ListNext]_(Lists!listVars)
  <2> SUFFICES ASSUME Sound, [Next]_vars, misread' = {}
               PROVE  [Lists!ListNext]_(Lists!listVars)
    OBVIOUS
  <2>1. misread = {}
    BY MisreadStays DEF Sound
  <2> QED BY <2>1, BufferNextRefines DEF Sound
<1> QED BY <1>1, <1>2, BufferInvariance, PTL DEF Spec, ImplementsLists
=============================================================================
