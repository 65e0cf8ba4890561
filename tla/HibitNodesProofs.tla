-------------------------- MODULE HibitNodesProofs -------------------------
(* Lemmas about the operators of HibitNodes, for every fan-out and every set
   of values: each call keeps a tree well-formed, and what it does to the two
   images. *)
EXTENDS HibitNodes, TLAPS

USE FanAssumption, ZeroAssumption

(* The default nodes are nodes. *)
LEMMA DefaultNodes ==
  /\ NoL1 \in L1Node
  /\ \A Fan : NoSummary \in Summary(Fan)
BY DEF NoL1, L1Node, NoSummary, Summary

(* An empty tree is a tree, and a well-formed one. *)
LEMMA NewTreeType == NewTree \in Tree
BY DefaultNodes DEF NewTree, NoLeaves, Tree, Mode

(* The empty tree satisfies the invariant. *)
LEMMA NewTreeLinked == Linked(NewTree)
<1>1. NewTree.root = NoSummary /\ NewTree.own2 = {}
  BY DEF NewTree
<1>2. NewTree.mode = "CONFIRMED" => NewTree.root.dirty = {}
  BY <1>1 DEF NoSummary
<1>3. ASSUME NEW i \in Fan3
      PROVE  NewTree.l2[i] = NoSummary /\ NewTree.own1[i] = {}
  BY DEF NewTree
<1>4. ASSUME NEW i \in Fan3, NEW j \in Fan2
      PROVE  NewTree.l1[i][j] = NoL1
  BY DEF NewTree, NoLeaves
<1>5. ASSUME NEW i \in Fan3
      PROVE  NodeLinked(NoSummary, {}, NoSummary, {}, i)
  BY DEF NodeLinked, SummaryOf, NoSummary
<1>6. ASSUME NEW j \in Fan2
      PROVE  LeafLinked(NoSummary, {}, NoL1, j)
  BY DEF LeafLinked, SummaryOf, NoSummary, NoL1
<1> QED BY <1>1, <1>2, <1>3, <1>4, <1>5, <1>6 DEF Linked

-----------------------------------------------------------------------------
(* The second of two stores to one entry is the one that stays. *)
LEMMA ExceptTwice ==
  ASSUME NEW S, NEW T, NEW f \in [S -> T], NEW x \in S, NEW a, NEW b
  PROVE  [[f EXCEPT ![x] = a] EXCEPT ![x] = b] = [f EXCEPT ![x] = b]
OBVIOUS

(* Acquiring nodes leaves every mask of a well-formed tree as it was. *)
LEMMA AcquiredL2 ==
  ASSUME NEW t \in Tree, Linked(t), NEW i \in Fan3
  PROVE  LET u == AcquireL2(t, i)
         IN /\ u \in Tree
            /\ u.mode = t.mode /\ u.root = t.root
            /\ u.own2 = t.own2 \cup {i} /\ u.own1 = t.own1
            /\ u.l2 = t.l2 /\ u.l1 = t.l1
<1>1. CASE i \in t.own2
  BY <1>1 DEF AcquireL2, Tree
<1>2. CASE i \notin t.own2
  <2>1. t.l2[i] = NoSummary /\ t.own1[i] = {}
    BY <1>2 DEF Linked, NodeLinked
  <2>2. \A c \in Fan2 : t.l1[i][c] = NoL1
    BY <2>1 DEF Linked, LeafLinked
  <2>3. t.l1[i] = NoLeaves
    BY <2>2 DEF Tree, NoLeaves
  <2> DEFINE u == AcquireL2(t, i)
  <2>4. /\ u.mode = t.mode /\ u.root = t.root
        /\ u.own2 = t.own2 \cup {i}
    BY <1>2 DEF AcquireL2, Tree
  <2>5. u.own1 = t.own1
    BY <1>2, <2>1 DEF AcquireL2, Tree
  <2>6. u.l2 = t.l2
    BY <1>2, <2>1 DEF AcquireL2, Tree
  <2>7. u.l1 = t.l1
    BY <1>2, <2>3 DEF AcquireL2, Tree
  <2>8. u = [mode |-> u.mode, root |-> u.root, own2 |-> u.own2,
             l2 |-> u.l2, own1 |-> u.own1, l1 |-> u.l1]
    BY <1>2 DEF AcquireL2, Tree
  <2>9. u \in Tree
    BY <2>4, <2>5, <2>6, <2>7, <2>8 DEF Tree
  <2> QED BY <2>4, <2>5, <2>6, <2>7, <2>9
<1> QED BY <1>1, <1>2

(* The same for the L1 node under the acquired L2 node. *)
LEMMA AcquiredL1 ==
  ASSUME NEW t \in Tree, Linked(t), NEW i \in Fan3, NEW j \in Fan2
  PROVE  LET u == AcquireL1(AcquireL2(t, i), i, j)
         IN /\ u \in Tree
            /\ u.mode = t.mode /\ u.root = t.root
            /\ u.own2 = t.own2 \cup {i}
            /\ u.own1 = [t.own1 EXCEPT ![i] = @ \cup {j}]
            /\ u.l2 = t.l2 /\ u.l1 = t.l1
<1> DEFINE a == AcquireL2(t, i)
           u == AcquireL1(a, i, j)
<1>1. /\ a \in Tree
      /\ a.mode = t.mode /\ a.root = t.root
      /\ a.own2 = t.own2 \cup {i} /\ a.own1 = t.own1
      /\ a.l2 = t.l2 /\ a.l1 = t.l1
  BY AcquiredL2
<1> HIDE DEF a
<1>2. CASE j \in t.own1[i]
  <2>1. [t.own1 EXCEPT ![i] = @ \cup {j}] = t.own1
    BY <1>2 DEF Tree
  <2>2. u = a
    BY <1>1, <1>2 DEF AcquireL1
  <2> QED BY <1>1, <2>1, <2>2 DEF a
<1>3. CASE j \notin t.own1[i]
  <2>1. t.l1[i][j] = NoL1
    BY <1>3 DEF Linked, LeafLinked
  <2>2. /\ u.mode = t.mode /\ u.root = t.root
        /\ u.own2 = t.own2 \cup {i}
        /\ u.own1 = [t.own1 EXCEPT ![i] = @ \cup {j}]
        /\ u.l2 = t.l2
    BY <1>1, <1>3 DEF AcquireL1, Tree
  <2>3. u.l1 = [t.l1 EXCEPT ![i] = [@ EXCEPT ![j] = NoL1]]
    BY <1>1, <1>3 DEF AcquireL1, Tree
  <2>4. [t.l1[i] EXCEPT ![j] = NoL1] = t.l1[i]
    BY <2>1 DEF Tree
  <2>5. u.l1 = t.l1
    BY <2>3, <2>4 DEF Tree
  <2>6. u = [mode |-> u.mode, root |-> u.root, own2 |-> u.own2,
             l2 |-> u.l2, own1 |-> u.own1, l1 |-> u.l1]
    BY <1>1, <1>3 DEF AcquireL1, Tree
  <2>7. u \in Tree
    <3>1. u.own1 \in [Fan3 -> SUBSET Fan2] /\ u.own2 \in SUBSET Fan3
      BY <2>2 DEF Tree
    <3>2. /\ u.mode \in Mode /\ u.root \in Summary(Fan3)
          /\ u.l2 \in [Fan3 -> Summary(Fan2)]
          /\ u.l1 \in [Fan3 -> [Fan2 -> L1Node]]
      BY <2>2, <2>5 DEF Tree
    <3> HIDE DEF u
    <3> QED BY <2>6, <3>1, <3>2 DEF Tree
  <2> QED BY <2>2, <2>5, <2>7 DEF a
<1> QED BY <1>2, <1>3

-----------------------------------------------------------------------------
(* Field by field: what marking and unmarking do to one node. *)

LeafMarked(u, n, m, k) ==
  /\ u.pred = n.pred \cup {k} /\ u.changed = n.changed \cup {k}
  /\ u.conf = n.conf \cup IfConfirmed(m, {k})
  /\ u.dirty = n.dirty \cup IfPredict(m, {k})

LeafUnmarked(u, n, m, k) ==
  /\ u.pred = n.pred \ {k} /\ u.changed = n.changed \cup {k}
  /\ u.conf = n.conf \ IfConfirmed(m, {k})
  /\ u.dirty = n.dirty \cup IfPredict(m, {k})

SummaryMarked(u, s, m, c, p, q) ==
  /\ u.predAny = s.predAny \cup {c}
  /\ u.predAll = IF p THEN s.predAll \cup {c} ELSE s.predAll
  /\ u.confAny = s.confAny \cup IfConfirmed(m, {c})
  /\ u.confAll = IF q THEN s.confAll \cup {c} ELSE s.confAll
  /\ u.dirty = s.dirty \cup IfPredict(m, {c})
  /\ u.changed = s.changed \cup {c}

SummaryUnmarked(u, s, m, c, e) ==
  /\ u.predAll = s.predAll \ {c}
  /\ u.confAll = s.confAll \ IfConfirmed(m, {c})
  /\ u.predAny = IF e THEN s.predAny \ {c} ELSE s.predAny
  /\ u.confAny = IF e THEN s.confAny \ IfConfirmed(m, {c}) ELSE s.confAny
  /\ u.dirty = s.dirty \cup IfPredict(m, {c})
  /\ u.changed = s.changed \cup {c}

(* The masks of a marked L1 node, in a form SMT can use. *)
LEMMA MarkL1Fields ==
  ASSUME NEW n \in L1Node, NEW m \in Mode, NEW k \in Fan1
  PROVE  /\ MarkL1(n, m, k) \in L1Node
         /\ LeafMarked(MarkL1(n, m, k), n, m, k)
         /\ MarkL1(n, m, k).cval = n.cval /\ MarkL1(n, m, k).pval = n.pval
BY DEF MarkL1, LeafMarked, L1Node, IfConfirmed, IfPredict

(* The masks of an L1 node that lost a slot. *)
LEMMA UnmarkL1Fields ==
  ASSUME NEW n \in L1Node, NEW m \in Mode, NEW k \in Fan1
  PROVE  /\ UnmarkL1(n, m, k) \in L1Node
         /\ LeafUnmarked(UnmarkL1(n, m, k), n, m, k)
         /\ UnmarkL1(n, m, k).cval = n.cval /\ UnmarkL1(n, m, k).pval = n.pval
BY DEF UnmarkL1, LeafUnmarked, L1Node, IfConfirmed, IfPredict

(* The masks of a summary above a marked node. *)
LEMMA MarkUpFields ==
  ASSUME NEW Fan, NEW s \in Summary(Fan), NEW m \in Mode, NEW c \in Fan,
         NEW p \in BOOLEAN, NEW q \in BOOLEAN
  PROVE  /\ MarkUp(s, m, c, p, q) \in Summary(Fan)
         /\ SummaryMarked(MarkUp(s, m, c, p, q), s, m, c, p, q)
BY DEF MarkUp, SummaryMarked, Summary, IfConfirmed, IfPredict

(* The masks of a summary above a node that lost a slot. *)
LEMMA UnmarkUpFields ==
  ASSUME NEW Fan, NEW s \in Summary(Fan), NEW m \in Mode, NEW c \in Fan,
         NEW e \in BOOLEAN
  PROVE  /\ UnmarkUp(s, m, c, e) \in Summary(Fan)
         /\ SummaryUnmarked(UnmarkUp(s, m, c, e), s, m, c, e)
BY DEF UnmarkUp, SummaryUnmarked, Summary, IfConfirmed, IfPredict

-----------------------------------------------------------------------------
(* A call that rewrites one path: leaf n1 under n2 under the root n3. *)

OnePath(t, u, i, j, n1, o1, n2, o2, n3) ==
  /\ u.mode = t.mode /\ u.root = n3 /\ u.own2 = o2
  /\ u.l2 = [t.l2 EXCEPT ![i] = n2]
  /\ u.own1 = [t.own1 EXCEPT ![i] = o1]
  /\ u.l1 = [t.l1 EXCEPT ![i] = [@ EXCEPT ![j] = n1]]

(* The leaf of GetMut: its masks, and the bytes the caller stores. *)
Stored(n, m, k, v) ==
  IF m = "PREDICT" THEN [MarkL1(n, m, k) EXCEPT !.pval[k] = v]
                   ELSE [MarkL1(n, m, k) EXCEPT !.cval[k] = v]

(* Their bytes: v lands in the image the mode selects, at k only. *)
BytesStored(u, n, m, k, v) ==
  /\ u.cval = IF m = "PREDICT" THEN n.cval ELSE [n.cval EXCEPT ![k] = v]
  /\ u.pval = IF m = "PREDICT" THEN [n.pval EXCEPT ![k] = v] ELSE n.pval

(* A store to one byte image leaves the masks of the node alone. *)
LEMMA StoredFields ==
  ASSUME NEW n \in L1Node, NEW m \in Mode, NEW k \in Fan1, NEW v \in Value
  PROVE  /\ Stored(n, m, k, v) \in L1Node
         /\ LeafMarked(Stored(n, m, k, v), n, m, k)
         /\ BytesStored(Stored(n, m, k, v), n, m, k, v)
<1> DEFINE w == MarkL1(n, m, k)
           u == Stored(n, m, k, v)
<1>1. /\ w \in L1Node /\ LeafMarked(w, n, m, k)
      /\ w.cval = n.cval /\ w.pval = n.pval
  BY MarkL1Fields
<1>2. CASE m = "PREDICT"
  <2>1. u = [w EXCEPT !.pval[k] = v]
    BY <1>2 DEF Stored
  <2> HIDE DEF u, w
  <2>2. u \in L1Node /\ LeafMarked(u, n, m, k)
    BY <1>1, <2>1 DEF LeafMarked, L1Node
  <2>3. BytesStored(u, n, m, k, v)
    BY <1>1, <1>2, <2>1 DEF BytesStored, L1Node
  <2> QED BY <2>2, <2>3 DEF u
<1>3. CASE m # "PREDICT"
  <2>1. u = [w EXCEPT !.cval[k] = v]
    BY <1>3 DEF Stored
  <2> HIDE DEF u, w
  <2>2. u \in L1Node /\ LeafMarked(u, n, m, k)
    BY <1>1, <2>1 DEF LeafMarked, L1Node
  <2>3. BytesStored(u, n, m, k, v)
    BY <1>1, <1>3, <2>1 DEF BytesStored, L1Node
  <2> QED BY <2>2, <2>3 DEF u
<1> QED BY <1>2, <1>3

(* ecs_tree_get_mut rewrites one leaf, its L2 node and the root. *)
LEMMA GetMutPath ==
  ASSUME NEW t \in Tree, Linked(t),
         NEW i \in Fan3, NEW j \in Fan2, NEW k \in Fan1, NEW v \in Value
  PROVE  LET n1 == MarkL1(t.l1[i][j], t.mode, k)
             n2 == MarkUp(t.l2[i], t.mode, j, n1.pred = Fan1, n1.conf = Fan1)
             n3 == MarkUp(t.root, t.mode, i, n2.predAll = Fan2, n2.confAll = Fan2)
             u == GetMut(t, i, j, k, v)
         IN /\ u \in Tree
            /\ OnePath(t, u, i, j, Stored(t.l1[i][j], t.mode, k, v),
                       t.own1[i] \cup {j}, n2, t.own2 \cup {i}, n3)
<1> DEFINE a == AcquireL1(AcquireL2(t, i), i, j)
           m == t.mode
           n1 == MarkL1(t.l1[i][j], m, k)
           n2 == MarkUp(t.l2[i], m, j, n1.pred = Fan1, n1.conf = Fan1)
           n3 == MarkUp(t.root, m, i, n2.predAll = Fan2, n2.confAll = Fan2)
           w == Stored(t.l1[i][j], m, k, v)
           b == Mark(t, i, j, k)
           u == GetMut(t, i, j, k, v)
<1>1. /\ a \in Tree
      /\ a.mode = t.mode /\ a.root = t.root
      /\ a.own2 = t.own2 \cup {i}
      /\ a.own1 = [t.own1 EXCEPT ![i] = @ \cup {j}]
      /\ a.l2 = t.l2 /\ a.l1 = t.l1
  BY AcquiredL1
<1>2. b = [a EXCEPT !.l1[i][j] = n1, !.l2[i] = n2, !.root = n3]
  BY <1>1 DEF Mark
<1>3. /\ m \in Mode /\ t.l1[i][j] \in L1Node
      /\ t.l2[i] \in Summary(Fan2) /\ t.root \in Summary(Fan3)
  BY DEF Tree
<1>4. n1 \in L1Node
  BY <1>3, MarkL1Fields
<1>5. n2 \in Summary(Fan2)
  BY <1>3, MarkUpFields
<1>6. n3 \in Summary(Fan3)
  BY <1>3, MarkUpFields
<1>7. w \in L1Node
  BY <1>3, StoredFields
<1> HIDE DEF a, n2, n3
<1>8. /\ b.mode = t.mode /\ b.root = n3 /\ b.own2 = t.own2 \cup {i}
      /\ b.own1 = [t.own1 EXCEPT ![i] = @ \cup {j}]
      /\ b.l2 = [t.l2 EXCEPT ![i] = n2]
      /\ b.l1 = [t.l1 EXCEPT ![i] = [@ EXCEPT ![j] = n1]]
      /\ b = [mode |-> b.mode, root |-> b.root, own2 |-> b.own2,
              l2 |-> b.l2, own1 |-> b.own1, l1 |-> b.l1]
  <2> HIDE DEF n1, b, m
  <2> QED BY <1>1, <1>2 DEF Tree
<1>9. /\ u.mode = b.mode /\ u.root = b.root /\ u.own2 = b.own2
      /\ u.own1 = b.own1 /\ u.l2 = b.l2
      /\ u.l1 = [t.l1 EXCEPT ![i] = [@ EXCEPT ![j] = w]]
      /\ u = [mode |-> u.mode, root |-> u.root, own2 |-> u.own2,
              l2 |-> u.l2, own1 |-> u.own1, l1 |-> u.l1]
  <2>1. b.l1 \in [Fan3 -> [Fan2 -> L1Node]] /\ b.l1[i][j] = n1
    BY <1>4, <1>8 DEF Tree
  <2>2. CASE m = "PREDICT"
    <3>1. u = [b EXCEPT !.l1[i][j].pval[k] = v]
      BY <2>2 DEF GetMut
    <3>2. w = [n1 EXCEPT !.pval[k] = v]
      BY <2>2 DEF Stored
    <3> HIDE DEF n1, b, u, w
    <3>3. /\ u.mode = b.mode /\ u.root = b.root /\ u.own2 = b.own2
          /\ u.own1 = b.own1 /\ u.l2 = b.l2
          /\ u = [mode |-> u.mode, root |-> u.root, own2 |-> u.own2,
                  l2 |-> u.l2, own1 |-> u.own1, l1 |-> u.l1]
      BY <1>8, <3>1 DEF Tree
    <3>4. u.l1 = [b.l1 EXCEPT ![i] = [@ EXCEPT ![j] = w]]
      BY <1>8, <2>1, <3>1, <3>2
    <3>5. [b.l1 EXCEPT ![i] = [@ EXCEPT ![j] = w]]
            = [t.l1 EXCEPT ![i] = [@ EXCEPT ![j] = w]]
      <4>1. /\ t.l1 \in [Fan3 -> [Fan2 -> L1Node]]
            /\ t.l1[i] \in [Fan2 -> L1Node]
        BY DEF Tree
      <4>2. b.l1[i] = [t.l1[i] EXCEPT ![j] = n1]
        BY <1>8, <4>1
      <4>3. [b.l1[i] EXCEPT ![j] = w] = [t.l1[i] EXCEPT ![j] = w]
        BY <4>1, <4>2, ExceptTwice
      <4>4. [b.l1 EXCEPT ![i] = [t.l1[i] EXCEPT ![j] = w]]
              = [t.l1 EXCEPT ![i] = [t.l1[i] EXCEPT ![j] = w]]
        BY <1>8, <4>1, ExceptTwice
      <4> QED BY <4>3, <4>4
    <3> QED BY <3>3, <3>4, <3>5
  <2>3. CASE m # "PREDICT"
    <3>1. u = [b EXCEPT !.l1[i][j].cval[k] = v]
      BY <2>3 DEF GetMut
    <3>2. w = [n1 EXCEPT !.cval[k] = v]
      BY <2>3 DEF Stored
    <3> HIDE DEF n1, b, u, w
    <3>3. /\ u.mode = b.mode /\ u.root = b.root /\ u.own2 = b.own2
          /\ u.own1 = b.own1 /\ u.l2 = b.l2
          /\ u = [mode |-> u.mode, root |-> u.root, own2 |-> u.own2,
                  l2 |-> u.l2, own1 |-> u.own1, l1 |-> u.l1]
      BY <1>8, <3>1 DEF Tree
    <3>4. u.l1 = [b.l1 EXCEPT ![i] = [@ EXCEPT ![j] = w]]
      BY <1>8, <2>1, <3>1, <3>2
    <3>5. [b.l1 EXCEPT ![i] = [@ EXCEPT ![j] = w]]
            = [t.l1 EXCEPT ![i] = [@ EXCEPT ![j] = w]]
      <4>1. /\ t.l1 \in [Fan3 -> [Fan2 -> L1Node]]
            /\ t.l1[i] \in [Fan2 -> L1Node]
        BY DEF Tree
      <4>2. b.l1[i] = [t.l1[i] EXCEPT ![j] = n1]
        BY <1>8, <4>1
      <4>3. [b.l1[i] EXCEPT ![j] = w] = [t.l1[i] EXCEPT ![j] = w]
        BY <4>1, <4>2, ExceptTwice
      <4>4. [b.l1 EXCEPT ![i] = [t.l1[i] EXCEPT ![j] = w]]
              = [t.l1 EXCEPT ![i] = [t.l1[i] EXCEPT ![j] = w]]
        BY <1>8, <4>1, ExceptTwice
      <4> QED BY <4>3, <4>4
    <3> QED BY <3>3, <3>4, <3>5
  <2> QED BY <2>2, <2>3
<1>10. OnePath(t, u, i, j, w, t.own1[i] \cup {j}, n2, t.own2 \cup {i}, n3)
  <2> HIDE DEF u, b, w
  <2> QED BY <1>8, <1>9 DEF OnePath
<1>11. u \in Tree
  <2>1. /\ u.mode \in Mode /\ u.root \in Summary(Fan3)
        /\ u.own2 \in SUBSET Fan3 /\ u.l2 \in [Fan3 -> Summary(Fan2)]
    <3> HIDE DEF u, b
    <3> QED BY <1>3, <1>5, <1>6, <1>8, <1>9 DEF Tree
  <2>2. u.own1 \in [Fan3 -> SUBSET Fan2] /\ u.l1 \in [Fan3 -> [Fan2 -> L1Node]]
    <3> HIDE DEF u, b, w
    <3> QED BY <1>7, <1>8, <1>9 DEF Tree
  <2> HIDE DEF u
  <2> QED BY <1>9, <2>1, <2>2 DEF Tree
<1> QED BY <1>10, <1>11 DEF n2, n3

(* s agrees with r on every child but c. *)
AgreeBut(s, r, c) ==
  /\ s.predAny \ {c} = r.predAny \ {c} /\ s.predAll \ {c} = r.predAll \ {c}
  /\ s.confAny \ {c} = r.confAny \ {c} /\ s.confAll \ {c} = r.confAll \ {c}
  /\ s.dirty \ {c} = r.dirty \ {c} /\ s.changed \ {c} = r.changed \ {c}

(* An update of one entry of a summary leaves the other entries linked. *)
LEMMA OtherSummary ==
  ASSUME NEW Fan, NEW s \in Summary(Fan), NEW r \in Summary(Fan),
         NEW c, NEW x, x # c, AgreeBut(s, r, c), NEW child,
         NEW p, NEW q, NEW f, NEW g,
         SummaryOf(r, x, child, p, q, f, g)
  PROVE  SummaryOf(s, x, child, p, q, f, g)
<1>1. /\ x \in s.predAny <=> x \in r.predAny
      /\ x \in s.predAll <=> x \in r.predAll
      /\ x \in s.confAny <=> x \in r.confAny
      /\ x \in s.confAll <=> x \in r.confAll
      /\ x \in s.dirty <=> x \in r.dirty
      /\ x \in s.changed <=> x \in r.changed
  BY DEF AgreeBut
<1> QED BY <1>1 DEF SummaryOf

(* A call that rewrites the node at i with all its leaves, and the root. *)
OneNode(t, u, i, row, o1, n2, o2, n3) ==
  /\ u.mode = t.mode /\ u.root = n3 /\ u.own2 = o2
  /\ u.l2 = [t.l2 EXCEPT ![i] = n2]
  /\ u.own1 = [t.own1 EXCEPT ![i] = o1]
  /\ u.l1 = [t.l1 EXCEPT ![i] = row]

(* It keeps a tree linked if the node links up with the root and its leaves
   with the node. *)
LEMMA NodeKeepsLinked ==
  ASSUME NEW t \in Tree, Linked(t), NEW u, NEW i \in Fan3,
         NEW row, NEW o1, NEW n2 \in Summary(Fan2), NEW o2,
         NEW n3 \in Summary(Fan3),
         OneNode(t, u, i, row, o1, n2, o2, n3),
         t.mode = "CONFIRMED" => n3.dirty = {},
         AgreeBut(n3, t.root, i), o2 \ {i} = t.own2 \ {i},
         NodeLinked(n3, o2, n2, o1, i),
         \A c \in Fan2 : LeafLinked(n2, o1, row[c], c)
  PROVE  Linked(u)
<1>1. u.mode = "CONFIRMED" => u.root.dirty = {}
  BY DEF OneNode
<1>2. /\ u.l2[i] = n2 /\ u.own1[i] = o1 /\ u.root = n3 /\ u.own2 = o2
      /\ u.l1[i] = row
  BY DEF OneNode, Tree
<1>3. ASSUME NEW x \in Fan3 \ {i}
      PROVE  /\ u.l2[x] = t.l2[x] /\ u.own1[x] = t.own1[x]
             /\ u.l1[x] = t.l1[x]
  BY <1>3 DEF OneNode, Tree
<1>4. ASSUME NEW x \in Fan3
      PROVE  NodeLinked(u.root, u.own2, u.l2[x], u.own1[x], x)
  <2>1. CASE x = i
    BY <1>2, <2>1
  <2>2. CASE x # i
    <3>1. NodeLinked(t.root, t.own2, t.l2[x], t.own1[x], x)
      BY DEF Linked
    <3>2. x \in o2 <=> x \in t.own2
      BY <2>2
    <3>3. t.root \in Summary(Fan3)
      BY DEF Tree
    <3>4. NodeLinked(n3, o2, t.l2[x], t.own1[x], x)
      BY <2>2, <3>1, <3>2, <3>3, OtherSummary DEF NodeLinked
    <3> QED BY <1>2, <1>3, <2>2, <3>4
  <2> QED BY <2>1, <2>2
<1>5. ASSUME NEW x \in Fan3, NEW c \in Fan2
      PROVE  LeafLinked(u.l2[x], u.own1[x], u.l1[x][c], c)
  <2>1. CASE x = i
    BY <1>2, <2>1
  <2>2. CASE x # i
    BY <1>3, <2>2 DEF Linked
  <2> QED BY <2>1, <2>2
<1> QED BY <1>1, <1>4, <1>5 DEF Linked

(* Rewriting one path keeps a tree linked if the path links up, and the
   siblings of its leaf still do. *)
LEMMA PathKeepsLinked ==
  ASSUME NEW t \in Tree, Linked(t), NEW u, NEW i \in Fan3, NEW j \in Fan2,
         NEW n1, NEW o1, NEW n2 \in Summary(Fan2), NEW o2,
         NEW n3 \in Summary(Fan3),
         OnePath(t, u, i, j, n1, o1, n2, o2, n3),
         t.mode = "CONFIRMED" => n3.dirty = {},
         AgreeBut(n3, t.root, i), o2 \ {i} = t.own2 \ {i},
         NodeLinked(n3, o2, n2, o1, i),
         LeafLinked(n2, o1, n1, j),
         \A c \in Fan2 \ {j} : LeafLinked(n2, o1, t.l1[i][c], c)
  PROVE  Linked(u)
<1> DEFINE row == [t.l1[i] EXCEPT ![j] = n1]
<1>1. OneNode(t, u, i, row, o1, n2, o2, n3)
  BY DEF OnePath, OneNode
<1>2. row[j] = n1 /\ \A c \in Fan2 \ {j} : row[c] = t.l1[i][c]
  BY DEF Tree
<1> HIDE DEF row
<1>3. \A c \in Fan2 : LeafLinked(n2, o1, row[c], c)
  BY <1>2
<1> QED BY <1>1, <1>3, NodeKeepsLinked

(* An owned L2 node, and an owned leaf of it, that hold nothing. *)
NodeIdle(own2, s, i) == i \in own2 /\ s.confAny = {} /\ s.dirty = {}
LeafIdle(own, n, j) == j \in own /\ n.conf = {} /\ n.dirty = {}

(* A rewritten path leaves nothing idle if nothing on it is, and it does not
   take over another leaf. *)
LEMMA PathKeepsBusy ==
  ASSUME NEW t \in Tree, NoneIdle(t), NEW u, NEW i \in Fan3, NEW j \in Fan2,
         NEW n1, NEW o1, NEW n2, NEW o2, NEW n3,
         OnePath(t, u, i, j, n1, o1, n2, o2, n3),
         o2 \subseteq t.own2 \cup {i}, o1 \subseteq t.own1[i] \cup {j},
         ~ NodeIdle(o2, n2, i), ~ LeafIdle(o1, n1, j)
  PROVE  NoneIdle(u)
<1>1. /\ u.l2[i] = n2 /\ u.own1[i] = o1 /\ u.own2 = o2
      /\ u.l1[i][j] = n1
      /\ \A c \in Fan2 \ {j} : u.l1[i][c] = t.l1[i][c]
  BY DEF OnePath, Tree
<1>2. ASSUME NEW x \in Fan3 \ {i}
      PROVE  /\ u.l2[x] = t.l2[x] /\ u.own1[x] = t.own1[x]
             /\ u.l1[x] = t.l1[x]
  BY <1>2 DEF OnePath, Tree
<1>3. o1 \subseteq Fan2
  BY DEF Tree
<1>4. ASSUME NEW x \in Fan3
      PROVE  /\ x \in u.own2 => u.l2[x].confAny # {} \/ u.l2[x].dirty # {}
             /\ \A c \in u.own1[x] : u.l1[x][c].conf # {} \/ u.l1[x][c].dirty # {}
  <2>1. CASE x = i
    <3>1. x \in u.own2 => u.l2[x].confAny # {} \/ u.l2[x].dirty # {}
      BY <1>1, <2>1 DEF NodeIdle
    <3>2. ASSUME NEW c \in u.own1[x]
          PROVE  u.l1[x][c].conf # {} \/ u.l1[x][c].dirty # {}
      <4>1. CASE c = j
        BY <1>1, <2>1, <4>1 DEF LeafIdle
      <4>2. CASE c # j
        BY <1>1, <1>3, <2>1, <4>2 DEF NoneIdle
      <4> QED BY <4>1, <4>2
    <3> QED BY <3>1, <3>2
  <2>2. CASE x # i
    BY <1>1, <1>2, <2>2 DEF NoneIdle
  <2> QED BY <2>1, <2>2
<1> QED BY <1>4 DEF NoneIdle

-----------------------------------------------------------------------------
(* What an iteration propagates. *)

(* A summary whose child c was changed, and lost and gained nothing. *)
OnlyTouched(u, s, m, c) ==
  /\ u.predAny = s.predAny /\ u.predAll = s.predAll
  /\ u.confAny = s.confAny /\ u.confAll = s.confAll
  /\ u.dirty = s.dirty \cup IfPredict(m, {c})
  /\ u.changed = s.changed \cup {c}

(* Its dirty and changed bits, and no other. *)
LEMMA PropagatedFields ==
  ASSUME NEW Fan, NEW s \in Summary(Fan), NEW c \in Fan, NEW child, NEW m \in Mode,
         child.changed # {}, m = "PREDICT" => child.dirty # {}
  PROVE  /\ Propagated(s, c, child, m) \in Summary(Fan)
         /\ OnlyTouched(Propagated(s, c, child, m), s, m, c)
BY DEF Propagated, OnlyTouched, Summary, IfPredict, Mode

(* A leaf with a write to slot k that was there before. *)
LeafNoted(w, n, m, k) ==
  /\ w.pred = n.pred /\ w.conf = n.conf
  /\ w.changed = n.changed \cup {k} /\ w.dirty = n.dirty \cup IfPredict(m, {k})

(* Such a leaf, and the bits above it, keep a tree linked. *)
LEMMA TouchedPathLinks ==
  ASSUME NEW t \in Tree, Linked(t), NEW u, NEW i \in Fan3, NEW j \in Fan2,
         NEW k \in Fan1, Present(t, i, j, k),
         NEW w, NEW s \in Summary(Fan2), NEW r \in Summary(Fan3),
         OnePath(t, u, i, j, w, t.own1[i], s, t.own2, r),
         LeafNoted(w, t.l1[i][j], t.mode, k),
         OnlyTouched(s, t.l2[i], t.mode, j), OnlyTouched(r, t.root, t.mode, i)
  PROVE  Linked(u)
<1> DEFINE m == t.mode
           a == t.l1[i][j]
<1>1. /\ m \in Mode /\ t.l2[i] \in Summary(Fan2) /\ t.root \in Summary(Fan3)
  BY DEF Tree
<1>2. /\ NodeLinked(t.root, t.own2, t.l2[i], t.own1[i], i)
      /\ LeafLinked(t.l2[i], t.own1[i], a, j)
      /\ m = "CONFIRMED" => t.root.dirty = {}
  BY DEF Linked
<1>3. k \in a.pred
  BY DEF Present
<1>4. LeafNoted(w, a, m, k) /\ OnlyTouched(s, t.l2[i], m, j) /\ OnlyTouched(r, t.root, m, i)
  OBVIOUS
<1> HIDE DEF a, m
<1>5. AgreeBut(r, t.root, i) /\ AgreeBut(s, t.l2[i], j)
  BY <1>4 DEF AgreeBut, OnlyTouched, IfPredict
<1>6. m = "CONFIRMED" => r.dirty = {}
  BY <1>2, <1>4 DEF OnlyTouched, IfPredict
<1>7. LeafLinked(s, t.own1[i], w, j)
  <2>1. SummaryOf(s, j, w, w.pred = {}, w.pred = Fan1, w.conf = {}, w.conf = Fan1)
    BY <1>2, <1>4 DEF LeafLinked, SummaryOf, LeafNoted, OnlyTouched, IfPredict
  <2>2. j \in t.own1[i]
    BY <1>2, <1>3 DEF LeafLinked, NoL1
  <2>3. w.pred \ w.dirty = w.conf \ w.dirty
    BY <1>2, <1>4 DEF LeafLinked, LeafNoted
  <2> QED BY <2>1, <2>2, <2>3 DEF LeafLinked
<1>8. NodeLinked(r, t.own2, s, t.own1[i], i)
  <2>1. SummaryOf(r, i, s, s.predAny = {}, s.predAll = Fan2,
                          s.confAny = {}, s.confAll = Fan2)
    BY <1>2, <1>4 DEF NodeLinked, SummaryOf, OnlyTouched, IfPredict
  <2>2. i \in t.own2
    BY <1>2, <1>3 DEF NodeLinked, LeafLinked, NoL1
  <2> QED BY <2>1, <2>2 DEF NodeLinked
<1>9. ASSUME NEW c \in Fan2 \ {j}
      PROVE  LeafLinked(s, t.own1[i], t.l1[i][c], c)
  <2> DEFINE x == t.l1[i][c]
  <2>1. LeafLinked(t.l2[i], t.own1[i], x, c)
    BY DEF Linked
  <2> HIDE DEF x
  <2>2. SummaryOf(s, c, x, x.pred = {}, x.pred = Fan1,
                           x.conf = {}, x.conf = Fan1)
    BY <1>1, <1>5, <2>1, OtherSummary DEF LeafLinked
  <2> QED BY <2>1, <2>2 DEF LeafLinked, x
<1> QED BY <1>5, <1>6, <1>7, <1>8, <1>9, PathKeepsLinked DEF m

-----------------------------------------------------------------------------
(* Writes and removals keep a tree well-formed. *)

(* A write preserves the invariant. *)
LEMMA GetMutLinks ==
  ASSUME NEW t \in Tree, Linked(t),
         NEW i \in Fan3, NEW j \in Fan2, NEW k \in Fan1, NEW v \in Value
  PROVE  GetMut(t, i, j, k, v) \in Tree /\ Linked(GetMut(t, i, j, k, v))
<1> DEFINE m == t.mode
           n == t.l1[i][j]
           n1 == MarkL1(n, m, k)
           p1 == n1.pred = Fan1
           q1 == n1.conf = Fan1
           n2 == MarkUp(t.l2[i], m, j, p1, q1)
           p2 == n2.predAll = Fan2
           q2 == n2.confAll = Fan2
           n3 == MarkUp(t.root, m, i, p2, q2)
           w == Stored(n, m, k, v)
           o1 == t.own1[i] \cup {j}
           o2 == t.own2 \cup {i}
           u == GetMut(t, i, j, k, v)
<1>1. u \in Tree /\ OnePath(t, u, i, j, w, o1, n2, o2, n3)
  BY GetMutPath
<1>2. /\ m \in Mode /\ n \in L1Node
      /\ t.l2[i] \in Summary(Fan2) /\ t.root \in Summary(Fan3)
  BY DEF Tree
<1>3. w \in L1Node /\ LeafMarked(w, n, m, k) /\ LeafMarked(n1, n, m, k)
  BY <1>2, StoredFields, MarkL1Fields
<1>4. (p1 <=> w.pred = Fan1) /\ (q1 <=> w.conf = Fan1)
  BY <1>3 DEF LeafMarked
<1>5. n2 \in Summary(Fan2) /\ SummaryMarked(n2, t.l2[i], m, j, p1, q1)
  BY <1>2, MarkUpFields
<1>6. n3 \in Summary(Fan3) /\ SummaryMarked(n3, t.root, m, i, p2, q2)
  BY <1>2, MarkUpFields
<1>7. (p2 <=> n2.predAll = Fan2) /\ (q2 <=> n2.confAll = Fan2)
  OBVIOUS
<1>8. /\ NodeLinked(t.root, t.own2, t.l2[i], t.own1[i], i)
      /\ LeafLinked(t.l2[i], t.own1[i], n, j)
      /\ m = "CONFIRMED" => t.root.dirty = {}
  BY DEF Linked
<1> HIDE DEF n1, n2, n3, w, u, m, n, p1, p2, q1, q2
<1>9. m = "CONFIRMED" => n3.dirty = {}
  BY <1>6, <1>8 DEF SummaryMarked, IfPredict
<1>10. AgreeBut(n3, t.root, i) /\ AgreeBut(n2, t.l2[i], j)
  BY <1>2, <1>5, <1>6
     DEF AgreeBut, SummaryMarked, IfConfirmed, IfPredict, Summary, Mode
<1>11. LeafLinked(n2, o1, w, j)
  <2>1. CASE m = "CONFIRMED"
    BY <1>2, <1>3, <1>4, <1>5, <1>8, <2>1
       DEF LeafLinked, SummaryOf, LeafMarked, SummaryMarked, IfConfirmed,
           IfPredict, L1Node, Summary
  <2>2. CASE m = "PREDICT"
    BY <1>2, <1>3, <1>4, <1>5, <1>8, <2>2
       DEF LeafLinked, SummaryOf, LeafMarked, SummaryMarked, IfConfirmed,
           IfPredict, L1Node, Summary
  <2> QED BY <1>2, <2>1, <2>2 DEF Mode
<1>12. NodeLinked(n3, o2, n2, o1, i)
  <2>1. CASE m = "CONFIRMED"
    BY <1>2, <1>5, <1>6, <1>7, <1>8, <2>1
       DEF NodeLinked, SummaryOf, SummaryMarked, IfConfirmed, IfPredict, Summary
  <2>2. CASE m = "PREDICT"
    BY <1>2, <1>5, <1>6, <1>7, <1>8, <2>2
       DEF NodeLinked, SummaryOf, SummaryMarked, IfConfirmed, IfPredict, Summary
  <2> QED BY <1>2, <2>1, <2>2 DEF Mode
<1>13. ASSUME NEW c \in Fan2 \ {j}
       PROVE  LeafLinked(n2, o1, t.l1[i][c], c)
  <2>1. LeafLinked(t.l2[i], t.own1[i], t.l1[i][c], c)
    BY DEF Linked
  <2>2. c \in o1 <=> c \in t.own1[i]
    OBVIOUS
  <2> HIDE DEF o1
  <2> DEFINE x == t.l1[i][c]
  <2>3. SummaryOf(t.l2[i], c, x, x.pred = {}, x.pred = Fan1,
                                 x.conf = {}, x.conf = Fan1)
    BY <2>1 DEF LeafLinked
  <2> HIDE DEF x
  <2>4. SummaryOf(n2, c, x, x.pred = {}, x.pred = Fan1,
                            x.conf = {}, x.conf = Fan1)
    BY <1>2, <1>5, <1>10, <2>3, OtherSummary
  <2> QED BY <2>1, <2>2, <2>4 DEF LeafLinked, x
<1>14. o2 \ {i} = t.own2 \ {i}
  <2>1. \A S, x : (S \cup {x}) \ {x} = S \ {x}
    OBVIOUS
  <2> QED BY <2>1
<1>15. Linked(u)
  <2> HIDE DEF o1, o2
  <2> QED BY <1>1, <1>5, <1>6, <1>9, <1>10, <1>11, <1>12, <1>13, <1>14,
             PathKeepsLinked DEF m
<1> QED BY <1>1, <1>15 DEF u

(* Without a dirty bit at the root there is none at all. *)
LEMMA CleanRoot ==
  ASSUME NEW t \in Tree, Linked(t), t.root.dirty = {}
  PROVE  \A i \in Fan3 : /\ t.l2[i].dirty = {}
                         /\ \A j \in Fan2 : t.l1[i][j].dirty = {}
<1> SUFFICES ASSUME NEW i \in Fan3
             PROVE  /\ t.l2[i].dirty = {}
                    /\ \A j \in Fan2 : t.l1[i][j].dirty = {}
  OBVIOUS
<1>1. t.l2[i].dirty = {}
  BY DEF Linked, NodeLinked, SummaryOf
<1>2. \A j \in Fan2 : t.l1[i][j].dirty = {}
  BY <1>1 DEF Linked, LeafLinked, SummaryOf
<1> QED BY <1>1, <1>2

(* In CONFIRMED mode the two images of every node have the same masks. *)
LEMMA ConfirmedNode ==
  ASSUME NEW t \in Tree, Linked(t), t.root.dirty = {}, NEW i \in Fan3
  PROVE  /\ t.l2[i].predAny = t.l2[i].confAny /\ t.l2[i].predAll = t.l2[i].confAll
         /\ \A j \in Fan2 : t.l1[i][j].pred = t.l1[i][j].conf
<1>1. t.l2[i] \in Summary(Fan2)
  BY DEF Tree
<1>2. ASSUME NEW j \in Fan2
      PROVE  /\ t.l1[i][j].pred = t.l1[i][j].conf
             /\ LeafLinked(t.l2[i], t.own1[i], t.l1[i][j], j)
  <2>1. t.l1[i][j] \in L1Node
    BY DEF Tree
  <2>2. LeafLinked(t.l2[i], t.own1[i], t.l1[i][j], j)
    BY DEF Linked
  <2>3. t.l1[i][j].dirty = {}
    BY CleanRoot
  <2>4. t.l1[i][j].pred \ {} = t.l1[i][j].conf \ {}
    BY <2>2, <2>3 DEF LeafLinked
  <2> QED BY <2>1, <2>2, <2>4 DEF L1Node
<1>3. \A j \in Fan2 : /\ j \in t.l2[i].predAny <=> j \in t.l2[i].confAny
                      /\ j \in t.l2[i].predAll <=> j \in t.l2[i].confAll
  BY <1>2 DEF LeafLinked, SummaryOf
<1>4. t.l2[i].predAny = t.l2[i].confAny
  BY <1>1, <1>3 DEF Summary
<1>5. t.l2[i].predAll = t.l2[i].confAll
  BY <1>1, <1>3 DEF Summary
<1> QED BY <1>2, <1>4, <1>5

(* A leaf that lost slot k; `changed' is any part of what it may be. *)
LeafLost(w, n, m, k) ==
  /\ w.pred = n.pred \ {k} /\ w.conf = n.conf \ IfConfirmed(m, {k})
  /\ w.dirty = n.dirty \cup IfPredict(m, {k})
  /\ w.changed \subseteq n.changed \cup {k}

(* The nodes above a leaf that lost a slot. *)
Above2(t, i, j, w) == UnmarkUp(t.l2[i], t.mode, j, w.pred = {})
Above3(t, i, j, w) ==
  UnmarkUp(t.root, t.mode, i, Above2(t, i, j, w).predAny = {})

(* A tree has allocated the nodes above a slot that is present. *)
LEMMA PresentOwned ==
  ASSUME NEW t \in Tree, Linked(t), NEW i \in Fan3, NEW j \in Fan2, NEW k \in Fan1,
         Present(t, i, j, k)
  PROVE  i \in t.own2 /\ j \in t.own1[i]
<1>1. /\ NodeLinked(t.root, t.own2, t.l2[i], t.own1[i], i)
      /\ LeafLinked(t.l2[i], t.own1[i], t.l1[i][j], j)
      /\ k \in t.l1[i][j].pred
  BY DEF Linked, Present
<1>2. NoL1.pred = {}
  BY DEF NoL1
<1>3. j \in t.own1[i]
  BY <1>1, <1>2 DEF LeafLinked
<1> QED BY <1>1, <1>3 DEF NodeLinked

(* The masks above a leaf that lost a slot, before anything is released. *)
LEMMA UnmarkLinks ==
  ASSUME NEW t \in Tree, Linked(t), NEW i \in Fan3, NEW j \in Fan2, NEW k \in Fan1,
         i \in t.own2, j \in t.own1[i], NEW w \in L1Node, LeafLost(w, t.l1[i][j], t.mode, k)
  PROVE  LET n2 == Above2(t, i, j, w)
             n3 == Above3(t, i, j, w)
         IN /\ n2 \in Summary(Fan2) /\ n3 \in Summary(Fan3)
            /\ t.mode = "CONFIRMED" => n2.dirty = {} /\ n3.dirty = {} /\ w.conf = w.pred
            /\ AgreeBut(n3, t.root, i)
            /\ LeafLinked(n2, t.own1[i], w, j)
            /\ \A c \in Fan2 \ {j} : LeafLinked(n2, t.own1[i], t.l1[i][c], c)
            /\ NodeLinked(n3, t.own2, n2, t.own1[i], i)
            /\ t.mode = "PREDICT" => k \in w.dirty /\ j \in n2.dirty
            /\ t.mode = "CONFIRMED" => n2.confAny = n2.predAny
            /\ n2.predAny = {} => i \notin n3.predAny
            /\ i \notin n3.predAll
            /\ t.mode = "CONFIRMED" /\ n2.predAny = {} =>
                 i \notin n3.confAny /\ i \notin n3.confAll
<1> DEFINE m == t.mode
           n == t.l1[i][j]
           s == t.l2[i]
           r == t.root
           e1 == w.pred = {}
           n2 == Above2(t, i, j, w)
           e2 == n2.predAny = {}
           n3 == Above3(t, i, j, w)
<1>1. /\ m \in Mode /\ n \in L1Node
      /\ s \in Summary(Fan2) /\ r \in Summary(Fan3)
      /\ t.own1[i] \subseteq Fan2 /\ t.own2 \subseteq Fan3
  BY DEF Tree
<1>2. n2 \in Summary(Fan2) /\ SummaryUnmarked(n2, s, m, j, e1)
  BY <1>1, UnmarkUpFields DEF Above2
<1>3. n3 \in Summary(Fan3) /\ SummaryUnmarked(n3, r, m, i, e2)
  BY <1>1, UnmarkUpFields DEF Above3
<1>4. /\ NodeLinked(r, t.own2, s, t.own1[i], i)
      /\ LeafLinked(s, t.own1[i], n, j)
      /\ m = "CONFIRMED" => r.dirty = {}
  BY DEF Linked
<1>5. ASSUME NEW c \in Fan2 \ {j}
      PROVE  LeafLinked(s, t.own1[i], t.l1[i][c], c)
  BY DEF Linked
<1>6. m = "CONFIRMED" => /\ s.dirty = {} /\ n.dirty = {} /\ n.pred = n.conf
                         /\ s.predAny = s.confAny /\ s.predAll = s.confAll
  BY <1>4, CleanRoot, ConfirmedNode
<1>7. j \in t.own1[i] /\ i \in t.own2
  OBVIOUS
<1>8. LeafLost(w, n, m, k)
  OBVIOUS
<1>9. (e1 <=> w.pred = {}) /\ (e2 <=> n2.predAny = {})
  OBVIOUS
<1> HIDE DEF m, n, s, r, n2, n3, e1, e2
<1>10. m = "CONFIRMED" => n2.dirty = {} /\ n3.dirty = {} /\ w.conf = w.pred /\ w.dirty = {}
  BY <1>2, <1>3, <1>4, <1>6, <1>8
     DEF SummaryUnmarked, IfPredict, LeafLost, IfConfirmed
<1>11. AgreeBut(n3, r, i) /\ AgreeBut(n2, s, j)
  BY <1>1, <1>2, <1>3
     DEF AgreeBut, SummaryUnmarked, IfConfirmed, IfPredict, Summary, Mode
<1>12. /\ w.pred # Fan1 /\ j \in n2.changed
       /\ j \notin n2.predAll
       /\ m = "CONFIRMED" => j \notin n2.confAll
       /\ m = "PREDICT" => /\ w.conf = n.conf /\ k \in w.dirty /\ j \in n2.dirty
                           /\ n2.confAny = s.confAny /\ n2.confAll = s.confAll
  <2>1. w.pred # Fan1 /\ j \in n2.changed /\ j \notin n2.predAll
    BY <1>2, <1>8 DEF LeafLost, SummaryUnmarked
  <2>2. m = "CONFIRMED" => j \notin n2.confAll
    BY <1>2 DEF SummaryUnmarked, IfConfirmed
  <2>3. ASSUME m = "PREDICT"
        PROVE  /\ w.conf = n.conf /\ k \in w.dirty /\ j \in n2.dirty
               /\ n2.confAny = s.confAny /\ n2.confAll = s.confAll
    BY <1>2, <1>8, <2>3 DEF LeafLost, SummaryUnmarked, IfConfirmed, IfPredict
  <2> QED BY <2>1, <2>2, <2>3
<1>13. j \in n2.predAny <=> w.pred # {}
  BY <1>2, <1>4, <1>8, <1>9
     DEF LeafLinked, SummaryOf, LeafLost, SummaryUnmarked
<1>14. LeafLinked(n2, t.own1[i], w, j)
  <2>1. CASE m = "CONFIRMED"
    <3>1. j \in n2.confAny <=> w.pred # {}
      BY <1>2, <1>4, <1>6, <1>8, <1>9, <2>1
         DEF LeafLinked, SummaryOf, LeafLost, SummaryUnmarked, IfConfirmed
    <3> QED BY <1>7, <1>10, <1>12, <1>13, <2>1, <3>1 DEF LeafLinked, SummaryOf
  <2>2. CASE m = "PREDICT"
    <3>1. w.pred \ w.dirty = w.conf \ w.dirty
      BY <1>4, <1>8, <2>2 DEF LeafLinked, LeafLost, IfConfirmed, IfPredict
    <3>2. /\ j \in n2.confAny <=> w.conf # {}
          /\ j \in n2.confAll <=> w.conf = Fan1
      BY <1>4, <1>12, <2>2 DEF LeafLinked, SummaryOf
    <3> QED BY <1>7, <1>12, <1>13, <2>2, <3>1, <3>2 DEF LeafLinked, SummaryOf
  <2> QED BY <1>1, <2>1, <2>2 DEF Mode
<1>15. ASSUME NEW c \in Fan2 \ {j}
       PROVE  LeafLinked(n2, t.own1[i], t.l1[i][c], c)
  BY <1>1, <1>2, <1>5, <1>11, OtherSummary DEF LeafLinked
<1>16. m = "CONFIRMED" => n2.confAny = n2.predAny
  BY <1>2, <1>6 DEF SummaryUnmarked, IfConfirmed
<1>17. /\ n2.predAll # Fan2 /\ i \in n3.changed
       /\ i \notin n3.predAll
       /\ m = "CONFIRMED" => i \notin n3.confAll /\ n2.confAll # Fan2
       /\ m = "PREDICT" => /\ i \in n3.dirty
                           /\ n3.confAny = r.confAny /\ n3.confAll = r.confAll
       /\ m = "CONFIRMED" /\ e2 => i \notin n3.confAny
  BY <1>3, <1>12 DEF SummaryUnmarked, IfConfirmed, IfPredict
<1>18. n2.predAny # {} => s.predAny # {}
  BY <1>2 DEF SummaryUnmarked
<1>19. i \in n3.predAny <=> n2.predAny # {}
  BY <1>3, <1>4, <1>9, <1>18 DEF NodeLinked, SummaryOf, SummaryUnmarked
<1>20. NodeLinked(n3, t.own2, n2, t.own1[i], i)
  <2>1. CASE m = "CONFIRMED"
    <3>1. i \in n3.confAny <=> n2.confAny # {}
      BY <1>3, <1>4, <1>6, <1>9, <1>16, <1>18, <2>1
         DEF NodeLinked, SummaryOf, SummaryUnmarked, IfConfirmed
    <3> QED BY <1>7, <1>10, <1>17, <1>19, <2>1, <3>1 DEF NodeLinked, SummaryOf
  <2>2. CASE m = "PREDICT"
    <3>1. /\ i \in n3.confAny <=> n2.confAny # {}
          /\ i \in n3.confAll <=> n2.confAll = Fan2
      BY <1>4, <1>12, <1>17, <2>2 DEF NodeLinked, SummaryOf
    <3> QED BY <1>7, <1>17, <1>19, <2>2, <3>1 DEF NodeLinked, SummaryOf
  <2> QED BY <1>1, <2>1, <2>2 DEF Mode
<1>21. e2 => i \notin n3.predAny
  BY <1>9, <1>19
<1> QED BY <1>2, <1>3, <1>7, <1>9, <1>10, <1>11, <1>12, <1>14, <1>15, <1>16, <1>17,
           <1>20, <1>21 DEF n2, n3, m, r, n, s

(* What ecs_tree_remove may leave of a node. *)
RemovedLeaf(t, w) == IF t.mode = "CONFIRMED" /\ w.pred = {} THEN NoL1 ELSE w
Frees2(t, n2) == t.mode = "CONFIRMED" /\ n2.predAny = {}

(* ecs_tree_remove rewrites an L2 node with its leaves, or one path. *)
LEMMA RemoveNode ==
  ASSUME NEW t \in Tree, NEW i \in Fan3, NEW j \in Fan2, NEW k \in Fan1
  PROVE  LET w == UnmarkL1(t.l1[i][j], t.mode, k)
             n2 == Above2(t, i, j, w)
             n3 == Above3(t, i, j, w)
             free1 == t.mode = "CONFIRMED" /\ w.pred = {}
             free2 == Frees2(t, n2)
             u == RemoveSlot(t, i, j, k)
         IN /\ u \in Tree
            /\ OneNode(t, u, i,
                 IF free2 THEN NoLeaves ELSE [t.l1[i] EXCEPT ![j] = RemovedLeaf(t, w)],
                 IF free2 THEN {} ELSE IF free1 THEN t.own1[i] \ {j} ELSE t.own1[i],
                 IF free2 THEN NoSummary ELSE n2,
                 IF free2 THEN t.own2 \ {i} ELSE t.own2, n3)
<1> DEFINE w == UnmarkL1(t.l1[i][j], t.mode, k)
           n2 == Above2(t, i, j, w)
           n3 == Above3(t, i, j, w)
           free1 == t.mode = "CONFIRMED" /\ w.pred = {}
           free2 == Frees2(t, n2)
           u == RemoveSlot(t, i, j, k)
           row == IF free2 THEN NoLeaves ELSE [t.l1[i] EXCEPT ![j] = RemovedLeaf(t, w)]
           o1 == IF free2 THEN {} ELSE IF free1 THEN t.own1[i] \ {j} ELSE t.own1[i]
           w2 == IF free2 THEN NoSummary ELSE n2
           o2 == IF free2 THEN t.own2 \ {i} ELSE t.own2
<1>1. /\ t.mode \in Mode /\ t.l1[i][j] \in L1Node
      /\ t.l2[i] \in Summary(Fan2) /\ t.root \in Summary(Fan3)
  BY DEF Tree
<1>2. w \in L1Node
  BY <1>1, UnmarkL1Fields
<1>3. n2 \in Summary(Fan2)
  BY <1>1, UnmarkUpFields DEF Above2
<1>4. n3 \in Summary(Fan3)
  BY <1>1, UnmarkUpFields DEF Above3
<1>5. RemovedLeaf(t, w) \in L1Node /\ w2 \in Summary(Fan2)
  BY <1>2, <1>3, DefaultNodes DEF RemovedLeaf
<1>6. row \in [Fan2 -> L1Node]
  BY <1>5, DefaultNodes DEF Tree, NoLeaves
<1>7. o1 \in SUBSET Fan2 /\ o2 \in SUBSET Fan3
  BY DEF Tree
<1>8. u = [t EXCEPT !.l1[i] = row, !.own1[i] = o1,
                    !.l2[i] = w2, !.own2 = o2, !.root = n3]
  BY DEF RemoveSlot, RemovedLeaf, Frees2, Above2, Above3
<1> HIDE DEF w, n2, n3, u, row, w2, o1, o2, free1, free2
<1>9. /\ OneNode(t, u, i, row, o1, w2, o2, n3)
      /\ u = [mode |-> u.mode, root |-> u.root, own2 |-> u.own2,
              l2 |-> u.l2, own1 |-> u.own1, l1 |-> u.l1]
  BY <1>8 DEF Tree, OneNode
<1>10. u \in Tree
  <2>1. /\ u.mode \in Mode /\ u.root \in Summary(Fan3)
        /\ u.own2 \in SUBSET Fan3 /\ u.l2 \in [Fan3 -> Summary(Fan2)]
    BY <1>1, <1>4, <1>5, <1>7, <1>9 DEF Tree, OneNode
  <2>2. /\ u.own1 \in [Fan3 -> SUBSET Fan2]
        /\ u.l1 \in [Fan3 -> [Fan2 -> L1Node]]
    BY <1>6, <1>7, <1>9 DEF Tree, OneNode
  <2> QED BY <1>9, <2>1, <2>2 DEF Tree
<1> QED BY <1>9, <1>10 DEF u, w, row, o1, w2, o2, n2, n3, free1, free2

(* The leaf of a removal, field by field. *)
LEMMA RemovalLost ==
  ASSUME NEW t \in Tree, NEW i \in Fan3, NEW j \in Fan2, NEW k \in Fan1
  PROVE  LET n == t.l1[i][j]
             w == UnmarkL1(n, t.mode, k)
         IN /\ w \in L1Node /\ LeafLost(w, n, t.mode, k)
            /\ w.cval = n.cval /\ w.pval = n.pval
<1> DEFINE n == t.l1[i][j]
           w == UnmarkL1(n, t.mode, k)
<1>1. n \in L1Node /\ t.mode \in Mode
  BY DEF Tree
<1>2. /\ w \in L1Node /\ LeafUnmarked(w, n, t.mode, k)
      /\ w.cval = n.cval /\ w.pval = n.pval
  BY <1>1, UnmarkL1Fields
<1> HIDE DEF n, w
<1>3. LeafLost(w, n, t.mode, k)
  BY <1>2 DEF LeafUnmarked, LeafLost
<1> QED BY <1>2, <1>3 DEF n, w

(* A removal preserves the links. *)
LEMMA RemoveLinks ==
  ASSUME NEW t \in Tree, Linked(t),
         NEW i \in Fan3, NEW j \in Fan2, NEW k \in Fan1, Present(t, i, j, k)
  PROVE  RemoveSlot(t, i, j, k) \in Tree /\ Linked(RemoveSlot(t, i, j, k))
<1> DEFINE w == UnmarkL1(t.l1[i][j], t.mode, k)
           n2 == Above2(t, i, j, w)
           n3 == Above3(t, i, j, w)
           free1 == t.mode = "CONFIRMED" /\ w.pred = {}
           free2 == Frees2(t, n2)
           row == IF free2 THEN NoLeaves ELSE [t.l1[i] EXCEPT ![j] = RemovedLeaf(t, w)]
           o1 == IF free2 THEN {} ELSE IF free1 THEN t.own1[i] \ {j} ELSE t.own1[i]
           w2 == IF free2 THEN NoSummary ELSE n2
           o2 == IF free2 THEN t.own2 \ {i} ELSE t.own2
           u == RemoveSlot(t, i, j, k)
<1>1. u \in Tree /\ OneNode(t, u, i, row, o1, w2, o2, n3)
  BY RemoveNode
<1>2. w \in L1Node /\ LeafLost(w, t.l1[i][j], t.mode, k)
  BY RemovalLost
<1> HIDE DEF w, u
<1>3. /\ n2 \in Summary(Fan2) /\ n3 \in Summary(Fan3)
      /\ t.mode = "CONFIRMED" => n2.dirty = {} /\ n3.dirty = {} /\ w.conf = w.pred
      /\ AgreeBut(n3, t.root, i)
      /\ LeafLinked(n2, t.own1[i], w, j)
      /\ \A c \in Fan2 \ {j} : LeafLinked(n2, t.own1[i], t.l1[i][c], c)
      /\ NodeLinked(n3, t.own2, n2, t.own1[i], i)
      /\ i \in t.own2 /\ j \in t.own1[i]
  BY <1>2, UnmarkLinks, PresentOwned
<1>4. /\ t.mode = "CONFIRMED" => n2.confAny = n2.predAny
      /\ n2.predAny = {} => i \notin n3.predAny
      /\ i \notin n3.predAll
      /\ t.mode = "CONFIRMED" /\ n2.predAny = {} =>
           i \notin n3.confAny /\ i \notin n3.confAll
  BY <1>2, UnmarkLinks, PresentOwned
<1>5. w2 \in Summary(Fan2) /\ o2 \ {i} = t.own2 \ {i}
  BY <1>3, DefaultNodes
<1> HIDE DEF n2, n3
<1>6. NodeLinked(n3, o2, w2, o1, i)
  <2>1. CASE free2
    BY <1>4, <2>1 DEF NodeLinked, SummaryOf, NoSummary, Frees2
  <2>2. CASE ~ free2
    BY <1>3, <2>2 DEF NodeLinked
  <2> QED BY <2>1, <2>2
<1>7. ASSUME NEW c \in Fan2
      PROVE  LeafLinked(w2, o1, row[c], c)
  <2>1. CASE free2
    BY <2>1 DEF LeafLinked, SummaryOf, NoSummary, NoLeaves, NoL1
  <2>2. CASE ~ free2 /\ c # j
    <3>1. row[c] = t.l1[i][c] /\ w2 = n2 /\ (c \in o1 <=> c \in t.own1[i])
      BY <2>2 DEF Tree
    <3>2. LeafLinked(n2, t.own1[i], t.l1[i][c], c)
      BY <1>3, <2>2
    <3> HIDE DEF row, o1, w2
    <3> QED BY <3>1, <3>2 DEF LeafLinked
  <2>3. CASE ~ free2 /\ c = j
    <3>1. row[c] = RemovedLeaf(t, w) /\ w2 = n2 /\ LeafLinked(n2, t.own1[i], w, j)
      BY <1>3, <2>3 DEF Tree
    <3>2. CASE free1
      <4>1. row[c] = NoL1 /\ w.conf = {} /\ w.pred = {}
        BY <1>3, <3>1, <3>2 DEF RemovedLeaf
      <4> HIDE DEF row, o1, w2
      <4> QED BY <2>3, <3>1, <4>1 DEF LeafLinked, SummaryOf, NoL1
    <3>3. CASE ~ free1
      <4>1. row[c] = w /\ o1 = t.own1[i]
        BY <2>3, <3>1, <3>3 DEF RemovedLeaf
      <4> HIDE DEF row, o1, w2
      <4> QED BY <2>3, <3>1, <4>1
    <3> QED BY <3>2, <3>3
  <2> QED BY <2>1, <2>2, <2>3
<1> HIDE DEF row, o1, w2, o2, free1, free2
<1>8. Linked(u)
  BY <1>1, <1>3, <1>5, <1>6, <1>7, NodeKeepsLinked
<1> QED BY <1>1, <1>8 DEF u

-----------------------------------------------------------------------------
(* End of tick: the walk along the changed bits reaches all of them. *)

(* ecs_tree_end_tick, node by node: only `changed' is cleared. *)
LEMMA ClearChangedParts ==
  ASSUME NEW t \in Tree, Linked(t)
  PROVE  LET u == ClearChanged(t)
         IN /\ u \in Tree /\ u.mode = t.mode
            /\ u.own2 = t.own2 /\ u.own1 = t.own1
            /\ u.root = [t.root EXCEPT !.changed = {}]
            /\ \A i \in Fan3 :
                 /\ u.l2[i] = [t.l2[i] EXCEPT !.changed = {}]
                 /\ \A j \in Fan2 : u.l1[i][j] = [t.l1[i][j] EXCEPT !.changed = {}]
<1> DEFINE u == ClearChanged(t)
           f2 == [i \in Fan3 |-> IF i \in t.root.changed \cap t.own2
                                   THEN [t.l2[i] EXCEPT !.changed = {}]
                                   ELSE t.l2[i]]
           f1 == [i \in Fan3 |-> [j \in Fan2 |->
                    IF EndTickReaches(t, i, j)
                      THEN [t.l1[i][j] EXCEPT !.changed = {}]
                      ELSE t.l1[i][j]]]
           r == [t.root EXCEPT !.changed = {}]
<1>1. u = [t EXCEPT !.root.changed = {}, !.l2 = f2, !.l1 = f1]
  BY DEF ClearChanged
<1>2. r \in Summary(Fan3)
  BY DEF Tree, Summary
<1>3. ASSUME NEW i \in Fan3
      PROVE  /\ f2[i] \in Summary(Fan2)
             /\ f2[i] = [t.l2[i] EXCEPT !.changed = {}]
  <2>1. t.l2[i] \in Summary(Fan2)
    BY DEF Tree
  <2>2. i \notin t.root.changed \cap t.own2 => t.l2[i].changed = {}
    BY DEF Linked, NodeLinked, SummaryOf, NoSummary
  <2>3. t.l2[i].changed = {} => [t.l2[i] EXCEPT !.changed = {}] = t.l2[i]
    BY <2>1 DEF Summary
  <2>4. [t.l2[i] EXCEPT !.changed = {}] \in Summary(Fan2)
    BY <2>1 DEF Summary
  <2> QED BY <2>1, <2>2, <2>3, <2>4
<1>4. ASSUME NEW i \in Fan3, NEW j \in Fan2
      PROVE  /\ f1[i][j] \in L1Node
             /\ f1[i][j] = [t.l1[i][j] EXCEPT !.changed = {}]
  <2>1. t.l1[i][j] \in L1Node
    BY DEF Tree
  <2>2. ~ EndTickReaches(t, i, j) => t.l1[i][j].changed = {}
    BY DEF EndTickReaches, Linked, NodeLinked, LeafLinked, SummaryOf, NoL1
  <2>3. t.l1[i][j].changed = {} => [t.l1[i][j] EXCEPT !.changed = {}] = t.l1[i][j]
    BY <2>1 DEF L1Node
  <2>4. [t.l1[i][j] EXCEPT !.changed = {}] \in L1Node
    BY <2>1 DEF L1Node
  <2> QED BY <2>1, <2>2, <2>3, <2>4
<1>5. f2 \in [Fan3 -> Summary(Fan2)] /\ f1 \in [Fan3 -> [Fan2 -> L1Node]]
  BY <1>3, <1>4
<1> HIDE DEF f1, f2, u
<1>6. /\ u.mode = t.mode /\ u.own2 = t.own2 /\ u.own1 = t.own1
      /\ u.root = r /\ u.l2 = f2 /\ u.l1 = f1
      /\ u = [mode |-> u.mode, root |-> u.root, own2 |-> u.own2,
              l2 |-> u.l2, own1 |-> u.own1, l1 |-> u.l1]
  BY <1>1 DEF Tree
<1>7. u \in Tree
  <2> HIDE DEF r
  <2>1. /\ u.mode \in Mode /\ u.own2 \in SUBSET Fan3
        /\ u.own1 \in [Fan3 -> SUBSET Fan2]
    BY <1>6 DEF Tree
  <2> QED BY <1>2, <1>5, <1>6, <2>1 DEF Tree
<1>8. \A i \in Fan3 : u.l2[i] = [t.l2[i] EXCEPT !.changed = {}]
  BY <1>3, <1>6
<1>9. \A i \in Fan3, j \in Fan2 : u.l1[i][j] = [t.l1[i][j] EXCEPT !.changed = {}]
  BY <1>4, <1>6
<1> QED BY <1>6, <1>7, <1>8, <1>9 DEF u

(* End of tick preserves the invariant. *)
LEMMA ClearChangedLinks ==
  ASSUME NEW t \in Tree, Linked(t)
  PROVE  ClearChanged(t) \in Tree /\ Linked(ClearChanged(t))
<1> DEFINE u == ClearChanged(t)
<1>1. /\ u \in Tree /\ u.mode = t.mode
      /\ u.own2 = t.own2 /\ u.own1 = t.own1
      /\ u.root = [t.root EXCEPT !.changed = {}]
      /\ \A i \in Fan3 :
           /\ u.l2[i] = [t.l2[i] EXCEPT !.changed = {}]
           /\ \A j \in Fan2 : u.l1[i][j] = [t.l1[i][j] EXCEPT !.changed = {}]
  BY ClearChangedParts
<1> HIDE DEF u
<1>2. ASSUME NEW i \in Fan3
      PROVE  NodeLinked(u.root, u.own2, u.l2[i], u.own1[i], i)
  <2>1. t.l2[i] \in Summary(Fan2) /\ t.root \in Summary(Fan3)
    BY DEF Tree
  <2>2. NodeLinked(t.root, t.own2, t.l2[i], t.own1[i], i)
    BY DEF Linked
  <2> DEFINE s == t.l2[i]
             w == [t.l2[i] EXCEPT !.changed = {}]
             r == [t.root EXCEPT !.changed = {}]
  <2>3. /\ w.predAny = s.predAny /\ w.predAll = s.predAll
        /\ w.confAny = s.confAny /\ w.confAll = s.confAll
        /\ w.dirty = s.dirty /\ w.changed = {}
    BY <2>1 DEF Summary
  <2>6. s = NoSummary => w = NoSummary
    <3>1. [NoSummary EXCEPT !.changed = {}] = NoSummary
      BY DEF NoSummary
    <3> QED BY <3>1
  <2>4. /\ r.predAny = t.root.predAny /\ r.predAll = t.root.predAll
        /\ r.confAny = t.root.confAny /\ r.confAll = t.root.confAll
        /\ r.dirty = t.root.dirty /\ r.changed = {}
    BY <2>1 DEF Summary
  <2>5. u.l2[i] = w /\ u.root = r
    BY <1>1
  <2> HIDE DEF w, r, s
  <2>7. NodeLinked(t.root, t.own2, s, t.own1[i], i)
    BY <2>2 DEF s
  <2>8. NodeLinked(r, t.own2, w, t.own1[i], i)
    BY <2>3, <2>4, <2>6, <2>7 DEF NodeLinked, SummaryOf
  <2> QED BY <1>1, <2>5, <2>8
<1>3. ASSUME NEW i \in Fan3, NEW j \in Fan2
      PROVE  LeafLinked(u.l2[i], u.own1[i], u.l1[i][j], j)
  <2>1. t.l2[i] \in Summary(Fan2) /\ t.l1[i][j] \in L1Node
    BY DEF Tree
  <2>2. LeafLinked(t.l2[i], t.own1[i], t.l1[i][j], j)
    BY DEF Linked
  <2> DEFINE s == t.l2[i]
             n == t.l1[i][j]
             w == [t.l2[i] EXCEPT !.changed = {}]
             x == [t.l1[i][j] EXCEPT !.changed = {}]
  <2>3. /\ w.predAny = s.predAny /\ w.predAll = s.predAll
        /\ w.confAny = s.confAny /\ w.confAll = s.confAll
        /\ w.dirty = s.dirty /\ w.changed = {}
    BY <2>1 DEF Summary
  <2>4. /\ x.pred = n.pred /\ x.conf = n.conf
        /\ x.dirty = n.dirty /\ x.changed = {}
    BY <2>1 DEF L1Node
  <2>6. n = NoL1 => x = NoL1
    <3>1. [NoL1 EXCEPT !.changed = {}] = NoL1
      BY DEF NoL1
    <3> QED BY <3>1
  <2>5. u.l2[i] = w /\ u.l1[i][j] = x
    BY <1>1
  <2> HIDE DEF w, x
  <2> QED BY <1>1, <2>2, <2>3, <2>4, <2>5, <2>6 DEF LeafLinked, SummaryOf
<1>4. u.mode = "CONFIRMED" => u.root.dirty = {}
  BY <1>1 DEF Linked, Tree, Summary
<1> QED BY <1>1, <1>2, <1>3, <1>4 DEF Linked, u

-----------------------------------------------------------------------------
(* Rollback: whatever the walk skips was already at rest. *)

(* A leaf, and a summary, with nothing of the tick left. *)
LeafRolled(w, n) ==
  w.conf = n.conf /\ w.pred = n.conf /\ w.dirty = {} /\ w.changed = {}

SummaryRolled(w, s) ==
  /\ w.confAny = s.confAny /\ w.predAny = s.confAny
  /\ w.confAll = s.confAll /\ w.predAll = s.confAll
  /\ w.dirty = {} /\ w.changed = {}

(* The nodes of a rolled-back tree, and the ones it still owns. *)
LeafAfter(t, i, j) ==
  IF RollbackFrees2(t, i) THEN NoL1
  ELSE IF RollbackReaches(t, i, j) THEN RolledL1(t.l1[i][j]) ELSE t.l1[i][j]

Own1After(t, i) ==
  IF RollbackFrees2(t, i) THEN {} ELSE t.own1[i] \
    {j \in Fan2 : RollbackReaches(t, i, j) /\ t.l1[i][j].conf = {}}

NodeAfter(t, i) == IF RollbackReaches2(t, i) THEN RolledL2(t.l2[i]) ELSE t.l2[i]

Own2After(t) == t.own2 \ {i \in Fan3 : RollbackFrees2(t, i)}

(* A leaf after the rollback, reached by its walk or not. *)
LEMMA LeafRollback ==
  ASSUME NEW t \in Tree, Linked(t), NEW i \in Fan3, NEW j \in Fan2
  PROVE  LET n == t.l1[i][j]
             w == LeafAfter(t, i, j)
         IN /\ w \in L1Node /\ LeafRolled(w, n)
            /\ \A k \in n.conf : w.cval[k] = n.cval[k]
            /\ j \notin Own1After(t, i) => w = NoL1
<1> DEFINE n == t.l1[i][j]
           w == LeafAfter(t, i, j)
<1>1. n \in L1Node
  BY DEF Tree
<1>2. LeafLinked(t.l2[i], t.own1[i], n, j)
      /\ NodeLinked(t.root, t.own2, t.l2[i], t.own1[i], i)
  BY DEF Linked
<1>3. n.dirty # {} \/ n.changed # {} => RollbackReaches(t, i, j)
  BY <1>2 DEF LeafLinked, NodeLinked, SummaryOf, NoSummary, NoL1,
              RollbackReaches, RollbackReaches2, Touched
<1>4. CASE RollbackFrees2(t, i)
  <2>1. w = NoL1
    BY <1>4 DEF LeafAfter
  <2>2. n.conf = {}
    BY <1>2, <1>4 DEF RollbackFrees2, LeafLinked, SummaryOf
  <2> HIDE DEF w, n
  <2>3. LeafRolled(w, n)
    BY <2>1, <2>2 DEF LeafRolled, NoL1
  <2> QED BY <2>1, <2>2, <2>3, DefaultNodes DEF w, n
<1>5. CASE ~ RollbackFrees2(t, i) /\ ~ RollbackReaches(t, i, j)
  <2>1. w = n
    BY <1>5 DEF LeafAfter
  <2>2. j \in Own1After(t, i) <=> j \in t.own1[i]
    BY <1>5 DEF Own1After
  <2> HIDE DEF w, n
  <2>3. n.dirty = {} /\ n.changed = {}
    BY <1>3, <1>5
  <2>4. n.pred = n.conf
    BY <1>1, <1>2, <2>3 DEF LeafLinked, L1Node
  <2>5. LeafRolled(w, n)
    BY <2>1, <2>3, <2>4 DEF LeafRolled
  <2>6. j \notin t.own1[i] => n = NoL1
    BY <1>2 DEF LeafLinked
  <2> QED BY <1>1, <2>1, <2>2, <2>5, <2>6 DEF w, n
<1>6. CASE ~ RollbackFrees2(t, i) /\ RollbackReaches(t, i, j)
  <2>1. w = RolledL1(n)
    BY <1>6 DEF LeafAfter
  <2>2. j \in Own1After(t, i) <=> j \in t.own1[i] /\ n.conf # {}
    BY <1>6 DEF Own1After
  <2>3. j \in t.own1[i]
    BY <1>6 DEF RollbackReaches
  <2> HIDE DEF w, n
  <2>4. CASE n.conf = {}
    <3>1. w = NoL1
      BY <2>1, <2>4 DEF RolledL1
    <3>2. w \in L1Node /\ LeafRolled(w, n)
      BY <2>4, <3>1, DefaultNodes DEF LeafRolled, NoL1
    <3> QED BY <2>4, <3>1, <3>2 DEF n, w
  <2>5. CASE n.conf # {}
    <3>1. w = [n EXCEPT !.pred = n.conf, !.dirty = {}, !.changed = {}]
      BY <2>1, <2>5 DEF RolledL1
    <3>2. w \in L1Node /\ w.cval = n.cval
      BY <1>1, <3>1 DEF L1Node
    <3>3. LeafRolled(w, n)
      BY <1>1, <3>1 DEF L1Node, LeafRolled
    <3> QED BY <2>2, <2>3, <2>5, <3>2, <3>3 DEF n, w
  <2> QED BY <2>4, <2>5
<1> QED BY <1>4, <1>5, <1>6

(* The masks of a summary that was rolled back. *)
LEMMA RolledFields ==
  ASSUME NEW Fan, NEW s \in Summary(Fan)
  PROVE  Rolled(s) \in Summary(Fan) /\ SummaryRolled(Rolled(s), s)
BY DEF Rolled, Summary, SummaryRolled

(* An L2 node after the rollback, reached by its walk or not. *)
LEMMA NodeRollback ==
  ASSUME NEW t \in Tree, Linked(t), NEW i \in Fan3
  PROVE  LET s == t.l2[i]
             w == NodeAfter(t, i)
         IN /\ w \in Summary(Fan2) /\ SummaryRolled(w, s)
            /\ s.confAny = {} => w = NoSummary
            /\ i \notin Own2After(t) => s.confAny = {} /\ Own1After(t, i) = {}
<1> DEFINE s == t.l2[i]
           w == NodeAfter(t, i)
<1>1. s \in Summary(Fan2)
  BY DEF Tree
<1>2. NodeLinked(t.root, t.own2, s, t.own1[i], i)
  BY DEF Linked
<1>3. \A j \in Fan2 : LeafLinked(s, t.own1[i], t.l1[i][j], j)
  BY DEF Linked
<1>4. s.dirty # {} \/ s.changed # {} => RollbackReaches2(t, i)
  BY <1>2 DEF NodeLinked, SummaryOf, NoSummary, RollbackReaches2, Touched
<1>5. \A j \in Fan2 : t.l1[i][j] \in L1Node
  BY DEF Tree
<1>6. i \notin Own2After(t) => s.confAny = {} /\ Own1After(t, i) = {}
  <2>1. i \notin t.own2 => s.confAny = {} /\ t.own1[i] = {}
    BY <1>2 DEF NodeLinked, NoSummary
  <2> QED BY <2>1 DEF Own2After, Own1After, RollbackFrees2
<1> HIDE DEF s
<1>7. s.confAny = {} => s.confAll = {}
  BY <1>1, <1>3 DEF LeafLinked, SummaryOf, Summary
<1>8. CASE ~ RollbackReaches2(t, i)
  <2>1. s.dirty = {} /\ s.changed = {}
    BY <1>4, <1>8
  <2>2. \A j \in Fan2 : t.l1[i][j].dirty = {}
    BY <1>3, <2>1 DEF LeafLinked, SummaryOf
  <2>3. ASSUME NEW j \in Fan2
        PROVE  t.l1[i][j].pred = t.l1[i][j].conf
    <3>1. t.l1[i][j].pred \subseteq Fan1 /\ t.l1[i][j].conf \subseteq Fan1
      BY <1>5 DEF L1Node
    <3>2. t.l1[i][j].pred \ {} = t.l1[i][j].conf \ {}
      BY <1>3, <2>2 DEF LeafLinked
    <3> QED BY <3>1, <3>2
  <2>4. s.predAny = s.confAny
    <3>1. \A j \in Fan2 : j \in s.predAny <=> j \in s.confAny
      BY <1>3, <2>3 DEF LeafLinked, SummaryOf
    <3> QED BY <1>1, <3>1 DEF Summary
  <2>5. s.predAll = s.confAll
    <3>1. \A j \in Fan2 : j \in s.predAll <=> j \in s.confAll
      BY <1>3, <2>3 DEF LeafLinked, SummaryOf
    <3> QED BY <1>1, <3>1 DEF Summary
  <2>6. ASSUME s.confAny = {}
        PROVE  s = NoSummary
    <3>1. s = [confAny |-> s.confAny, confAll |-> s.confAll,
               predAny |-> s.predAny, predAll |-> s.predAll,
               dirty |-> s.dirty, changed |-> s.changed]
      BY <1>1 DEF Summary
    <3> QED BY <1>7, <2>1, <2>4, <2>5, <2>6, <3>1 DEF NoSummary
  <2>7. w = s
    BY <1>8 DEF NodeAfter, s
  <2> HIDE DEF w
  <2>8. w \in Summary(Fan2) /\ SummaryRolled(w, s) /\ (s.confAny = {} => w = NoSummary)
    BY <1>1, <2>1, <2>4, <2>5, <2>6, <2>7 DEF SummaryRolled
  <2> QED BY <1>6, <2>8 DEF w, s
<1>9. CASE RollbackReaches2(t, i)
  <2>1. w = RolledL2(s)
    BY <1>9 DEF NodeAfter, s
  <2> HIDE DEF w
  <2>2. CASE s.confAny = {}
    <3>1. w = NoSummary
      BY <2>1, <2>2 DEF RolledL2
    <3>2. w \in Summary(Fan2) /\ SummaryRolled(w, s)
      BY <1>7, <2>2, <3>1, DefaultNodes DEF SummaryRolled, NoSummary
    <3> QED BY <1>6, <3>1, <3>2 DEF w, s
  <2>3. CASE s.confAny # {}
    <3>1. w = Rolled(s)
      BY <2>1, <2>3 DEF RolledL2
    <3>2. w \in Summary(Fan2) /\ SummaryRolled(w, s)
      BY <1>1, <3>1, RolledFields
    <3> QED BY <1>6, <2>3, <3>2 DEF w, s
  <2> QED BY <2>2, <2>3
<1> QED BY <1>8, <1>9

(* The tree a rollback leaves: every node rolled, and default where it is not
   owned. *)
TreeRolled(u, t) ==
  /\ u.mode = t.mode
  /\ SummaryRolled(u.root, t.root)
  /\ \A i \in Fan3 :
       /\ SummaryRolled(u.l2[i], t.l2[i])
       /\ t.l2[i].confAny = {} => u.l2[i] = NoSummary
       /\ i \notin u.own2 => t.l2[i].confAny = {} /\ u.own1[i] = {}
       /\ \A j \in Fan2 :
            /\ LeafRolled(u.l1[i][j], t.l1[i][j])
            /\ \A k \in t.l1[i][j].conf : u.l1[i][j].cval[k] = t.l1[i][j].cval[k]
            /\ j \notin u.own1[i] => u.l1[i][j] = NoL1

(* The root after the rollback. *)
LEMMA RootRollback ==
  ASSUME NEW t \in Tree, Linked(t), Touched(t.root) = {}
  PROVE  SummaryRolled(t.root, t.root)
<1>1. t.root \in Summary(Fan3)
  BY DEF Tree
<1>2. t.root.dirty = {} /\ t.root.changed = {}
  BY DEF Touched
<1>3. ASSUME NEW i \in Fan3
      PROVE  /\ i \in t.root.predAny <=> i \in t.root.confAny
             /\ i \in t.root.predAll <=> i \in t.root.confAll
  <2>1. NodeLinked(t.root, t.own2, t.l2[i], t.own1[i], i)
    BY DEF Linked
  <2>2. ~ RollbackReaches2(t, i)
    BY DEF RollbackReaches2
  <2>3. SummaryRolled(t.l2[i], t.l2[i])
    BY <2>2, NodeRollback DEF NodeAfter
  <2> QED BY <2>1, <2>3 DEF NodeLinked, SummaryOf, SummaryRolled
<1>4. t.root.predAny = t.root.confAny
  BY <1>1, <1>3 DEF Summary
<1>5. t.root.predAll = t.root.confAll
  BY <1>1, <1>3 DEF Summary
<1> QED BY <1>2, <1>4, <1>5 DEF SummaryRolled

(* ecs_tree_rollback, node by node. *)
LEMMA RollbackParts ==
  ASSUME NEW t \in Tree, Linked(t)
  PROVE  LET u == Rollback(t)
         IN /\ u \in Tree /\ TreeRolled(u, t)
            /\ u.own2 = Own2After(t)
            /\ \A i \in Fan3 : u.own1[i] = Own1After(t, i)
<1> DEFINE u == Rollback(t)
           f1 == [i \in Fan3 |-> [j \in Fan2 |-> LeafAfter(t, i, j)]]
           g1 == [i \in Fan3 |-> Own1After(t, i)]
           f2 == [i \in Fan3 |-> NodeAfter(t, i)]
           g2 == Own2After(t)
<1>1. ASSUME NEW i \in Fan3, NEW j \in Fan2
      PROVE  /\ f1[i][j] \in L1Node /\ LeafRolled(f1[i][j], t.l1[i][j])
             /\ \A k \in t.l1[i][j].conf : f1[i][j].cval[k] = t.l1[i][j].cval[k]
             /\ j \notin g1[i] => f1[i][j] = NoL1
  BY LeafRollback
<1>2. ASSUME NEW i \in Fan3
      PROVE  /\ f2[i] \in Summary(Fan2) /\ SummaryRolled(f2[i], t.l2[i])
             /\ t.l2[i].confAny = {} => f2[i] = NoSummary
             /\ i \notin g2 => t.l2[i].confAny = {} /\ g1[i] = {}
             /\ g1[i] = Own1After(t, i)
  BY NodeRollback
<1>3. /\ t.mode \in Mode /\ t.root \in Summary(Fan3)
      /\ g2 \in SUBSET Fan3 /\ g1 \in [Fan3 -> SUBSET Fan2]
  BY DEF Tree, Own1After, Own2After
<1>4. f2 \in [Fan3 -> Summary(Fan2)] /\ f1 \in [Fan3 -> [Fan2 -> L1Node]]
  BY <1>1, <1>2
<1>5. CASE Touched(t.root) = {}
  <2>1. u = t
    BY <1>5 DEF Rollback
  <2>2. \A i \in Fan3 : ~ RollbackReaches2(t, i) /\ ~ RollbackFrees2(t, i)
    BY <1>5 DEF RollbackReaches2, RollbackFrees2
  <2>3. g2 = t.own2
    BY <2>2 DEF Own2After
  <2>4. ASSUME NEW i \in Fan3
        PROVE  /\ f2[i] = t.l2[i] /\ g1[i] = t.own1[i]
               /\ \A j \in Fan2 : f1[i][j] = t.l1[i][j]
    BY <2>2 DEF NodeAfter, Own1After, LeafAfter, RollbackReaches
  <2>5. SummaryRolled(t.root, t.root)
    BY <1>5, RootRollback
  <2> HIDE DEF f1, g1, f2, g2
  <2>6. TreeRolled(t, t)
    BY <1>1, <1>2, <2>3, <2>4, <2>5 DEF TreeRolled
  <2> QED BY <1>2, <2>1, <2>3, <2>4, <2>6 DEF g2
<1>6. CASE Touched(t.root) # {}
  <2>1. u = [t EXCEPT !.l1 = f1, !.own1 = g1, !.l2 = f2, !.own2 = g2,
                      !.root = Rolled(@)]
    BY <1>6 DEF Rollback, LeafAfter, Own1After, NodeAfter, Own2After
  <2>2. Rolled(t.root) \in Summary(Fan3) /\ SummaryRolled(Rolled(t.root), t.root)
    BY <1>3, RolledFields
  <2> HIDE DEF f1, g1, f2, g2, u
  <2>3. /\ u.mode = t.mode /\ u.root = Rolled(t.root) /\ u.own2 = g2
        /\ u.l2 = f2 /\ u.own1 = g1 /\ u.l1 = f1
        /\ u = [mode |-> u.mode, root |-> u.root, own2 |-> u.own2,
                l2 |-> u.l2, own1 |-> u.own1, l1 |-> u.l1]
    BY <2>1 DEF Tree
  <2>4. u \in Tree
    BY <1>3, <1>4, <2>2, <2>3 DEF Tree
  <2>5. TreeRolled(u, t)
    BY <1>1, <1>2, <2>2, <2>3 DEF TreeRolled
  <2> QED BY <1>2, <2>3, <2>4, <2>5 DEF u, g2
<1> QED BY <1>5, <1>6

(* A rollback preserves the links. *)
LEMMA RollbackLinks ==
  ASSUME NEW t \in Tree, Linked(t)
  PROVE  Rollback(t) \in Tree /\ Linked(Rollback(t))
<1> DEFINE u == Rollback(t)
<1>1. u \in Tree /\ TreeRolled(u, t)
  BY RollbackParts
<1> HIDE DEF u
<1>2. ASSUME NEW i \in Fan3
      PROVE  NodeLinked(u.root, u.own2, u.l2[i], u.own1[i], i)
  <2>1. NodeLinked(t.root, t.own2, t.l2[i], t.own1[i], i)
    BY DEF Linked
  <2>2. /\ SummaryRolled(u.root, t.root) /\ SummaryRolled(u.l2[i], t.l2[i])
        /\ t.l2[i].confAny = {} => u.l2[i] = NoSummary
        /\ i \notin u.own2 => t.l2[i].confAny = {} /\ u.own1[i] = {}
    BY <1>1 DEF TreeRolled
  <2> QED BY <2>1, <2>2 DEF NodeLinked, SummaryOf, SummaryRolled
<1>3. ASSUME NEW i \in Fan3, NEW j \in Fan2
      PROVE  LeafLinked(u.l2[i], u.own1[i], u.l1[i][j], j)
  <2>1. LeafLinked(t.l2[i], t.own1[i], t.l1[i][j], j)
    BY DEF Linked
  <2>2. /\ SummaryRolled(u.l2[i], t.l2[i]) /\ LeafRolled(u.l1[i][j], t.l1[i][j])
        /\ j \notin u.own1[i] => u.l1[i][j] = NoL1
    BY <1>1 DEF TreeRolled
  <2> QED BY <2>1, <2>2 DEF LeafLinked, SummaryOf, SummaryRolled, LeafRolled
<1>4. u.root.dirty = {}
  BY <1>1 DEF TreeRolled, SummaryRolled
<1> QED BY <1>1, <1>2, <1>3, <1>4 DEF Linked, u

-----------------------------------------------------------------------------
(* Snapshots: a loaded tree is the store that was read, and nothing else. *)

(* The slots, leaves and nodes where a store holds something. *)
HeldSlots(store, i, j) == {k \in Fan1 : store[<<i, j, k>>] # Absent}
HeldLeaves(store, i) == {j \in Fan2 : \E k \in Fan1 : store[<<i, j, k>>] # Absent}
HeldNodes(store) ==
  {i \in Fan3 : \E j \in Fan2 : \E k \in Fan1 : store[<<i, j, k>>] # Absent}
FullLeaves(store, i) == {j \in HeldLeaves(store, i) : HeldSlots(store, i, j) = Fan1}

(* The domains of a store's feed, level by level. *)
LEMMA FeedDomains ==
  ASSUME NEW store
  PROVE  /\ DOMAIN FeedOf(store) = HeldNodes(store)
         /\ \A i \in HeldNodes(store) :
              /\ DOMAIN FeedOf(store)[i] = HeldLeaves(store, i)
              /\ \A j \in HeldLeaves(store, i) :
                   FeedOf(store)[i][j]
                     = [k \in HeldSlots(store, i, j) |-> store[<<i, j, k>>]]
BY DEF FeedOf, HeldNodes, HeldLeaves, HeldSlots

(* Both images of a loaded node are the same, and it is clean. *)
LEMMA LoadedFields ==
  ASSUME NEW any, NEW all
  PROVE  LET s == LoadedSummary(any, all)
         IN /\ s.predAny = any /\ s.predAll = all
            /\ s.confAny = any /\ s.confAll = all
            /\ s.dirty = {} /\ s.changed = {}
BY DEF LoadedSummary

LeafLoaded(n, store, i, j) ==
  /\ n.conf = HeldSlots(store, i, j) /\ n.pred = HeldSlots(store, i, j)
  /\ n.dirty = {} /\ n.changed = {}
  /\ \A k \in HeldSlots(store, i, j) : n.cval[k] = store[<<i, j, k>>]

TreeLoaded(u, store) ==
  /\ u.own2 = HeldNodes(store)
  /\ u.root = LoadedSummary(HeldNodes(store),
                 {i \in HeldNodes(store) : FullLeaves(store, i) = Fan2})
  /\ \A i \in Fan3 :
       /\ u.own1[i] = HeldLeaves(store, i)
       /\ u.l2[i] = LoadedSummary(HeldLeaves(store, i), FullLeaves(store, i))
       /\ \A j \in Fan2 :
            /\ LeafLoaded(u.l1[i][j], store, i, j)
            /\ j \notin HeldLeaves(store, i) => u.l1[i][j] = NoL1

(* A leaf that is loaded takes its bytes from the snapshot where it has some. *)
LEMMA LeafIsLoaded ==
  ASSUME NEW n \in L1Node, NEW store \in Store, NEW i \in Fan3, NEW j \in Fan2
  PROVE  LET w == LoadedL1(n, [k \in HeldSlots(store, i, j) |-> store[<<i, j, k>>]])
         IN w \in L1Node /\ LeafLoaded(w, store, i, j)
<1> DEFINE K == HeldSlots(store, i, j)
           bytes == [k \in K |-> store[<<i, j, k>>]]
           w == LoadedL1(n, bytes)
<1>1. DOMAIN bytes = K /\ K \subseteq Fan1
  BY DEF HeldSlots
<1>2. ASSUME NEW k \in K
      PROVE  bytes[k] = store[<<i, j, k>>] /\ bytes[k] \in Value
  <2>1. <<i, j, k>> \in Slot /\ store[<<i, j, k>>] # Absent
    BY DEF HeldSlots, Slot
  <2>2. store[<<i, j, k>>] \in Value
    BY <2>1 DEF Store
  <2> QED BY <2>2
<1> HIDE DEF K, bytes
<1>3. /\ w.conf = K /\ w.pred = K /\ w.dirty = {} /\ w.changed = {}
      /\ w.pval = n.pval
      /\ w.cval = [k \in Fan1 |-> IF k \in K THEN bytes[k] ELSE n.cval[k]]
  BY <1>1 DEF LoadedL1
<1>4. w.cval \in [Fan1 -> Value] /\ w.pval \in [Fan1 -> Value]
  BY <1>2, <1>3 DEF L1Node
<1>5. w = [conf |-> w.conf, pred |-> w.pred, dirty |-> w.dirty,
           changed |-> w.changed, cval |-> w.cval, pval |-> w.pval]
  BY DEF LoadedL1
<1>6. w \in L1Node
  <2> HIDE DEF w
  <2> QED BY <1>1, <1>3, <1>4, <1>5 DEF L1Node
<1>7. \A k \in K : w.cval[k] = store[<<i, j, k>>]
  BY <1>1, <1>2, <1>3
<1>8. LeafLoaded(w, store, i, j)
  <2> HIDE DEF w
  <2> QED BY <1>3, <1>7 DEF LeafLoaded, K
<1> QED BY <1>6, <1>8 DEF bytes, K

(* A loaded tree, part by part. *)
LEMMA LoadParts ==
  ASSUME NEW t \in Tree, NEW store \in Store
  PROVE  LET u == Load(t, FeedOf(store))
         IN u \in Tree /\ u.mode = t.mode /\ TreeLoaded(u, store)
<1> DEFINE snap == FeedOf(store)
           u == Load(t, snap)
           Held(i, j) == IF i \in t.own2 /\ j \in t.own1[i] THEN t.l1[i][j] ELSE NoL1
           Leaf(i) == IF i \in DOMAIN snap THEN DOMAIN snap[i] ELSE {}
           Full(i) == {j \in Leaf(i) : DOMAIN snap[i][j] = Fan1}
<1>1. /\ DOMAIN snap = HeldNodes(store)
      /\ \A i \in HeldNodes(store) :
           /\ DOMAIN snap[i] = HeldLeaves(store, i)
           /\ \A j \in HeldLeaves(store, i) :
                snap[i][j] = [k \in HeldSlots(store, i, j) |-> store[<<i, j, k>>]]
  BY FeedDomains
<1> HIDE DEF snap
<1>2. /\ u.mode = t.mode /\ u.own2 = DOMAIN snap
      /\ u.own1 = [i \in Fan3 |-> Leaf(i)]
      /\ u.l1 = [i \in Fan3 |-> [j \in Fan2 |->
                   IF j \in Leaf(i) THEN LoadedL1(Held(i, j), snap[i][j]) ELSE NoL1]]
      /\ u.l2 = [i \in Fan3 |-> LoadedSummary(Leaf(i), Full(i))]
      /\ u.root = LoadedSummary(DOMAIN snap, {i \in DOMAIN snap : Full(i) = Fan2})
      /\ u = [mode |-> u.mode, root |-> u.root, own2 |-> u.own2,
              l2 |-> u.l2, own1 |-> u.own1, l1 |-> u.l1]
  BY DEF Load
<1> HIDE DEF u
<1>3. ASSUME NEW i \in Fan3
      PROVE  Leaf(i) = HeldLeaves(store, i) /\ Full(i) = FullLeaves(store, i)
  <2>1. i \notin HeldNodes(store) => HeldLeaves(store, i) = {}
    BY DEF HeldNodes, HeldLeaves
  <2>2. Leaf(i) = HeldLeaves(store, i)
    BY <1>1, <2>1
  <2>3. \A j \in HeldLeaves(store, i) : DOMAIN snap[i][j] = HeldSlots(store, i, j)
    BY <1>1, <2>1
  <2> QED BY <2>2, <2>3 DEF FullLeaves
<1>4. ASSUME NEW i \in Fan3, NEW j \in Fan2
      PROVE  /\ u.l1[i][j] \in L1Node /\ LeafLoaded(u.l1[i][j], store, i, j)
             /\ j \notin HeldLeaves(store, i) => u.l1[i][j] = NoL1
  <2>1. CASE j \in HeldLeaves(store, i)
    <3>1. Held(i, j) \in L1Node
      BY DefaultNodes DEF Tree
    <3>2. i \in HeldNodes(store)
      BY <2>1 DEF HeldNodes, HeldLeaves
    <3>3. u.l1[i][j] = LoadedL1(Held(i, j), snap[i][j])
      BY <1>2, <1>3, <2>1
    <3> HIDE DEF Held
    <3>4. snap[i][j] = [k \in HeldSlots(store, i, j) |-> store[<<i, j, k>>]]
      BY <1>1, <2>1, <3>2
    <3> QED BY <2>1, <3>1, <3>3, <3>4, LeafIsLoaded
  <2>2. CASE j \notin HeldLeaves(store, i)
    <3>1. u.l1[i][j] = NoL1
      BY <1>2, <1>3, <2>2
    <3>2. HeldSlots(store, i, j) = {}
      BY <2>2 DEF HeldLeaves, HeldSlots
    <3> QED BY <3>1, <3>2, DefaultNodes DEF LeafLoaded, NoL1
  <2> QED BY <2>1, <2>2
<1> HIDE DEF Leaf, Full, Held
<1>5. /\ HeldNodes(store) \subseteq Fan3
      /\ \A i \in Fan3 : /\ HeldLeaves(store, i) \subseteq Fan2
                         /\ FullLeaves(store, i) \subseteq Fan2
  BY DEF HeldNodes, HeldLeaves, FullLeaves
<1>6. TreeLoaded(u, store)
  <2>1. u.own2 = HeldNodes(store)
    BY <1>1, <1>2
  <2>2. {i \in DOMAIN snap : Full(i) = Fan2}
          = {i \in HeldNodes(store) : FullLeaves(store, i) = Fan2}
    BY <1>1, <1>3, <1>5
  <2>3. u.root = LoadedSummary(HeldNodes(store),
                   {i \in HeldNodes(store) : FullLeaves(store, i) = Fan2})
    BY <1>1, <1>2, <2>2
  <2>4. \A i \in Fan3 :
          /\ u.own1[i] = HeldLeaves(store, i)
          /\ u.l2[i] = LoadedSummary(HeldLeaves(store, i), FullLeaves(store, i))
    BY <1>2, <1>3
  <2> QED BY <1>4, <2>1, <2>3, <2>4 DEF TreeLoaded
<1>7. u \in Tree
  <2>1. u.root \in Summary(Fan3)
    BY <1>5, <1>6 DEF TreeLoaded, LoadedSummary, Summary
  <2>2. u.l2 \in [Fan3 -> Summary(Fan2)]
    BY <1>2, <1>3, <1>5 DEF LoadedSummary, Summary
  <2>3. u.own1 \in [Fan3 -> SUBSET Fan2]
    BY <1>2, <1>3, <1>5
  <2>4. u.l1 \in [Fan3 -> [Fan2 -> L1Node]]
    <3> DEFINE F(i, j) == IF j \in Leaf(i) THEN LoadedL1(Held(i, j), snap[i][j])
                                          ELSE NoL1
    <3>1. u.l1 = [i \in Fan3 |-> [j \in Fan2 |-> F(i, j)]]
      BY <1>2
    <3>2. \A i \in Fan3, j \in Fan2 : u.l1[i][j] = F(i, j)
      <4> HIDE DEF F
      <4> QED BY <3>1
    <3> HIDE DEF F
    <3> QED BY <1>4, <3>1, <3>2
  <2>5. u.own2 \in SUBSET Fan3 /\ u.mode \in Mode
    BY <1>2, <1>5, <1>6 DEF TreeLoaded, Tree
  <2> QED BY <1>2, <2>1, <2>2, <2>3, <2>4, <2>5 DEF Tree
<1> QED BY <1>2, <1>6, <1>7 DEF u, snap

(* A tree is well-formed once a snapshot is loaded, whatever it was before. *)
LEMMA LoadLinks ==
  ASSUME NEW t \in Tree, NEW store \in Store
  PROVE  Load(t, FeedOf(store)) \in Tree /\ Linked(Load(t, FeedOf(store)))
<1> DEFINE u == Load(t, FeedOf(store))
<1>1. u \in Tree /\ TreeLoaded(u, store)
  BY LoadParts
<1> HIDE DEF u
<1>2. ASSUME NEW i \in Fan3
      PROVE  NodeLinked(u.root, u.own2, u.l2[i], u.own1[i], i)
  <2>1. i \in HeldNodes(store) <=> HeldLeaves(store, i) # {}
    BY DEF HeldNodes, HeldLeaves
  <2>2. FullLeaves(store, i) = Fan2 => i \in HeldNodes(store)
    BY <2>1 DEF FullLeaves
  <2>3. i \notin HeldNodes(store) =>
          LoadedSummary(HeldLeaves(store, i), FullLeaves(store, i)) = NoSummary
    BY <2>1 DEF FullLeaves, LoadedSummary, NoSummary
  <2> DEFINE s == u.l2[i]
  <2>4. /\ s.predAny = HeldLeaves(store, i) /\ s.confAny = HeldLeaves(store, i)
        /\ s.predAll = FullLeaves(store, i) /\ s.confAll = FullLeaves(store, i)
        /\ s.dirty = {} /\ s.changed = {}
        /\ i \notin HeldNodes(store) => s = NoSummary
    <3>1. s = LoadedSummary(HeldLeaves(store, i), FullLeaves(store, i))
      BY <1>1 DEF TreeLoaded
    <3> HIDE DEF s
    <3> QED BY <2>3, <3>1, LoadedFields
  <2>5. /\ u.own2 = HeldNodes(store) /\ u.own1[i] = HeldLeaves(store, i)
        /\ i \in u.root.predAny <=> i \in HeldNodes(store)
        /\ i \in u.root.confAny <=> i \in HeldNodes(store)
        /\ i \in u.root.predAll <=> FullLeaves(store, i) = Fan2
        /\ i \in u.root.confAll <=> FullLeaves(store, i) = Fan2
    <3> DEFINE full == {x \in HeldNodes(store) : FullLeaves(store, x) = Fan2}
    <3>1. /\ u.own2 = HeldNodes(store) /\ u.own1[i] = HeldLeaves(store, i)
          /\ u.root = LoadedSummary(HeldNodes(store), full)
      BY <1>1 DEF TreeLoaded
    <3>2. i \in full <=> FullLeaves(store, i) = Fan2
      BY <2>2
    <3> HIDE DEF full
    <3> QED BY <3>1, <3>2, LoadedFields
  <2> HIDE DEF s
  <2>6. SummaryOf(u.root, i, s, s.predAny = {}, s.predAll = Fan2,
                               s.confAny = {}, s.confAll = Fan2)
    BY <2>1, <2>4, <2>5 DEF SummaryOf
  <2>7. NodeLinked(u.root, u.own2, s, u.own1[i], i)
    BY <2>1, <2>4, <2>5, <2>6 DEF NodeLinked
  <2> QED BY <2>7 DEF s
<1>3. ASSUME NEW i \in Fan3, NEW j \in Fan2
      PROVE  LeafLinked(u.l2[i], u.own1[i], u.l1[i][j], j)
  <2>1. j \in HeldLeaves(store, i) <=> HeldSlots(store, i, j) # {}
    BY DEF HeldLeaves, HeldSlots
  <2>2. j \in FullLeaves(store, i) <=> HeldSlots(store, i, j) = Fan1
    BY <2>1 DEF FullLeaves
  <2>3. /\ LeafLoaded(u.l1[i][j], store, i, j)
        /\ u.own1[i] = HeldLeaves(store, i)
        /\ u.l2[i] = LoadedSummary(HeldLeaves(store, i), FullLeaves(store, i))
        /\ j \notin HeldLeaves(store, i) => u.l1[i][j] = NoL1
    BY <1>1 DEF TreeLoaded
  <2> QED BY <2>1, <2>2, <2>3 DEF LeafLinked, LeafLoaded, SummaryOf, LoadedSummary
<1>4. u.root.dirty = {}
  BY <1>1 DEF TreeLoaded, LoadedSummary
<1> QED BY <1>1, <1>2, <1>3, <1>4 DEF Linked, u

-----------------------------------------------------------------------------
(* A switch of mode with no prediction in flight preserves it. *)
LEMMA SetModeLinks ==
  ASSUME NEW t \in Tree, Linked(t), NoDirty(t), NEW m \in Mode
  PROVE  [t EXCEPT !.mode = m] \in Tree /\ Linked([t EXCEPT !.mode = m])
<1> DEFINE u == [t EXCEPT !.mode = m]
<1>1. u \in Tree
  BY DEF Tree
<1>2. /\ u.root = t.root /\ u.own2 = t.own2 /\ u.l2 = t.l2
      /\ u.own1 = t.own1 /\ u.l1 = t.l1
  BY DEF Tree
<1>3. t.root.dirty = {}
  BY DEF NoDirty
<1> HIDE DEF u
<1>4. Linked(u)
  BY <1>2, <1>3 DEF Linked
<1> QED BY <1>1, <1>4 DEF u

-----------------------------------------------------------------------------
(* A tree without predictions: its masks are those of its confirmed leaves. *)

(* Each summary names the L1 nodes with a confirmed slot, and the full ones. *)
LEMMA CleanNode ==
  ASSUME NEW t \in Tree, Linked(t), NoDirty(t), NEW i \in Fan3
  PROVE  /\ t.l2[i].dirty = {}
         /\ t.l2[i].confAny = LiveL1(t, i) /\ t.l2[i].predAny = LiveL1(t, i)
         /\ t.l2[i].confAll = FullL1(t, i) /\ t.l2[i].predAll = FullL1(t, i)
         /\ \A j \in Fan2 : /\ t.l1[i][j].pred = t.l1[i][j].conf
                            /\ t.l1[i][j].dirty = {}
<1>1. t.l2[i].dirty = {} /\ \A j \in Fan2 : t.l1[i][j].dirty = {}
  BY CleanRoot DEF NoDirty
<1>2. t.l2[i] \in Summary(Fan2) /\ t.own1[i] \subseteq Fan2
  BY DEF Tree
<1>3. ASSUME NEW j \in Fan2
      PROVE  t.l1[i][j].pred = t.l1[i][j].conf
  <2>1. t.l1[i][j] \in L1Node
    BY DEF Tree
  <2>2. LeafLinked(t.l2[i], t.own1[i], t.l1[i][j], j)
    BY DEF Linked
  <2>3. t.l1[i][j].pred \ {} = t.l1[i][j].conf \ {}
    BY <1>1, <2>2 DEF LeafLinked
  <2> QED BY <2>1, <2>3 DEF L1Node
<1>4. ASSUME NEW j \in Fan2
      PROVE  /\ j \in t.l2[i].confAny <=> j \in LiveL1(t, i)
             /\ j \in t.l2[i].predAny <=> j \in LiveL1(t, i)
             /\ j \in t.l2[i].confAll <=> j \in FullL1(t, i)
             /\ j \in t.l2[i].predAll <=> j \in FullL1(t, i)
  <2>1. LeafLinked(t.l2[i], t.own1[i], t.l1[i][j], j)
    BY DEF Linked
  <2>2. NoL1.conf = {}
    BY DEF NoL1
  <2>3. t.l1[i][j].conf # {} => j \in t.own1[i]
    BY <2>1, <2>2 DEF LeafLinked
  <2> QED BY <1>3, <2>1, <2>3 DEF LeafLinked, SummaryOf, LiveL1, FullL1
<1>5. LiveL1(t, i) \subseteq Fan2 /\ FullL1(t, i) \subseteq Fan2
  BY <1>2 DEF LiveL1, FullL1
<1>6. /\ t.l2[i].confAny \subseteq Fan2 /\ t.l2[i].predAny \subseteq Fan2
      /\ t.l2[i].confAll \subseteq Fan2 /\ t.l2[i].predAll \subseteq Fan2
  BY <1>2 DEF Summary
<1>7. t.l2[i].confAny = LiveL1(t, i) /\ t.l2[i].predAny = LiveL1(t, i)
  BY <1>4, <1>5, <1>6
<1>8. t.l2[i].confAll = FullL1(t, i) /\ t.l2[i].predAll = FullL1(t, i)
  BY <1>4, <1>5, <1>6
<1> QED BY <1>1, <1>3, <1>7, <1>8

(* With no prediction in flight the root names what holds something, and that
   is owned. *)
LEMMA CleanOwners ==
  ASSUME NEW t \in Tree, Linked(t), NoDirty(t)
  PROVE  /\ t.root.confAny = {i \in t.own2 : LiveL1(t, i) # {}}
         /\ t.root.predAny = t.root.confAny
         /\ \A i \in Fan3 : LiveL1(t, i) # {} => i \in t.own2
<1>1. ASSUME NEW i \in Fan3
      PROVE  /\ LiveL1(t, i) # {} => i \in t.own2
             /\ i \in t.root.confAny <=> LiveL1(t, i) # {}
             /\ i \in t.root.predAny <=> LiveL1(t, i) # {}
  <2>1. /\ t.l2[i].confAny = LiveL1(t, i) /\ t.l2[i].predAny = LiveL1(t, i)
    BY CleanNode
  <2>2. NodeLinked(t.root, t.own2, t.l2[i], t.own1[i], i)
    BY DEF Linked
  <2> QED BY <2>1, <2>2 DEF NodeLinked, SummaryOf, NoSummary
<1>2. t.own2 \subseteq Fan3 /\ t.root.confAny \subseteq Fan3
      /\ t.root.predAny \subseteq Fan3
  BY DEF Tree, Summary
<1>3. t.root.confAny = {i \in t.own2 : LiveL1(t, i) # {}}
  BY <1>1, <1>2
<1>4. t.root.predAny = t.root.confAny
  BY <1>1, <1>2
<1> QED BY <1>1, <1>3, <1>4

(* With no prediction in flight the assertion of the code holds. *)
LEMMA CleanMasksValid ==
  ASSUME NEW t \in Tree, Linked(t), NoDirty(t)
  PROVE  MasksValid(t)
<1> DEFINE live == {i \in t.own2 : LiveL1(t, i) # {}}
           full == {i \in live : FullL1(t, i) = Fan2}
<1>1. t.own2 \subseteq Fan3 /\ t.root \in Summary(Fan3)
  BY DEF Tree
<1>2. ASSUME NEW i \in t.own2
      PROVE  /\ AtRest(t.l2[i], LiveL1(t, i), FullL1(t, i))
             /\ \A j \in LiveL1(t, i) :
                  t.l1[i][j].pred = t.l1[i][j].conf /\ t.l1[i][j].dirty = {}
  <2>1. i \in Fan3 /\ LiveL1(t, i) \subseteq Fan2
    BY <1>1 DEF LiveL1, Tree
  <2> QED BY <2>1, CleanNode DEF AtRest
<1>3. live = t.root.confAny /\ t.root.predAny = t.root.confAny
  BY CleanOwners
<1>4. ASSUME NEW i \in Fan3
      PROVE  /\ i \in t.root.confAll <=> i \in full
             /\ i \in t.root.predAll <=> i \in full
  <2>1. /\ t.l2[i].confAll = FullL1(t, i) /\ t.l2[i].predAll = FullL1(t, i)
        /\ t.l2[i].confAny = LiveL1(t, i)
    BY CleanNode
  <2>2. NodeLinked(t.root, t.own2, t.l2[i], t.own1[i], i)
    BY DEF Linked
  <2>3. FullL1(t, i) = Fan2 => LiveL1(t, i) # {}
    BY DEF FullL1, LiveL1
  <2>4. LiveL1(t, i) # {} => i \in t.own2
    BY CleanOwners
  <2> QED BY <2>1, <2>2, <2>3, <2>4 DEF NodeLinked, SummaryOf
<1>5. t.root.confAll = full /\ t.root.predAll = full
  <2>1. full \subseteq Fan3
    BY <1>1
  <2>2. t.root.confAll \subseteq Fan3 /\ t.root.predAll \subseteq Fan3
    BY <1>1 DEF Summary
  <2> HIDE DEF full
  <2> QED BY <1>4, <2>1, <2>2
<1>6. AtRest(t.root, live, full)
  BY <1>3, <1>5 DEF AtRest, NoDirty
<1> QED BY <1>2, <1>6 DEF MasksValid

(* A rollback leaves nothing of the tick, in no node of the tree. *)
LEMMA RollbackRests ==
  ASSUME NEW t \in Tree, Linked(t)
  PROVE  LET u == Rollback(t)
         IN /\ MasksValid(u) /\ NoDirty(u)
            /\ \A i \in Fan3 : /\ Touched(u.l2[i]) = {}
                               /\ \A j \in Fan2 : Touched(u.l1[i][j]) = {}
<1> DEFINE u == Rollback(t)
<1>1. u \in Tree /\ Linked(u) /\ TreeRolled(u, t)
  BY RollbackLinks, RollbackParts
<1> HIDE DEF u
<1>2. NoDirty(u)
  <2>1. u.root.confAny \cup u.root.predAny \subseteq Fan3
    BY <1>1 DEF Tree, Summary
  <2>2. \A i \in Fan3 : u.l2[i].confAny \cup u.l2[i].predAny \subseteq Fan2
    BY <1>1 DEF Tree, Summary
  <2> QED BY <1>1, <2>1, <2>2 DEF NoDirty, TreeRolled, SummaryRolled, LeafRolled
<1>3. MasksValid(u)
  BY <1>1, <1>2, CleanMasksValid
<1>4. \A i \in Fan3 : /\ Touched(u.l2[i]) = {}
                      /\ \A j \in Fan2 : Touched(u.l1[i][j]) = {}
  BY <1>1 DEF TreeRolled, SummaryRolled, LeafRolled, Touched
<1> QED BY <1>2, <1>3, <1>4 DEF u

-----------------------------------------------------------------------------
(* The calls of the tree API keep no idle node. *)

(* An empty tree has no nodes. *)
LEMMA NewTreeWellFormed == WellFormed(NewTree)
BY NewTreeLinked DEF WellFormed, NoneIdle, NewTree

(* A write preserves the invariant. *)
LEMMA GetMutKeeps ==
  ASSUME NEW t \in Tree, WellFormed(t),
         NEW i \in Fan3, NEW j \in Fan2, NEW k \in Fan1, NEW v \in Value
  PROVE  GetMut(t, i, j, k, v) \in Tree /\ WellFormed(GetMut(t, i, j, k, v))
<1> DEFINE m == t.mode
           n == t.l1[i][j]
           n1 == MarkL1(n, m, k)
           p1 == n1.pred = Fan1
           q1 == n1.conf = Fan1
           n2 == MarkUp(t.l2[i], m, j, p1, q1)
           n3 == MarkUp(t.root, m, i, n2.predAll = Fan2, n2.confAll = Fan2)
           w == Stored(n, m, k, v)
           u == GetMut(t, i, j, k, v)
<1>1. Linked(t) /\ NoneIdle(t)
  BY DEF WellFormed
<1>2. OnePath(t, u, i, j, w, t.own1[i] \cup {j}, n2, t.own2 \cup {i}, n3)
  BY <1>1, GetMutPath
<1>3. u \in Tree /\ Linked(u)
  BY <1>1, GetMutLinks
<1>4. m \in Mode /\ n \in L1Node /\ t.l2[i] \in Summary(Fan2)
  BY DEF Tree
<1>5. LeafMarked(w, n, m, k)
  BY <1>4, StoredFields
<1>6. SummaryMarked(n2, t.l2[i], m, j, p1, q1)
  BY <1>4, MarkUpFields
<1> HIDE DEF u, w, n, m, n1, n2, n3, p1, q1
<1>7. k \in w.conf \/ k \in w.dirty
  BY <1>4, <1>5 DEF LeafMarked, IfConfirmed, IfPredict, Mode
<1>8. j \in n2.confAny \/ j \in n2.dirty
  BY <1>4, <1>6 DEF SummaryMarked, IfConfirmed, IfPredict, Mode
<1>9. NoneIdle(u)
  BY <1>1, <1>2, <1>7, <1>8, PathKeepsBusy DEF NodeIdle, LeafIdle
<1> QED BY <1>3, <1>9 DEF WellFormed, u

(* A removal preserves the invariant. *)
LEMMA RemoveKeeps ==
  ASSUME NEW t \in Tree, WellFormed(t),
         NEW i \in Fan3, NEW j \in Fan2, NEW k \in Fan1, Present(t, i, j, k)
  PROVE  RemoveSlot(t, i, j, k) \in Tree /\ WellFormed(RemoveSlot(t, i, j, k))
<1> DEFINE w == UnmarkL1(t.l1[i][j], t.mode, k)
           n2 == Above2(t, i, j, w)
           n3 == Above3(t, i, j, w)
           free1 == t.mode = "CONFIRMED" /\ w.pred = {}
           free2 == Frees2(t, n2)
           row == IF free2 THEN NoLeaves ELSE [t.l1[i] EXCEPT ![j] = RemovedLeaf(t, w)]
           o1 == IF free2 THEN {} ELSE IF free1 THEN t.own1[i] \ {j} ELSE t.own1[i]
           w2 == IF free2 THEN NoSummary ELSE n2
           o2 == IF free2 THEN t.own2 \ {i} ELSE t.own2
           u == RemoveSlot(t, i, j, k)
<1>1. Linked(t) /\ NoneIdle(t) /\ t.mode \in Mode
  BY DEF WellFormed, Tree
<1>2. u \in Tree /\ Linked(u)
  BY <1>1, RemoveLinks
<1>3. OneNode(t, u, i, row, o1, w2, o2, n3)
  BY RemoveNode
<1>4. w \in L1Node /\ LeafLost(w, t.l1[i][j], t.mode, k)
  BY RemovalLost
<1> HIDE DEF w, u
<1>5. /\ t.mode = "CONFIRMED" => n2.confAny = n2.predAny /\ w.conf = w.pred
      /\ t.mode = "PREDICT" => k \in w.dirty /\ j \in n2.dirty
  BY <1>1, <1>4, UnmarkLinks, PresentOwned
<1> HIDE DEF n2, n3
<1>6. CASE free2
  <2>1. OneNode(t, u, i, NoLeaves, {}, NoSummary, t.own2 \ {i}, n3)
    BY <1>3, <1>6
  <2>2. u.own2 = t.own2 \ {i} /\ u.own1[i] = {}
    BY <2>1 DEF OneNode, Tree
  <2>3. ASSUME NEW x \in Fan3 \ {i}
        PROVE  u.l2[x] = t.l2[x] /\ u.own1[x] = t.own1[x] /\ u.l1[x] = t.l1[x]
    BY <2>1, <2>3 DEF OneNode, Tree
  <2> QED BY <1>1, <1>2, <2>2, <2>3 DEF NoneIdle, WellFormed, u
<1>7. CASE ~ free2
  <2> DEFINE p1 == IF free1 THEN t.own1[i] \ {j} ELSE t.own1[i]
  <2>1. OnePath(t, u, i, j, RemovedLeaf(t, w), p1, n2, t.own2, n3)
    BY <1>3, <1>7 DEF OneNode, OnePath
  <2>2. ~ NodeIdle(t.own2, n2, i)
    BY <1>1, <1>5, <1>7 DEF NodeIdle, Frees2, Mode
  <2>3. ~ LeafIdle(p1, RemovedLeaf(t, w), j)
    BY <1>1, <1>5, <1>7 DEF LeafIdle, RemovedLeaf, Mode
  <2>4. p1 \subseteq t.own1[i] \cup {j}
    OBVIOUS
  <2> HIDE DEF p1
  <2>5. NoneIdle(u)
    BY <1>1, <2>1, <2>2, <2>3, <2>4, PathKeepsBusy
  <2> QED BY <1>2, <2>5 DEF WellFormed, u
<1> QED BY <1>6, <1>7

(* End of tick preserves the invariant. *)
LEMMA ClearChangedKeeps ==
  ASSUME NEW t \in Tree, WellFormed(t)
  PROVE  ClearChanged(t) \in Tree /\ WellFormed(ClearChanged(t))
<1> DEFINE u == ClearChanged(t)
<1>1. Linked(t) /\ NoneIdle(t)
  BY DEF WellFormed
<1>2. u \in Tree /\ Linked(u)
  BY <1>1, ClearChangedLinks
<1>3. /\ u.own2 = t.own2 /\ u.own1 = t.own1
      /\ \A i \in Fan3 :
           /\ u.l2[i] = [t.l2[i] EXCEPT !.changed = {}]
           /\ \A j \in Fan2 : u.l1[i][j] = [t.l1[i][j] EXCEPT !.changed = {}]
  BY <1>1, ClearChangedParts
<1> HIDE DEF u
<1>4. ASSUME NEW i \in Fan3
      PROVE  u.l2[i].confAny = t.l2[i].confAny /\ u.l2[i].dirty = t.l2[i].dirty
  <2>1. t.l2[i] \in Summary(Fan2)
    BY DEF Tree
  <2>2. u.l2[i] = [t.l2[i] EXCEPT !.changed = {}]
    BY <1>3
  <2> QED BY <2>1, <2>2 DEF Summary
<1>5. ASSUME NEW i \in Fan3, NEW j \in Fan2
      PROVE  /\ u.l1[i][j].conf = t.l1[i][j].conf
             /\ u.l1[i][j].dirty = t.l1[i][j].dirty
  <2>1. t.l1[i][j] \in L1Node
    BY DEF Tree
  <2>2. u.l1[i][j] = [t.l1[i][j] EXCEPT !.changed = {}]
    BY <1>3
  <2> QED BY <2>1, <2>2 DEF L1Node
<1>6. \A i \in Fan3 : t.own1[i] \subseteq Fan2
  BY DEF Tree
<1>7. NoneIdle(u)
  BY <1>1, <1>3, <1>4, <1>5, <1>6 DEF NoneIdle
<1> QED BY <1>2, <1>7 DEF WellFormed, u

(* After a rollback a tree owns what is confirmed, and nothing else. *)
LEMMA RollbackOwners ==
  ASSUME NEW t \in Tree, WellFormed(t), NEW i \in Fan3
  PROVE  LET u == Rollback(t)
         IN /\ i \in u.own2 <=> t.l2[i].confAny # {}
            /\ \A j \in Fan2 : j \in u.own1[i] <=> t.l1[i][j].conf # {}
<1> DEFINE u == Rollback(t)
<1>1. Linked(t) /\ NoneIdle(t)
  BY DEF WellFormed
<1>2. TreeRolled(u, t) /\ u.own2 = Own2After(t) /\ u.own1[i] = Own1After(t, i)
  BY <1>1, RollbackParts
<1> HIDE DEF u
<1>3. NodeLinked(t.root, t.own2, t.l2[i], t.own1[i], i)
  BY <1>1 DEF Linked
<1>4. i \in t.own2 /\ t.l2[i].confAny = {} => RollbackFrees2(t, i)
  BY <1>1, <1>3 DEF NoneIdle, NodeLinked, SummaryOf, RollbackFrees2,
                    RollbackReaches2, Touched
<1>5. i \in u.own2 <=> t.l2[i].confAny # {}
  BY <1>2, <1>4 DEF Own2After, RollbackFrees2, TreeRolled
<1>6. ASSUME NEW j \in Fan2
      PROVE  j \in u.own1[i] <=> t.l1[i][j].conf # {}
  <2>1. LeafLinked(t.l2[i], t.own1[i], t.l1[i][j], j)
    BY <1>1 DEF Linked
  <2>2. j \notin u.own1[i] => t.l1[i][j].conf = {}
    BY <1>2 DEF TreeRolled, LeafRolled, NoL1
  <2>3. ASSUME j \in t.own1[i], t.l1[i][j].conf = {}
        PROVE  RollbackReaches(t, i, j)
    <3>1. t.l1[i][j].dirty # {}
      BY <1>1, <2>3 DEF NoneIdle
    <3>2. j \in t.l2[i].dirty
      BY <2>1, <3>1 DEF LeafLinked, SummaryOf
    <3>3. i \in t.root.dirty
      BY <1>3, <3>2 DEF NodeLinked, SummaryOf
    <3>4. i \in t.own2
      BY <1>3, <2>3 DEF NodeLinked
    <3> QED BY <2>3, <3>2, <3>3, <3>4 DEF RollbackReaches, RollbackReaches2, Touched
  <2> QED BY <1>2, <2>2, <2>3 DEF Own1After
<1> QED BY <1>5, <1>6 DEF u

(* A rollback preserves the invariant. *)
LEMMA RollbackKeeps ==
  ASSUME NEW t \in Tree, WellFormed(t)
  PROVE  Rollback(t) \in Tree /\ WellFormed(Rollback(t))
<1> DEFINE u == Rollback(t)
<1>1. Linked(t)
  BY DEF WellFormed
<1>2. u \in Tree /\ Linked(u) /\ TreeRolled(u, t)
  BY <1>1, RollbackLinks, RollbackParts
<1>3. ASSUME NEW i \in Fan3
      PROVE  /\ i \in u.own2 <=> t.l2[i].confAny # {}
             /\ \A j \in Fan2 : j \in u.own1[i] <=> t.l1[i][j].conf # {}
  BY RollbackOwners
<1> HIDE DEF u
<1>4. ASSUME NEW i \in Fan3
      PROVE  /\ u.l2[i].confAny = t.l2[i].confAny
             /\ u.own1[i] \subseteq Fan2
             /\ \A j \in Fan2 : u.l1[i][j].conf = t.l1[i][j].conf
  BY <1>2 DEF TreeRolled, SummaryRolled, LeafRolled, Tree
<1>5. NoneIdle(u)
  BY <1>3, <1>4 DEF NoneIdle
<1> QED BY <1>2, <1>5 DEF WellFormed, u

(* A tree is well-formed once a snapshot is loaded, whatever it was before. *)
LEMMA LoadKeeps ==
  ASSUME NEW t \in Tree, NEW store \in Store
  PROVE  Load(t, FeedOf(store)) \in Tree /\ WellFormed(Load(t, FeedOf(store)))
<1> DEFINE u == Load(t, FeedOf(store))
<1>1. u \in Tree /\ Linked(u) /\ TreeLoaded(u, store)
  BY LoadParts, LoadLinks
<1> HIDE DEF u
<1>2. ASSUME NEW i \in u.own2
      PROVE  u.l2[i].confAny # {}
  <2>1. i \in Fan3 /\ i \in HeldNodes(store)
    BY <1>1 DEF TreeLoaded, HeldNodes
  <2>2. u.l2[i].confAny = HeldLeaves(store, i)
    BY <1>1, <2>1, LoadedFields DEF TreeLoaded
  <2> QED BY <2>1, <2>2 DEF HeldNodes, HeldLeaves
<1>3. ASSUME NEW i \in Fan3, NEW j \in u.own1[i]
      PROVE  u.l1[i][j].conf # {}
  <2>1. j \in HeldLeaves(store, i)
    BY <1>1 DEF TreeLoaded
  <2>2. j \in Fan2 /\ HeldSlots(store, i, j) # {}
    BY <2>1 DEF HeldLeaves, HeldSlots
  <2>3. LeafLoaded(u.l1[i][j], store, i, j)
    BY <1>1, <2>2 DEF TreeLoaded
  <2> QED BY <2>2, <2>3 DEF LeafLoaded
<1>4. NoneIdle(u)
  BY <1>2, <1>3 DEF NoneIdle
<1> QED BY <1>1, <1>4 DEF WellFormed, u

(* A switch of mode with no prediction in flight preserves the invariant. *)
LEMMA SetModeKeeps ==
  ASSUME NEW t \in Tree, WellFormed(t), NoDirty(t), NEW m \in Mode
  PROVE  [t EXCEPT !.mode = m] \in Tree /\ WellFormed([t EXCEPT !.mode = m])
<1> DEFINE u == [t EXCEPT !.mode = m]
<1>1. u \in Tree /\ Linked(u)
  BY SetModeLinks DEF WellFormed
<1>2. /\ u.own2 = t.own2 /\ u.l2 = t.l2
      /\ u.own1 = t.own1 /\ u.l1 = t.l1
  BY DEF Tree
<1> HIDE DEF u
<1>3. NoneIdle(u)
  BY <1>2 DEF WellFormed, NoneIdle
<1> QED BY <1>1, <1>3 DEF WellFormed, u

(* With no prediction in flight a tree owns what its confirmed bits name. *)
LEMMA CleanOwned ==
  ASSUME NEW t \in Tree, WellFormed(t), NoDirty(t)
  PROVE  /\ t.own2 = t.root.confAny
         /\ \A i \in Fan3 : /\ t.own1[i] = LiveL1(t, i)
                            /\ i \in t.own2 <=> LiveL1(t, i) # {}
<1>1. Linked(t) /\ NoneIdle(t)
  BY DEF WellFormed
<1>2. ASSUME NEW i \in Fan3
      PROVE  /\ t.own1[i] = LiveL1(t, i)
             /\ i \in t.own2 <=> LiveL1(t, i) # {}
  <2>1. t.l2[i].dirty = {} /\ t.l2[i].confAny = LiveL1(t, i)
        /\ \A j \in Fan2 : t.l1[i][j].dirty = {}
    BY <1>1, CleanNode
  <2>2. t.own1[i] \subseteq Fan2
    BY DEF Tree
  <2>3. t.own1[i] = LiveL1(t, i)
    BY <1>1, <2>1, <2>2 DEF NoneIdle, LiveL1
  <2>4. LiveL1(t, i) # {} => i \in t.own2
    BY <1>1, CleanOwners
  <2> QED BY <1>1, <2>1, <2>3, <2>4 DEF NoneIdle
<1>3. t.own2 \subseteq Fan3 /\ t.root.confAny = {i \in t.own2 : LiveL1(t, i) # {}}
  BY <1>1, CleanOwners DEF Tree
<1>4. t.own2 = t.root.confAny
  BY <1>2, <1>3
<1> QED BY <1>2, <1>4

(* What a rollback leaves of a tick. *)
Cleared(t) ==
  /\ MasksValid(t)
  /\ \A i \in Fan3 :
       /\ Touched(t.l2[i]) = {}
       /\ t.own1[i] = LiveL1(t, i)
       /\ \A j \in Fan2 : Touched(t.l1[i][j]) = {}

(* A rollback leaves nothing of it, and no node for nothing. *)
LEMMA RollbackClean ==
  ASSUME NEW t \in Tree, WellFormed(t)
  PROVE  Cleared(Rollback(t)) /\ NoDirty(Rollback(t))
<1> DEFINE u == Rollback(t)
<1>1. /\ MasksValid(u) /\ NoDirty(u)
      /\ \A i \in Fan3 : /\ Touched(u.l2[i]) = {}
                         /\ \A j \in Fan2 : Touched(u.l1[i][j]) = {}
  BY RollbackRests DEF WellFormed
<1>2. u \in Tree /\ WellFormed(u)
  BY RollbackKeeps
<1> HIDE DEF u
<1>3. \A i \in Fan3 : u.own1[i] = LiveL1(u, i)
  BY <1>1, <1>2, CleanOwned
<1> QED BY <1>1, <1>3 DEF Cleared, u

-----------------------------------------------------------------------------
(* What each call does to the two images. *)

(* Slot z of leaf x, y holds what it held, unless it is slot i, j, k. *)
SlotOf(u, t, x, y, z, i, j, k, c, d) ==
  /\ ConfirmedAt(u.l1[x][y], z) =
       IF <<x, y, z>> = <<i, j, k>> THEN c ELSE ConfirmedAt(t.l1[x][y], z)
  /\ ViewAt(u.l1[x][y], z) =
       IF <<x, y, z>> = <<i, j, k>> THEN d ELSE ViewAt(t.l1[x][y], z)

(* A call that changes one slot of each image, to c and to d. *)
OneSlot(u, t, i, j, k, c, d) ==
  \A x \in Fan3, y \in Fan2, z \in Fan1 : SlotOf(u, t, x, y, z, i, j, k, c, d)

ImagesPut(u, t, i, j, k, c, d) ==
  /\ ConfirmedOf(u) = [ConfirmedOf(t) EXCEPT ![<<i, j, k>>] = c]
  /\ ViewOf(u) = [ViewOf(t) EXCEPT ![<<i, j, k>>] = d]

(* The images of such a call. *)
LEMMA SlotsWritten ==
  ASSUME NEW t, NEW u, NEW i \in Fan3, NEW j \in Fan2, NEW k \in Fan1,
         NEW c, NEW d, OneSlot(u, t, i, j, k, c, d)
  PROVE  ImagesPut(u, t, i, j, k, c, d)
<1>1. ASSUME NEW s \in Slot
      PROVE  /\ ConfirmedOf(u)[s] = IF s = <<i, j, k>> THEN c ELSE ConfirmedOf(t)[s]
             /\ ViewOf(u)[s] = IF s = <<i, j, k>> THEN d ELSE ViewOf(t)[s]
  <2>1. s[1] \in Fan3 /\ s[2] \in Fan2 /\ s[3] \in Fan1
        /\ s = <<s[1], s[2], s[3]>>
    BY DEF Slot
  <2>2. SlotOf(u, t, s[1], s[2], s[3], i, j, k, c, d)
    BY <2>1 DEF OneSlot
  <2> QED BY <2>1, <2>2 DEF ConfirmedOf, ViewOf, SlotOf
<1>2. <<i, j, k>> \in Slot
  BY DEF Slot
<1>3. ConfirmedOf(u) = [ConfirmedOf(t) EXCEPT ![<<i, j, k>>] = c]
  BY <1>1, <1>2 DEF ConfirmedOf
<1>4. ViewOf(u) = [ViewOf(t) EXCEPT ![<<i, j, k>>] = d]
  BY <1>1, <1>2 DEF ViewOf
<1> QED BY <1>3, <1>4 DEF ImagesPut

(* A call that rewrites one leaf, and in it one slot of each image. *)
LEMMA OneSlotWritten ==
  ASSUME NEW t \in Tree, NEW u, NEW i \in Fan3, NEW j \in Fan2, NEW k \in Fan1,
         NEW w, u.l1 = [t.l1 EXCEPT ![i] = [@ EXCEPT ![j] = w]],
         NEW c, NEW d,
         ConfirmedAt(w, k) = c, ViewAt(w, k) = d,
         \A x \in Fan1 \ {k} : /\ ConfirmedAt(w, x) = ConfirmedAt(t.l1[i][j], x)
                               /\ ViewAt(w, x) = ViewAt(t.l1[i][j], x)
  PROVE  /\ ConfirmedOf(u) = [ConfirmedOf(t) EXCEPT ![<<i, j, k>>] = c]
         /\ ViewOf(u) = [ViewOf(t) EXCEPT ![<<i, j, k>>] = d]
<1>1. \A x \in Fan3, y \in Fan2 :
        u.l1[x][y] = IF x = i /\ y = j THEN w ELSE t.l1[x][y]
  BY DEF Tree
<1>2. OneSlot(u, t, i, j, k, c, d)
  BY <1>1 DEF SlotOf, OneSlot
<1>3. ImagesPut(u, t, i, j, k, c, d)
  BY <1>2, SlotsWritten
<1> QED BY <1>3 DEF ImagesPut

(* The effect of Put(<<i, j, k>>, c) on the stores of t. *)
PutIn(u, t, i, j, k, c) ==
  /\ u.mode = t.mode
  /\ ViewOf(u) = [ViewOf(t) EXCEPT ![<<i, j, k>>] = c]
  /\ ConfirmedOf(u) = IF t.mode = "CONFIRMED"
                        THEN [ConfirmedOf(t) EXCEPT ![<<i, j, k>>] = c]
                        ELSE ConfirmedOf(t)

(* A call on one slot, that only CONFIRMED mode takes to the confirmed image. *)
LEMMA PutFromSlots ==
  ASSUME NEW t, NEW u, NEW i \in Fan3, NEW j \in Fan2, NEW k \in Fan1,
         u.mode = t.mode, NEW c, NEW d,
         t.mode = "CONFIRMED" => d = c,
         t.mode # "CONFIRMED" => d = ConfirmedAt(t.l1[i][j], k),
         OneSlot(u, t, i, j, k, d, c)
  PROVE  PutIn(u, t, i, j, k, c)
<1>1. ImagesPut(u, t, i, j, k, d, c)
  BY SlotsWritten
<1>2. ConfirmedOf(t)[<<i, j, k>>] = ConfirmedAt(t.l1[i][j], k)
  BY DEF ConfirmedOf, Slot
<1>3. [ConfirmedOf(t) EXCEPT ![<<i, j, k>>] = ConfirmedOf(t)[<<i, j, k>>]]
        = ConfirmedOf(t)
  BY DEF ConfirmedOf
<1> QED BY <1>1, <1>2, <1>3 DEF PutIn, ImagesPut

(* In PREDICT mode the confirmed bytes of the slot stay as they are. *)
LEMMA PutFromLeaf ==
  ASSUME NEW t \in Tree, NEW u, NEW i \in Fan3, NEW j \in Fan2, NEW k \in Fan1,
         NEW w, u.l1 = [t.l1 EXCEPT ![i] = [@ EXCEPT ![j] = w]],
         u.mode = t.mode, NEW c, ViewAt(w, k) = c,
         ConfirmedAt(w, k) = IF t.mode = "CONFIRMED" THEN c
                                       ELSE ConfirmedAt(t.l1[i][j], k),
         \A x \in Fan1 \ {k} : /\ ConfirmedAt(w, x) = ConfirmedAt(t.l1[i][j], x)
                               /\ ViewAt(w, x) = ViewAt(t.l1[i][j], x)
  PROVE  PutIn(u, t, i, j, k, c)
<1>1. ViewOf(u) = [ViewOf(t) EXCEPT ![<<i, j, k>>] = c]
  BY OneSlotWritten
<1>2. ConfirmedOf(u) = [ConfirmedOf(t) EXCEPT ![<<i, j, k>>] = ConfirmedAt(w, k)]
  BY OneSlotWritten
<1>3. ConfirmedOf(t)[<<i, j, k>>] = ConfirmedAt(t.l1[i][j], k)
  BY DEF ConfirmedOf, Slot
<1>4. [ConfirmedOf(t) EXCEPT ![<<i, j, k>>] = ConfirmedOf(t)[<<i, j, k>>]]
        = ConfirmedOf(t)
  BY DEF ConfirmedOf
<1> QED BY <1>1, <1>2, <1>3, <1>4 DEF PutIn

(* A leaf whose slot k was marked and written with v. *)
LEMMA LeafPuts ==
  ASSUME NEW t \in Tree, Linked(t), NEW u,
         NEW i \in Fan3, NEW j \in Fan2, NEW k \in Fan1, NEW v \in Value,
         NEW w, u.mode = t.mode, u.l1 = [t.l1 EXCEPT ![i] = [@ EXCEPT ![j] = w]],
         LeafMarked(w, t.l1[i][j], t.mode, k),
         BytesStored(w, t.l1[i][j], t.mode, k, v)
  PROVE  PutIn(u, t, i, j, k, v)
<1> DEFINE m == t.mode
           n == t.l1[i][j]
<1>1. u.mode = m /\ u.l1 = [t.l1 EXCEPT ![i] = [@ EXCEPT ![j] = w]]
  OBVIOUS
<1>2. n \in L1Node /\ m \in Mode
  BY DEF Tree
<1>3. LeafMarked(w, n, m, k) /\ BytesStored(w, n, m, k, v)
  OBVIOUS
<1>4. m = "CONFIRMED" => n.dirty = {}
  BY CleanRoot DEF Linked
<1> HIDE DEF n, m
<1>5. CASE m = "CONFIRMED"
  <2>1. /\ w.pred = n.pred \cup {k} /\ w.conf = n.conf \cup {k}
        /\ w.dirty = {} /\ n.dirty = {} /\ w.cval = [n.cval EXCEPT ![k] = v]
    BY <1>3, <1>4, <1>5 DEF LeafMarked, BytesStored, IfConfirmed, IfPredict
  <2>2. w.cval[k] = v /\ \A x \in Fan1 \ {k} : w.cval[x] = n.cval[x]
    BY <1>2, <2>1 DEF L1Node
  <2>3. ViewAt(w, k) = v /\ ConfirmedAt(w, k) = v
    BY <2>1, <2>2 DEF ViewAt, ConfirmedAt, CurrentBytes
  <2>4. \A x \in Fan1 \ {k} : /\ ConfirmedAt(w, x) = ConfirmedAt(n, x)
                              /\ ViewAt(w, x) = ViewAt(n, x)
    BY <2>1, <2>2 DEF ViewAt, ConfirmedAt, CurrentBytes
  <2> QED BY <1>1, <1>5, <2>3, <2>4, PutFromLeaf DEF n, m
<1>6. CASE m = "PREDICT"
  <2>1. /\ w.pred = n.pred \cup {k} /\ w.conf = n.conf
        /\ w.dirty = n.dirty \cup {k} /\ w.cval = n.cval
        /\ w.pval = [n.pval EXCEPT ![k] = v]
    BY <1>3, <1>6 DEF LeafMarked, BytesStored, IfConfirmed, IfPredict
  <2>2. w.pval[k] = v /\ \A x \in Fan1 \ {k} : w.pval[x] = n.pval[x]
    BY <1>2, <2>1 DEF L1Node
  <2>3. ViewAt(w, k) = v
    BY <2>1, <2>2 DEF ViewAt, CurrentBytes
  <2>4. \A x \in Fan1 : ConfirmedAt(w, x) = ConfirmedAt(n, x)
    BY <2>1 DEF ConfirmedAt
  <2>5. \A x \in Fan1 \ {k} : ViewAt(w, x) = ViewAt(n, x)
    BY <2>1, <2>2 DEF ViewAt, CurrentBytes
  <2> QED BY <1>1, <1>6, <2>3, <2>4, <2>5, PutFromLeaf DEF n, m
<1> QED BY <1>2, <1>5, <1>6 DEF Mode

(* A write is a Put of the abstract store. *)
LEMMA GetMutPuts ==
  ASSUME NEW t \in Tree, Linked(t),
         NEW i \in Fan3, NEW j \in Fan2, NEW k \in Fan1, NEW v \in Value
  PROVE  PutIn(GetMut(t, i, j, k, v), t, i, j, k, v)
<1> DEFINE u == GetMut(t, i, j, k, v)
           w == Stored(t.l1[i][j], t.mode, k, v)
<1>1. u.mode = t.mode /\ u.l1 = [t.l1 EXCEPT ![i] = [@ EXCEPT ![j] = w]]
  <2>1. \E o1, n2, o2, n3 : OnePath(t, u, i, j, w, o1, n2, o2, n3)
    BY GetMutPath, Zenon
  <2> HIDE DEF u, w
  <2> QED BY <2>1 DEF OnePath
<1>2. t.l1[i][j] \in L1Node /\ t.mode \in Mode
  BY DEF Tree
<1>3. LeafMarked(w, t.l1[i][j], t.mode, k) /\ BytesStored(w, t.l1[i][j], t.mode, k, v)
  BY <1>2, StoredFields
<1> HIDE DEF u, w
<1> QED BY <1>1, <1>3, LeafPuts DEF u

(* A leaf that lost slot k, with the bytes it had: in no image but the
   confirmed one of PREDICT mode is the slot there. *)
LEMMA LostSlots ==
  ASSUME NEW t \in Tree, Linked(t), NEW i \in Fan3, NEW j \in Fan2,
         NEW k \in Fan1, NEW w, LeafLost(w, t.l1[i][j], t.mode, k),
         w.cval = t.l1[i][j].cval, w.pval = t.l1[i][j].pval
  PROVE  LET n == t.l1[i][j]
             d == IF t.mode = "CONFIRMED" THEN Absent ELSE ConfirmedAt(n, k)
         IN /\ ViewAt(w, k) = Absent /\ ConfirmedAt(w, k) = d
            /\ \A x \in Fan1 \ {k} : /\ ConfirmedAt(w, x) = ConfirmedAt(n, x)
                                     /\ ViewAt(w, x) = ViewAt(n, x)
<1> DEFINE n == t.l1[i][j]
           m == t.mode
<1>1. n \in L1Node /\ m \in Mode
  BY DEF Tree
<1>2. LeafLost(w, n, m, k) /\ w.cval = n.cval /\ w.pval = n.pval
  OBVIOUS
<1>3. m = "CONFIRMED" => n.dirty = {}
  BY CleanRoot DEF Linked
<1> HIDE DEF n, m
<1>4. CASE m = "CONFIRMED"
  BY <1>2, <1>3, <1>4
     DEF LeafLost, IfConfirmed, IfPredict, ViewAt, ConfirmedAt, CurrentBytes, n, m
<1>5. CASE m = "PREDICT"
  <2>1. /\ w.pred = n.pred \ {k} /\ w.conf = n.conf /\ w.dirty = n.dirty \cup {k}
    BY <1>2, <1>5 DEF LeafLost, IfConfirmed, IfPredict
  <2> QED BY <1>2, <1>5, <2>1 DEF ViewAt, ConfirmedAt, CurrentBytes, n, m
<1> QED BY <1>1, <1>4, <1>5 DEF Mode, n, m

(* A removal is a Put of Absent. *)
LEMMA RemovePuts ==
  ASSUME NEW t \in Tree, Linked(t),
         NEW i \in Fan3, NEW j \in Fan2, NEW k \in Fan1, Present(t, i, j, k)
  PROVE  PutIn(RemoveSlot(t, i, j, k), t, i, j, k, Absent)
<1> DEFINE u == RemoveSlot(t, i, j, k)
           n == t.l1[i][j]
           w == UnmarkL1(n, t.mode, k)
           n2 == Above2(t, i, j, w)
           free2 == Frees2(t, n2)
           row == IF free2 THEN NoLeaves ELSE [t.l1[i] EXCEPT ![j] = RemovedLeaf(t, w)]
           d == IF t.mode = "CONFIRMED" THEN Absent ELSE ConfirmedAt(n, k)
<1>1. u.mode = t.mode /\ u.l1 = [t.l1 EXCEPT ![i] = row]
  <2>1. \E o1, w2, o2, n3 : OneNode(t, u, i, row, o1, w2, o2, n3)
    BY RemoveNode, Zenon
  <2> HIDE DEF u, row
  <2> QED BY <2>1 DEF OneNode
<1>2. w \in L1Node /\ LeafLost(w, n, t.mode, k) /\ w.cval = n.cval /\ w.pval = n.pval
  BY RemovalLost
<1>3. /\ ViewAt(w, k) = Absent /\ ConfirmedAt(w, k) = d
      /\ \A x \in Fan1 \ {k} : /\ ConfirmedAt(w, x) = ConfirmedAt(n, x)
                               /\ ViewAt(w, x) = ViewAt(n, x)
  BY <1>2, LostSlots
<1> HIDE DEF w
<1>4. /\ t.mode = "CONFIRMED" => w.conf = w.pred
      /\ LeafLinked(n2, t.own1[i], w, j)
      /\ \A c \in Fan2 \ {j} : LeafLinked(n2, t.own1[i], t.l1[i][c], c)
  BY <1>2, UnmarkLinks, PresentOwned
<1>5. t.mode = "CONFIRMED" =>
        \A c \in Fan2 : t.l1[i][c].pred = t.l1[i][c].conf
  BY ConfirmedNode DEF Linked
<1> HIDE DEF u, n2
<1>6. \A z \in Fan1 : ConfirmedAt(NoL1, z) = Absent /\ ViewAt(NoL1, z) = Absent
  BY DEF ConfirmedAt, ViewAt, NoL1
<1>7. ASSUME NEW z \in Fan1
      PROVE  /\ ConfirmedAt(RemovedLeaf(t, w), z) = ConfirmedAt(w, z)
             /\ ViewAt(RemovedLeaf(t, w), z) = ViewAt(w, z)
  BY <1>4, <1>6 DEF RemovedLeaf, ConfirmedAt, ViewAt
<1>8. ASSUME NEW y \in Fan2, NEW z \in Fan1
      PROVE  /\ ConfirmedAt(row[y], z) = IF y = j THEN ConfirmedAt(w, z)
                                         ELSE ConfirmedAt(t.l1[i][y], z)
             /\ ViewAt(row[y], z) = IF y = j THEN ViewAt(w, z)
                                    ELSE ViewAt(t.l1[i][y], z)
  <2>1. CASE ~ free2
    <3>1. row[y] = IF y = j THEN RemovedLeaf(t, w) ELSE t.l1[i][y]
      BY <2>1 DEF Tree
    <3> HIDE DEF row
    <3> QED BY <1>7, <3>1
  <2>2. CASE free2
    <3>1. t.mode = "CONFIRMED" /\ n2.predAny = {}
      BY <2>2 DEF Frees2
    <3>2. y # j => t.l1[i][y].pred = {} /\ t.l1[i][y].conf = {}
      BY <1>4, <1>5, <3>1 DEF LeafLinked, SummaryOf
    <3>3. w.pred = {} /\ w.conf = {}
      BY <1>4, <3>1 DEF LeafLinked, SummaryOf
    <3>4. row[y] = NoL1
      BY <2>2 DEF NoLeaves
    <3> HIDE DEF row
    <3> QED BY <1>6, <3>2, <3>3, <3>4 DEF ConfirmedAt, ViewAt
  <2> QED BY <2>1, <2>2
<1> HIDE DEF row
<1>9. ASSUME NEW x \in Fan3, NEW y \in Fan2, NEW z \in Fan1
      PROVE  SlotOf(u, t, x, y, z, i, j, k, d, Absent)
  <2>1. CASE x # i
    <3>1. u.l1[x] = t.l1[x]
      BY <1>1, <2>1 DEF Tree
    <3> QED BY <2>1, <3>1 DEF SlotOf
  <2>2. CASE x = i
    <3>1. u.l1[x] = row
      BY <1>1, <2>2 DEF Tree
    <3> QED BY <1>3, <1>8, <2>2, <3>1 DEF SlotOf
  <2> QED BY <2>1, <2>2
<1> HIDE DEF d
<1>10. OneSlot(u, t, i, j, k, d, Absent)
  BY <1>9 DEF OneSlot
<1>11. PutIn(u, t, i, j, k, Absent)
  BY <1>1, <1>10, PutFromSlots DEF d, n
<1> QED BY <1>11 DEF u

(* A rollback is the Discard of the abstract store. *)
LEMMA RollbackDiscards ==
  ASSUME NEW t \in Tree, Linked(t)
  PROVE  /\ Rollback(t).mode = t.mode
         /\ ConfirmedOf(Rollback(t)) = ConfirmedOf(t)
         /\ ViewOf(Rollback(t)) = ConfirmedOf(t)
<1> DEFINE u == Rollback(t)
<1>1. TreeRolled(u, t)
  BY RollbackParts
<1> HIDE DEF u
<1>2. \A i \in Fan3, j \in Fan2, k \in Fan1 :
        /\ ConfirmedAt(u.l1[i][j], k) = ConfirmedAt(t.l1[i][j], k)
        /\ ViewAt(u.l1[i][j], k) = ConfirmedAt(t.l1[i][j], k)
  BY <1>1 DEF TreeRolled, LeafRolled, ConfirmedAt, ViewAt, CurrentBytes
<1>3. ConfirmedOf(u) = ConfirmedOf(t)
  BY <1>2 DEF ConfirmedOf, Slot
<1>4. ViewOf(u) = ConfirmedOf(t)
  BY <1>2 DEF ConfirmedOf, ViewOf, Slot
<1> QED BY <1>1, <1>3, <1>4 DEF u, TreeRolled

(* End of tick changes neither image. *)
LEMMA EndTickStutters ==
  ASSUME NEW t \in Tree, Linked(t)
  PROVE  /\ ClearChanged(t).mode = t.mode
         /\ ConfirmedOf(ClearChanged(t)) = ConfirmedOf(t)
         /\ ViewOf(ClearChanged(t)) = ViewOf(t)
<1> DEFINE u == ClearChanged(t)
<1>1. /\ u.mode = t.mode
      /\ \A i \in Fan3, j \in Fan2 : u.l1[i][j] = [t.l1[i][j] EXCEPT !.changed = {}]
  BY ClearChangedParts
<1> HIDE DEF u
<1>2. ASSUME NEW i \in Fan3, NEW j \in Fan2
      PROVE  /\ u.l1[i][j].conf = t.l1[i][j].conf
             /\ u.l1[i][j].pred = t.l1[i][j].pred
             /\ u.l1[i][j].dirty = t.l1[i][j].dirty
             /\ u.l1[i][j].cval = t.l1[i][j].cval
             /\ u.l1[i][j].pval = t.l1[i][j].pval
  <2>1. t.l1[i][j] \in L1Node
    BY DEF Tree
  <2> DEFINE n == t.l1[i][j]
             x == [n EXCEPT !.changed = {}]
  <2>2. /\ x.conf = n.conf /\ x.pred = n.pred /\ x.dirty = n.dirty
        /\ x.cval = n.cval /\ x.pval = n.pval
    BY <2>1 DEF L1Node
  <2>3. u.l1[i][j] = x
    BY <1>1
  <2> HIDE DEF x
  <2> QED BY <2>2, <2>3
<1>3. ConfirmedOf(u) = ConfirmedOf(t)
  BY <1>2 DEF ConfirmedOf, ConfirmedAt, Slot
<1>4. ASSUME NEW s \in Slot
      PROVE  ViewAt(u.l1[s[1]][s[2]], s[3]) = ViewAt(t.l1[s[1]][s[2]], s[3])
  <2>1. s[1] \in Fan3 /\ s[2] \in Fan2
    BY DEF Slot
  <2> QED BY <1>2, <2>1 DEF ViewAt, CurrentBytes
<1>5. ViewOf(u) = ViewOf(t)
  BY <1>4 DEF ViewOf
<1> QED BY <1>1, <1>3, <1>5 DEF u

(* With no prediction in flight the view is the confirmed store. *)
LEMMA CleanViewConfirmed ==
  ASSUME NEW t \in Tree, Linked(t), NoDirty(t)
  PROVE  ViewOf(t) = ConfirmedOf(t)
<1>1. \A i \in Fan3, j \in Fan2 : /\ t.l1[i][j].pred = t.l1[i][j].conf
                                  /\ t.l1[i][j].dirty = {}
  BY CleanNode
<1>2. \A i \in Fan3, j \in Fan2, k \in Fan1 :
        ViewAt(t.l1[i][j], k) = ConfirmedAt(t.l1[i][j], k)
  BY <1>1 DEF ViewAt, ConfirmedAt, CurrentBytes
<1> QED BY <1>2 DEF ViewOf, ConfirmedOf, Slot

(* A slot is present exactly when the view holds something there. *)
LEMMA PresentInView ==
  ASSUME NEW t \in Tree, NEW i \in Fan3, NEW j \in Fan2, NEW k \in Fan1,
         Present(t, i, j, k)
  PROVE  ViewOf(t)[<<i, j, k>>] # Absent
<1>1. ViewOf(t)[<<i, j, k>>] = CurrentBytes(t.l1[i][j], k)
  BY DEF ViewOf, ViewAt, Slot, Present
<1>2. t.l1[i][j] \in L1Node
  BY DEF Tree
<1>3. CurrentBytes(t.l1[i][j], k) \in Value
  BY <1>2 DEF CurrentBytes, L1Node
<1> QED BY <1>1, <1>3, AbsentAssumption

(* A loaded tree holds the store that was read, in both images. *)
LEMMA LoadRestores ==
  ASSUME NEW t \in Tree, NEW store \in Store
  PROVE  /\ Load(t, FeedOf(store)).mode = t.mode
         /\ ConfirmedOf(Load(t, FeedOf(store))) = store
         /\ ViewOf(Load(t, FeedOf(store))) = store
<1> DEFINE u == Load(t, FeedOf(store))
<1>1. u.mode = t.mode /\ TreeLoaded(u, store)
  BY LoadParts
<1> HIDE DEF u
<1>2. ASSUME NEW i \in Fan3, NEW j \in Fan2, NEW k \in Fan1
      PROVE  /\ ConfirmedAt(u.l1[i][j], k) = store[<<i, j, k>>]
             /\ ViewAt(u.l1[i][j], k) = store[<<i, j, k>>]
  <2>1. LeafLoaded(u.l1[i][j], store, i, j)
    BY <1>1 DEF TreeLoaded
  <2>2. k \in HeldSlots(store, i, j) <=> store[<<i, j, k>>] # Absent
    BY DEF HeldSlots
  <2> QED BY <2>1, <2>2 DEF LeafLoaded, ConfirmedAt, ViewAt, CurrentBytes
<1>3. \A s \in Slot : s[1] \in Fan3 /\ s[2] \in Fan2 /\ s[3] \in Fan1
                     /\ s = <<s[1], s[2], s[3]>>
  BY DEF Slot
<1>4. store = [s \in Slot |-> store[s]]
  BY DEF Store
<1>5. ConfirmedOf(u) = store /\ ViewOf(u) = store
  <2>1. \A s \in Slot : /\ ConfirmedAt(u.l1[s[1]][s[2]], s[3]) = store[s]
                       /\ ViewAt(u.l1[s[1]][s[2]], s[3]) = store[s]
    BY <1>2, <1>3
  <2> QED BY <1>4, <2>1 DEF ConfirmedOf, ViewOf
<1> QED BY <1>1, <1>5 DEF u

-----------------------------------------------------------------------------
(* The checksum. *)

(* The masks on the way down name exactly the slots the view holds. *)
LEMMA ViewHolds ==
  ASSUME NEW t \in Tree, Linked(t)
  PROVE  /\ \A i \in Fan3, j \in Fan2, k \in Fan1 :
              /\ ViewOf(t)[<<i, j, k>>] # Absent <=> k \in t.l1[i][j].pred
              /\ k \in t.l1[i][j].pred =>
                   ViewOf(t)[<<i, j, k>>] = CurrentBytes(t.l1[i][j], k)
         /\ \A i \in Fan3, j \in Fan2 :
              j \in t.l2[i].predAny <=> \E k \in Fan1 : k \in t.l1[i][j].pred
         /\ \A i \in Fan3 :
              i \in t.root.predAny <=>
                \E j \in Fan2, k \in Fan1 : k \in t.l1[i][j].pred
<1>1. ASSUME NEW i \in Fan3, NEW j \in Fan2, NEW k \in Fan1
      PROVE  /\ ViewOf(t)[<<i, j, k>>] # Absent <=> k \in t.l1[i][j].pred
             /\ k \in t.l1[i][j].pred =>
                  ViewOf(t)[<<i, j, k>>] = CurrentBytes(t.l1[i][j], k)
  <2>1. t.l1[i][j] \in L1Node
    BY DEF Tree
  <2>2. CurrentBytes(t.l1[i][j], k) # Absent
    BY <2>1, AbsentAssumption DEF CurrentBytes, L1Node
  <2>3. ViewOf(t)[<<i, j, k>>] = ViewAt(t.l1[i][j], k)
    BY DEF ViewOf, Slot
  <2> QED BY <2>2, <2>3 DEF ViewAt
<1>2. ASSUME NEW i \in Fan3, NEW j \in Fan2
      PROVE  j \in t.l2[i].predAny <=> \E k \in Fan1 : k \in t.l1[i][j].pred
  <2>1. t.l1[i][j].pred \subseteq Fan1
    BY DEF Tree, L1Node
  <2>2. j \in t.l2[i].predAny <=> t.l1[i][j].pred # {}
    BY DEF Linked, LeafLinked, SummaryOf
  <2> QED BY <2>1, <2>2
<1>3. ASSUME NEW i \in Fan3
      PROVE  i \in t.root.predAny <=>
               \E j \in Fan2, k \in Fan1 : k \in t.l1[i][j].pred
  <2>1. t.l2[i].predAny \subseteq Fan2
    BY DEF Tree, Summary
  <2>2. i \in t.root.predAny <=> t.l2[i].predAny # {}
    BY DEF Linked, NodeLinked, SummaryOf
  <2> QED BY <1>2, <2>1, <2>2
<1> QED BY <1>1, <1>2, <1>3

(* What the checksum reads is what the view holds. *)
LEMMA FeedOfView ==
  ASSUME NEW t \in Tree, Linked(t)
  PROVE  CrcFeed(t) = FeedOf(ViewOf(t))
<1> DEFINE store == ViewOf(t)
           Leaf(i, j) == [k \in t.l1[i][j].pred |-> CurrentBytes(t.l1[i][j], k)]
           D1(i, j) == {z \in Fan1 : store[<<i, j, z>>] # Absent}
           D2(i) == {y \in Fan2 : \E k \in Fan1 : store[<<i, y, k>>] # Absent}
           D3 == {x \in Fan3 : \E j \in Fan2 :
                                 \E k \in Fan1 : store[<<x, j, k>>] # Absent}
           LeafOf(i, j) == [k \in D1(i, j) |-> store[<<i, j, k>>]]
<1>1. /\ t.root.predAny \subseteq Fan3
      /\ \A i \in Fan3 : t.l2[i].predAny \subseteq Fan2
      /\ \A i \in Fan3, j \in Fan2 : t.l1[i][j].pred \subseteq Fan1
  BY DEF Tree, Summary, L1Node
<1> HIDE DEF store
<1>2. \A i \in Fan3, j \in Fan2, k \in Fan1 :
        /\ store[<<i, j, k>>] # Absent <=> k \in t.l1[i][j].pred
        /\ k \in t.l1[i][j].pred =>
             store[<<i, j, k>>] = CurrentBytes(t.l1[i][j], k)
  BY ViewHolds DEF store
<1>3. /\ \A i \in Fan3, j \in Fan2 :
           j \in t.l2[i].predAny <=> \E k \in Fan1 : k \in t.l1[i][j].pred
      /\ \A i \in Fan3 : i \in t.root.predAny <=>
           \E j \in Fan2, k \in Fan1 : k \in t.l1[i][j].pred
  BY ViewHolds
<1>4. ASSUME NEW i \in Fan3, NEW j \in Fan2
      PROVE  Leaf(i, j) = LeafOf(i, j)
  <2>1. t.l1[i][j].pred = D1(i, j)
    BY <1>1, <1>2
  <2>2. \A k \in D1(i, j) : store[<<i, j, k>>] = CurrentBytes(t.l1[i][j], k)
    BY <1>2, <2>1
  <2> QED BY <2>1, <2>2
<1>5. ASSUME NEW i \in Fan3
      PROVE  t.l2[i].predAny = D2(i)
  <2>1. \A j \in Fan2 : j \in t.l2[i].predAny <=> j \in D2(i)
    BY <1>2, <1>3
  <2>2. D2(i) \subseteq Fan2 /\ t.l2[i].predAny \subseteq Fan2
    BY <1>1
  <2> HIDE DEF D2
  <2> QED BY <2>1, <2>2
<1>6. t.root.predAny = D3
  <2>1. ASSUME NEW i \in Fan3
        PROVE  i \in t.root.predAny <=> i \in D3
    <3>1. i \in D3 <=> \E j \in Fan2 :
                         \E k \in Fan1 : store[<<i, j, k>>] # Absent
      OBVIOUS
    <3>2. (\E j \in Fan2 : \E k \in Fan1 : store[<<i, j, k>>] # Absent)
            <=> \E j \in Fan2, k \in Fan1 : k \in t.l1[i][j].pred
      BY <1>2
    <3> HIDE DEF D3
    <3> QED BY <1>3, <3>1, <3>2
  <2>2. D3 \subseteq Fan3
    OBVIOUS
  <2> HIDE DEF D3
  <2> QED BY <1>1, <2>1, <2>2
<1>7. CrcFeed(t) = [i \in t.root.predAny |-> [j \in t.l2[i].predAny |-> Leaf(i, j)]]
  BY DEF CrcFeed
<1>8. FeedOf(store) = [i \in D3 |-> [j \in D2(i) |-> LeafOf(i, j)]]
  BY DEF FeedOf
<1> HIDE DEF Leaf, LeafOf, D2, D3, store
<1>9. \A i \in D3 : [j \in t.l2[i].predAny |-> Leaf(i, j)]
                      = [j \in D2(i) |-> LeafOf(i, j)]
  <2> SUFFICES ASSUME NEW i \in D3
               PROVE  [j \in t.l2[i].predAny |-> Leaf(i, j)]
                        = [j \in D2(i) |-> LeafOf(i, j)]
    OBVIOUS
  <2>1. i \in Fan3 /\ t.l2[i].predAny = D2(i) /\ D2(i) \subseteq Fan2
    BY <1>1, <1>5, <1>6
  <2>2. \A j \in D2(i) : Leaf(i, j) = LeafOf(i, j)
    BY <1>4, <2>1
  <2> QED BY <2>1, <2>2
<1>10. CrcFeed(t) = FeedOf(store)
  BY <1>6, <1>7, <1>8, <1>9
<1> QED BY <1>10 DEF store

(* A snapshot is what the checksum of the rolled-back tree would read. *)
LEMMA SnapshotOfRollback ==
  ASSUME NEW t \in Tree, Linked(t)
  PROVE  Snapshot(t) = CrcFeed(Rollback(t))
<1> DEFINE u == Rollback(t)
           Sent(i, j) == [k \in t.l1[i][j].conf |-> t.l1[i][j].cval[k]]
           Read(i, j) == [k \in u.l1[i][j].pred |-> CurrentBytes(u.l1[i][j], k)]
<1>1. u \in Tree /\ TreeRolled(u, t)
  BY RollbackParts
<1>2. /\ t.root.confAny \subseteq Fan3
      /\ \A i \in Fan3 : t.l2[i].confAny \subseteq Fan2
  BY DEF Tree, Summary
<1> HIDE DEF u
<1>3. /\ u.root.predAny = t.root.confAny
      /\ \A i \in Fan3 : u.l2[i].predAny = t.l2[i].confAny
  BY <1>1 DEF TreeRolled, SummaryRolled
<1>4. ASSUME NEW i \in Fan3, NEW j \in Fan2
      PROVE  Sent(i, j) = Read(i, j)
  <2>1. /\ LeafRolled(u.l1[i][j], t.l1[i][j])
        /\ \A k \in t.l1[i][j].conf : u.l1[i][j].cval[k] = t.l1[i][j].cval[k]
    BY <1>1 DEF TreeRolled
  <2> QED BY <2>1 DEF LeafRolled, CurrentBytes
<1>5. /\ Snapshot(t) = [i \in t.root.confAny |-> [j \in t.l2[i].confAny |-> Sent(i, j)]]
      /\ CrcFeed(u) = [i \in u.root.predAny |-> [j \in u.l2[i].predAny |-> Read(i, j)]]
  BY DEF Snapshot, CrcFeed
<1> HIDE DEF Sent, Read
<1>6. ASSUME NEW i \in Fan3
      PROVE  [j \in t.l2[i].confAny |-> Sent(i, j)]
               = [j \in u.l2[i].predAny |-> Read(i, j)]
  <2>1. \A j \in t.l2[i].confAny : Sent(i, j) = Read(i, j)
    BY <1>2, <1>4
  <2> QED BY <1>3, <2>1
<1>7. Snapshot(t) = CrcFeed(u)
  BY <1>2, <1>3, <1>5, <1>6
<1> QED BY <1>7 DEF u

(* A snapshot carries the confirmed image. *)
LEMMA SnapshotOfConfirmed ==
  ASSUME NEW t \in Tree, Linked(t)
  PROVE  Snapshot(t) = FeedOf(ConfirmedOf(t))
BY SnapshotOfRollback, RollbackLinks, RollbackDiscards, FeedOfView
=============================================================================
