--------------------------- MODULE HibitWorldProofs ---------------------------
(* Proofs about HibitWorld, for any number of components, every fan-out, every
   set of values and of snapshots, and every bound on the clocks. *)
EXTENDS HibitWorld, HibitNodesProofs

USE FanAssumption, ZeroAssumption

-----------------------------------------------------------------------------
(* What the masks of one tree tell of the CONFIRMED calls among `slots'.

   Told: a change that no prediction covers is one of those calls.
   Marked: what such a call wrote is still marked changed while it is there. *)
Told(t, c, slots) ==
  \A i \in Fan3, j \in Fan2 :
    \A k \in t.l1[i][j].changed \ t.l1[i][j].dirty : <<c, i, j, k>> \in slots

Marked(t, c, slots) ==
  \A i \in Fan3, j \in Fan2, k \in Fan1 :
    <<c, i, j, k>> \in slots /\ k \in t.l1[i][j].conf => k \in t.l1[i][j].changed

TreeInv(t, c, m, slots) ==
  t \in Tree /\ WellFormed(t) /\ t.mode = m /\ Told(t, c, slots) /\ Marked(t, c, slots)

(* The inductive invariant of the specification. *)
WInv == TypeOK /\ \A c \in Component : TreeInv(trees[c], c, mode, fresh)

(* A leaf b after a call on slot k of the leaf a. *)
LeafNews(b, a, m, k) ==
  /\ b.changed \ b.dirty \subseteq (a.changed \ a.dirty) \cup IfConfirmed(m, {k})
  /\ \A x \in b.conf : \/ x \in b.changed
                       \/ x \in a.conf \ a.changed /\ (m = "CONFIRMED" => x # k)

(* A tree u after a call on one slot of t, that may release other leaves. *)
SlotNews(u, t, i, j, k) ==
  /\ u.mode = t.mode
  /\ \A x \in Fan3, y \in Fan2 :
       x # i \/ y # j => u.l1[x][y] = t.l1[x][y] \/ u.l1[x][y] = NoL1
  /\ LeafNews(u.l1[i][j], t.l1[i][j], t.mode, k)

(* A tree in which nothing is marked changed tells of no call. *)
Unchanged(t) == \A i \in Fan3, j \in Fan2 : t.l1[i][j].changed = {}

-----------------------------------------------------------------------------
(* The leaf of a write. *)
LEMMA MarkedLeafNews ==
  ASSUME NEW a, NEW b, NEW m \in Mode, NEW k, LeafMarked(b, a, m, k)
  PROVE  LeafNews(b, a, m, k)
BY DEF LeafMarked, LeafNews, IfConfirmed, IfPredict, Mode

(* The leaf of a removal. *)
LEMMA UnmarkedLeafNews ==
  ASSUME NEW a, NEW b, NEW m \in Mode, NEW k, LeafUnmarked(b, a, m, k)
  PROVE  LeafNews(b, a, m, k)
BY DEF LeafUnmarked, LeafNews, IfConfirmed, IfPredict, Mode

(* A call that rewrites one path has no news elsewhere. *)
LEMMA PathNews ==
  ASSUME NEW t \in Tree, NEW u, NEW i \in Fan3, NEW j \in Fan2, NEW k \in Fan1,
         NEW w, NEW o1, NEW n2, NEW o2, NEW n3,
         OnePath(t, u, i, j, w, o1, n2, o2, n3),
         LeafNews(w, t.l1[i][j], t.mode, k)
  PROVE  SlotNews(u, t, i, j, k)
<1>1. u.mode = t.mode /\ u.l1 = [t.l1 EXCEPT ![i] = [@ EXCEPT ![j] = w]]
  BY DEF OnePath
<1>2. \A x \in Fan3, y \in Fan2 :
        u.l1[x][y] = IF x = i /\ y = j THEN w ELSE t.l1[x][y]
  BY <1>1 DEF Tree
<1> QED BY <1>1, <1>2 DEF SlotNews

(* A write is news of its slot alone. *)
LEMMA WriteNews ==
  ASSUME NEW t \in Tree, Linked(t),
         NEW i \in Fan3, NEW j \in Fan2, NEW k \in Fan1, NEW v \in Value
  PROVE  SlotNews(GetMut(t, i, j, k, v), t, i, j, k)
<1> DEFINE m == t.mode
           n1 == MarkL1(t.l1[i][j], m, k)
           n2 == MarkUp(t.l2[i], m, j, n1.pred = Fan1, n1.conf = Fan1)
           n3 == MarkUp(t.root, m, i, n2.predAll = Fan2, n2.confAll = Fan2)
           w == Stored(t.l1[i][j], m, k, v)
           u == GetMut(t, i, j, k, v)
<1>1. m \in Mode /\ t.l1[i][j] \in L1Node
  BY DEF Tree
<1>2. OnePath(t, u, i, j, w, t.own1[i] \cup {j}, n2, t.own2 \cup {i}, n3)
  BY GetMutPath
<1>3. LeafNews(w, t.l1[i][j], m, k)
  BY <1>1, StoredFields, MarkedLeafNews
<1> HIDE DEF u, w, n2, n3
<1> QED BY <1>2, <1>3, PathNews DEF u

(* A removal is news of its slot alone. *)
LEMMA RemoveNews ==
  ASSUME NEW t \in Tree, NEW i \in Fan3, NEW j \in Fan2, NEW k \in Fan1
  PROVE  SlotNews(RemoveSlot(t, i, j, k), t, i, j, k)
<1> DEFINE m == t.mode
           w == UnmarkL1(t.l1[i][j], m, k)
           n2 == Above2(t, i, j, w)
           free2 == Frees2(t, n2)
           row == IF free2 THEN NoLeaves ELSE [t.l1[i] EXCEPT ![j] = RemovedLeaf(t, w)]
           u == RemoveSlot(t, i, j, k)
<1>1. m \in Mode /\ t.l1[i][j] \in L1Node
  BY DEF Tree
<1>2. u.mode = t.mode /\ u.l1 = [t.l1 EXCEPT ![i] = row]
  <2>1. \E o1, w2, o2, n3 : OneNode(t, u, i, row, o1, w2, o2, n3)
    BY RemoveNode, Zenon
  <2> HIDE DEF u, row
  <2> QED BY <2>1 DEF OneNode
<1>3. LeafNews(w, t.l1[i][j], m, k)
  BY <1>1, UnmarkL1Fields, UnmarkedLeafNews
<1>4. LeafNews(NoL1, t.l1[i][j], m, k)
  BY DEF LeafNews, NoL1
<1>5. /\ row[j] = w \/ row[j] = NoL1
      /\ \A y \in Fan2 \ {j} : row[y] = t.l1[i][y] \/ row[y] = NoL1
  BY DEF Tree, NoLeaves, RemovedLeaf
<1> HIDE DEF u, w, row
<1>6. u.l1[i] = row /\ \A x \in Fan3 \ {i} : u.l1[x] = t.l1[x]
  BY <1>2 DEF Tree
<1>7. SlotNews(u, t, i, j, k)
  BY <1>2, <1>3, <1>4, <1>5, <1>6 DEF SlotNews
<1> QED BY <1>7 DEF u

(* With the slot of a CONFIRMED call recorded, the masks tell the truth. *)
LEMMA NewsIsRecorded ==
  ASSUME NEW c, NEW m \in Mode, NEW slots, NEW t, TreeInv(t, c, m, slots),
         NEW u \in Tree, WellFormed(u),
         NEW i \in Fan3, NEW j \in Fan2, NEW k \in Fan1, SlotNews(u, t, i, j, k)
  PROVE  TreeInv(u, c, m, slots \cup IfConfirmed(m, {<<c, i, j, k>>}))
<1> DEFINE all == slots \cup IfConfirmed(m, {<<c, i, j, k>>})
<1>1. u.mode = m /\ t.mode = m
  BY DEF TreeInv, SlotNews
<1>2. ASSUME NEW x \in Fan3, NEW y \in Fan2,
             NEW z \in u.l1[x][y].changed \ u.l1[x][y].dirty
      PROVE  <<c, x, y, z>> \in all
  <2>1. CASE x = i /\ y = j
    <3>1. z \in (t.l1[x][y].changed \ t.l1[x][y].dirty) \cup IfConfirmed(m, {k})
      BY <1>1, <1>2, <2>1 DEF SlotNews, LeafNews
    <3>2. CASE z \in t.l1[x][y].changed \ t.l1[x][y].dirty
      BY <3>2 DEF TreeInv, Told
    <3>3. CASE z \in IfConfirmed(m, {k})
      BY <2>1, <3>3 DEF IfConfirmed
    <3> QED BY <3>1, <3>2, <3>3
  <2>2. CASE ~ (x = i /\ y = j)
    <3>1. u.l1[x][y] = t.l1[x][y] \/ u.l1[x][y] = NoL1
      BY <2>2 DEF SlotNews
    <3>2. u.l1[x][y] = t.l1[x][y]
      BY <1>2, <3>1 DEF NoL1
    <3> QED BY <1>2, <3>2 DEF TreeInv, Told
  <2> QED BY <2>1, <2>2
<1>3. ASSUME NEW x \in Fan3, NEW y \in Fan2, NEW z \in Fan1,
             <<c, x, y, z>> \in all, z \in u.l1[x][y].conf
      PROVE  z \in u.l1[x][y].changed
  <2>1. CASE x = i /\ y = j
    <3>1. SUFFICES ASSUME z \in t.l1[x][y].conf \ t.l1[x][y].changed,
                          m = "CONFIRMED" => z # k
                   PROVE  FALSE
      BY <1>1, <1>3, <2>1 DEF SlotNews, LeafNews
    <3>2. <<c, x, y, z>> \in slots
      BY <1>3, <2>1, <3>1 DEF IfConfirmed
    <3> QED BY <3>1, <3>2 DEF TreeInv, Marked
  <2>2. CASE ~ (x = i /\ y = j)
    <3>1. <<c, x, y, z>> \in slots
      BY <1>3, <2>2 DEF IfConfirmed
    <3>2. u.l1[x][y] = t.l1[x][y]
      BY <1>3, <2>2 DEF SlotNews, NoL1
    <3> QED BY <1>3, <3>1, <3>2 DEF TreeInv, Marked
  <2> QED BY <2>1, <2>2
<1> QED BY <1>1, <1>2, <1>3 DEF TreeInv, Told, Marked

(* Calls on other trees do not concern a tree. *)
LEMMA OtherTree ==
  ASSUME NEW c, NEW d, d # c, NEW m, NEW slots, NEW t, TreeInv(t, c, m, slots),
         NEW i, NEW j, NEW k
  PROVE  TreeInv(t, c, m, slots \cup IfConfirmed(m, {<<d, i, j, k>>}))
<1>1. \A x, y, z : <<c, x, y, z>> # <<d, i, j, k>>
  OBVIOUS
<1> QED BY <1>1 DEF TreeInv, Told, Marked, IfConfirmed

(* Once the changed bits are gone the record may start again. *)
LEMMA UnchangedStartsAgain ==
  ASSUME NEW c, NEW m, NEW t \in Tree, WellFormed(t), t.mode = m, Unchanged(t)
  PROVE  TreeInv(t, c, m, {})
BY DEF TreeInv, Told, Marked, Unchanged

-----------------------------------------------------------------------------
(* The invariant *)

(* It holds at first. *)
LEMMA WorldInit == Init => WInv
<1> SUFFICES ASSUME Init PROVE WInv
  OBVIOUS
<1>1. NewTree \in Tree /\ WellFormed(NewTree)
  BY NewTreeType, NewTreeWellFormed
<1>2. Unchanged(NewTree) /\ NewTree.mode = "CONFIRMED"
  BY DEF Unchanged, NewTree, NoLeaves, NoL1
<1>3. \A c \in Component : TreeInv(trees[c], c, mode, fresh)
  BY <1>1, <1>2, UnchangedStartsAgain DEF Init
<1>4. TypeOK
  BY <1>1, MaxTickAssumption DEF Init, TypeOK, Mode
<1> QED BY <1>3, <1>4 DEF WInv

(* A call on one tree preserves it. *)
LEMMA AccessKeeps ==
  ASSUME WInv, NEW c \in Component, NEW i \in Fan3, NEW j \in Fan2,
         NEW k \in Fan1, NEW u \in Tree, WellFormed(u),
         SlotNews(u, trees[c], i, j, k),
         trees' = [trees EXCEPT ![c] = u], Record(<<c, i, j, k>>)
  PROVE  WInv'
<1>1. fresh' = fresh \cup IfConfirmed(mode, {<<c, i, j, k>>}) /\ mode' = mode
  BY DEF Record
<1>2. TypeOK /\ mode \in Mode /\ trees \in [Component -> Tree]
  BY DEF WInv, TypeOK
<1>3. TypeOK'
  BY <1>1, <1>2 DEF TypeOK, Record, clocks, IfConfirmed
<1>4. ASSUME NEW d \in Component
      PROVE  TreeInv(trees'[d], d, mode', fresh')
  <2>1. TreeInv(trees[d], d, mode, fresh)
    BY DEF WInv
  <2>2. CASE d = c
    <3>1. trees'[d] = u
      BY <1>2, <2>2
    <3>2. TreeInv(u, d, mode, fresh \cup IfConfirmed(mode, {<<d, i, j, k>>}))
      BY <1>2, <2>1, <2>2, NewsIsRecorded
    <3> QED BY <1>1, <2>2, <3>1, <3>2
  <2>3. CASE d # c
    <3>1. trees'[d] = trees[d]
      BY <1>2, <2>3
    <3>2. TreeInv(trees[d], d, mode, fresh \cup IfConfirmed(mode, {<<c, i, j, k>>}))
      BY <2>1, <2>3, OtherTree
    <3> QED BY <1>1, <3>1, <3>2
  <2> QED BY <2>2, <2>3
<1> QED BY <1>3, <1>4 DEF WInv

(* So does a call that renews all trees and leaves no changed bit. *)
LEMMA RenewalKeeps ==
  ASSUME WInv, NEW f, trees' = [c \in Component |-> f[c]],
         \A c \in Component : /\ f[c] \in Tree /\ WellFormed(f[c])
                              /\ f[c].mode = trees[c].mode /\ Unchanged(f[c]),
         mode' = mode, fresh' = {},
         confirmedTick' \in 0..MaxTick, predictedTick' \in 0..MaxTick
  PROVE  WInv'
<1>1. TypeOK'
  BY DEF WInv, TypeOK
<1>2. ASSUME NEW c \in Component
      PROVE  TreeInv(trees'[c], c, mode', fresh')
  <2>1. trees[c].mode = mode
    BY DEF WInv, TreeInv
  <2> QED BY <2>1, UnchangedStartsAgain
<1> QED BY <1>1, <1>2 DEF WInv

(* A tree that an end of tick cleared has no changed bit. *)
LEMMA ClearedUnchanged ==
  ASSUME NEW t \in Tree, Linked(t)
  PROVE  Unchanged(ClearChanged(t)) /\ ClearChanged(t).mode = t.mode
<1>1. \A i \in Fan3, j \in Fan2 :
        ClearChanged(t).l1[i][j] = [t.l1[i][j] EXCEPT !.changed = {}]
  BY ClearChangedParts
<1>2. \A i \in Fan3, j \in Fan2 : t.l1[i][j] \in L1Node
  BY DEF Tree
<1>3. \A n \in L1Node : [n EXCEPT !.changed = {}].changed = {}
  BY DEF L1Node
<1>4. Unchanged(ClearChanged(t))
  <2> DEFINE u == ClearChanged(t)
  <2>1. ASSUME NEW i \in Fan3, NEW j \in Fan2
        PROVE  u.l1[i][j].changed = {}
    <3> DEFINE n == t.l1[i][j]
    <3>1. n \in L1Node /\ u.l1[i][j] = [n EXCEPT !.changed = {}]
      BY <1>1, <1>2
    <3> HIDE DEF n, u
    <3> QED BY <1>3, <3>1
  <2> HIDE DEF u
  <2>2. Unchanged(u)
    BY <2>1 DEF Unchanged
  <2> QED BY <2>2 DEF u
<1> QED BY <1>4, ClearChangedParts

(* Nor has a rolled back tree. *)
LEMMA RolledUnchanged ==
  ASSUME NEW t \in Tree, Linked(t)
  PROVE  Unchanged(Rollback(t)) /\ Rollback(t).mode = t.mode
BY RollbackParts DEF TreeRolled, LeafRolled, Unchanged

(* Nor has a loaded tree. *)
LEMMA LoadedUnchanged ==
  ASSUME NEW t \in Tree, NEW store \in Store
  PROVE  /\ Unchanged(Load(t, FeedOf(store)))
         /\ Load(t, FeedOf(store)).mode = t.mode
BY LoadParts DEF TreeLoaded, LeafLoaded, Unchanged

(* Every call preserves the invariant. *)
LEMMA WorldNext == WInv /\ [Next]_vars => WInv'
<1> SUFFICES ASSUME WInv, [Next]_vars PROVE WInv'
  OBVIOUS
<1>1. /\ trees \in [Component -> Tree] /\ mode \in Mode
      /\ confirmedTick \in 0..MaxTick /\ predictedTick \in 0..MaxTick
      /\ \A c \in Component : /\ trees[c] \in Tree /\ WellFormed(trees[c])
                              /\ Linked(trees[c]) /\ trees[c].mode = mode
  BY DEF WInv, TypeOK, TreeInv, WellFormed
<1>2. ASSUME NEW c \in Component, NEW i \in Fan3, NEW j \in Fan2,
             NEW k \in Fan1, Write(c, i, j, k)
      PROVE  WInv'
  <2>1. PICK v \in Value : trees' = [trees EXCEPT ![c] = GetMut(@, i, j, k, v)]
    BY <1>2 DEF Write
  <2> DEFINE u == GetMut(trees[c], i, j, k, v)
  <2>2. u \in Tree /\ WellFormed(u) /\ SlotNews(u, trees[c], i, j, k)
    BY <1>1, GetMutKeeps, WriteNews
  <2>3. trees' = [trees EXCEPT ![c] = u] /\ Record(<<c, i, j, k>>)
    BY <1>2, <2>1 DEF Write
  <2> HIDE DEF u
  <2> QED BY <2>2, <2>3, AccessKeeps
<1>3. ASSUME NEW c \in Component, NEW i \in Fan3, NEW j \in Fan2,
             NEW k \in Fan1, Remove(c, i, j, k)
      PROVE  WInv'
  <2> DEFINE u == RemoveSlot(trees[c], i, j, k)
  <2>1. Present(trees[c], i, j, k)
    BY <1>3 DEF Remove
  <2>2. u \in Tree /\ WellFormed(u) /\ SlotNews(u, trees[c], i, j, k)
    BY <1>1, <2>1, RemoveKeeps, RemoveNews
  <2>3. trees' = [trees EXCEPT ![c] = u] /\ Record(<<c, i, j, k>>)
    BY <1>3 DEF Remove
  <2> HIDE DEF u
  <2> QED BY <2>2, <2>3, AccessKeeps
<1>4. CASE EndTick
  <2> DEFINE f == [c \in Component |-> ClearChanged(trees[c])]
  <2>1. \A c \in Component : /\ f[c] \in Tree /\ WellFormed(f[c])
                             /\ f[c].mode = trees[c].mode /\ Unchanged(f[c])
    BY <1>1, ClearChangedKeeps, ClearedUnchanged
  <2>2. trees' = [c \in Component |-> f[c]]
    BY <1>4 DEF EndTick
  <2>3. confirmedTick' \in 0..MaxTick /\ predictedTick' \in 0..MaxTick
    BY <1>1, <1>4, MaxTickAssumption DEF EndTick
  <2>4. mode' = mode /\ fresh' = {}
    BY <1>4 DEF EndTick
  <2> HIDE DEF f
  <2> QED BY <2>1, <2>2, <2>3, <2>4, RenewalKeeps
<1>5. CASE WorldRollback
  <2> DEFINE f == [c \in Component |-> Rollback(trees[c])]
  <2>1. \A c \in Component : /\ f[c] \in Tree /\ WellFormed(f[c])
                             /\ f[c].mode = trees[c].mode /\ Unchanged(f[c])
    BY <1>1, RollbackKeeps, RolledUnchanged
  <2>2. trees' = [c \in Component |-> f[c]]
    BY <1>5 DEF WorldRollback
  <2>3. confirmedTick' \in 0..MaxTick /\ predictedTick' \in 0..MaxTick
    BY <1>1, <1>5, MaxTickAssumption DEF WorldRollback
  <2>4. mode' = mode /\ fresh' = {}
    BY <1>5 DEF WorldRollback
  <2> HIDE DEF f
  <2> QED BY <2>1, <2>2, <2>3, <2>4, RenewalKeeps
<1>6. ASSUME NEW snap \in Sent, LoadWorld(snap)
      PROVE  WInv'
  <2> DEFINE f == [c \in Component |-> Load(trees[c], FeedOf(snap.stores[c]))]
  <2>1. snap.tick \in 0..MaxTick /\ \A c \in Component : snap.stores[c] \in Store
    BY SentAssumption
  <2>2. \A c \in Component : /\ f[c] \in Tree /\ WellFormed(f[c])
                             /\ f[c].mode = trees[c].mode /\ Unchanged(f[c])
    BY <1>1, <2>1, LoadKeeps, LoadedUnchanged
  <2>3. trees' = [c \in Component |-> f[c]]
    BY <1>6 DEF LoadWorld
  <2>4. confirmedTick' \in 0..MaxTick /\ predictedTick' \in 0..MaxTick
    BY <1>6, <2>1 DEF LoadWorld
  <2>5. mode' = mode /\ fresh' = {}
    BY <1>6 DEF LoadWorld
  <2> HIDE DEF f
  <2> QED BY <2>2, <2>3, <2>4, <2>5, RenewalKeeps
<1>7. ASSUME NEW m \in Mode, SetMode(m)
      PROVE  WInv'
  <2>1. ASSUME NEW c \in Component
        PROVE  TreeInv(trees'[c], c, mode', fresh')
    <3> DEFINE u == [trees[c] EXCEPT !.mode = m]
    <3>1. trees'[c] = u /\ mode' = m /\ fresh' = fresh
      BY <1>7 DEF SetMode
    <3>2. u \in Tree /\ WellFormed(u)
      BY <1>1, <1>7, SetModeKeeps DEF SetMode
    <3>3. u.mode = m /\ u.l1 = trees[c].l1
      BY <1>1 DEF Tree
    <3>4. Told(u, c, fresh) /\ Marked(u, c, fresh)
      BY <3>3 DEF WInv, TreeInv, Told, Marked
    <3> HIDE DEF u
    <3> QED BY <3>1, <3>2, <3>3, <3>4 DEF TreeInv
  <2>2. TypeOK'
    <3>1. trees' \in [Component -> Tree]
      BY <1>7, <2>1 DEF TreeInv, SetMode
    <3> QED BY <1>1, <1>7, <3>1 DEF SetMode, clocks, WInv, TypeOK
  <2> QED BY <2>1, <2>2 DEF WInv
<1>8. CASE UNCHANGED vars
  <2>1. /\ trees' = trees /\ mode' = mode /\ fresh' = fresh
        /\ confirmedTick' = confirmedTick /\ predictedTick' = predictedTick
    BY <1>8 DEF vars, clocks
  <2>2. TypeOK'
    BY <2>1 DEF WInv, TypeOK
  <2> QED BY <2>1, <2>2 DEF WInv
<1> QED BY <1>2, <1>3, <1>4, <1>5, <1>6, <1>7, <1>8
        DEF Next, Access, Tick, LoadAny

(* The invariant holds in every reachable state. *)
LEMMA WorldInvariance == Spec => []WInv
BY WorldInit, WorldNext, PTL DEF Spec

-----------------------------------------------------------------------------
(* The theorems *)

(* The trees stay trees and the clocks stay within their bound, for any mix of
   modes, rollbacks and snapshots. *)
THEOREM WorldTypeCorrect == Spec => []TypeOK
<1>1. WInv => TypeOK
  BY DEF WInv
<1> QED BY <1>1, WorldInvariance, PTL

(* A rollback advances the confirmed clock only for a CONFIRMED call made since
   the last rollback and the last end of tick: predictions never advance it. *)
THEOREM ClockJustified == Spec => AdvanceIsJustified
<1>1. ASSUME WInv, WorldRollback, confirmedTick' # confirmedTick
      PROVE  fresh # {}
  <2>1. confirmedTick \in Nat
    BY <1>1, MaxTickAssumption DEF WInv, TypeOK
  <2>2. AnyAdvanced
    BY <1>1, <2>1 DEF WorldRollback
  <2>3. PICK c \in Component, i \in Fan3, j \in Fan2 :
          ~ trees[c].l1[i][j].changed \subseteq trees[c].l1[i][j].dirty
    BY <2>2 DEF AnyAdvanced, RollbackAdvances
  <2>4. PICK k \in trees[c].l1[i][j].changed : k \notin trees[c].l1[i][j].dirty
    BY <2>3
  <2> QED BY <1>1, <2>4 DEF WInv, TreeInv, Told
<1>2. WInv => [confirmedTick' # confirmedTick /\ WorldRollback => fresh # {}]_vars
  BY <1>1
<1> QED BY <1>2, WorldInvariance, PTL DEF AdvanceIsJustified

(* A changed slot is on the path of the rollback's walk. *)
LEMMA ChangedIsWalked ==
  ASSUME NEW t \in Tree, Linked(t), NEW i \in Fan3, NEW j \in Fan2,
         t.l1[i][j].changed # {}
  PROVE  RollbackReaches(t, i, j)
<1>1. /\ NodeLinked(t.root, t.own2, t.l2[i], t.own1[i], i)
      /\ LeafLinked(t.l2[i], t.own1[i], t.l1[i][j], j)
  BY DEF Linked
<1>2. j \in t.l2[i].changed /\ j \in t.own1[i]
  BY <1>1 DEF LeafLinked, SummaryOf, NoL1
<1>3. i \in t.root.changed /\ i \in t.own2
  BY <1>1, <1>2 DEF NodeLinked, SummaryOf, NoSummary
<1> QED BY <1>2, <1>3 DEF RollbackReaches, RollbackReaches2, Touched

(* A CONFIRMED write that still stands and that no prediction covers always
   advances the clock, whatever else was done to the same nodes. *)
THEOREM WritesAdvance == Spec => FreshWriteAdvances
<1>1. ASSUME WInv, WorldRollback, NEW s \in Standing(fresh), ~ Overpredicted(s)
      PROVE  confirmedTick' = confirmedTick + 1
  <2>1. s \in fresh /\ s \in Component \X Fan3 \X Fan2 \X Fan1
    BY <1>1 DEF Standing, WInv, TypeOK
  <2>2. PICK c \in Component, i \in Fan3, j \in Fan2, k \in Fan1 : s = <<c, i, j, k>>
    BY <2>1
  <2>3. k \in trees[c].l1[i][j].conf /\ k \notin trees[c].l1[i][j].dirty
    BY <1>1, <2>2 DEF Standing, Overpredicted
  <2>4. TreeInv(trees[c], c, mode, fresh)
    BY <1>1 DEF WInv
  <2>5. k \in trees[c].l1[i][j].changed
    BY <2>1, <2>2, <2>3, <2>4 DEF TreeInv, Marked
  <2>6. RollbackReaches(trees[c], i, j)
    BY <2>4, <2>5, ChangedIsWalked DEF TreeInv, WellFormed
  <2>7. AnyAdvanced
    BY <2>3, <2>5, <2>6 DEF AnyAdvanced, RollbackAdvances
  <2> QED BY <1>1, <2>7 DEF WorldRollback
<1>2. WInv => [(\E s \in Standing(fresh) : ~ Overpredicted(s)) /\ WorldRollback
                 => confirmedTick' = confirmedTick + 1]_vars
  BY <1>1
<1> QED BY <1>2, WorldInvariance, PTL DEF FreshWriteAdvances

(* While the world predicts, no call but the load of a snapshot moves any
   tree's confirmed store. *)
THEOREM Isolation == Spec => SpeculationIsolated
<1>1. ASSUME WInv, [Next]_vars, mode = "PREDICT"
      PROVE  \/ \A c \in Component : ConfirmedOf(trees'[c]) = ConfirmedOf(trees[c])
             \/ LoadAny
  <2>1. /\ trees \in [Component -> Tree]
        /\ \A c \in Component : /\ trees[c] \in Tree /\ Linked(trees[c])
                                /\ trees[c].mode = "PREDICT"
    BY <1>1 DEF WInv, TypeOK, TreeInv, WellFormed
  <2>2. ASSUME NEW c \in Component, NEW i \in Fan3, NEW j \in Fan2, NEW k \in Fan1,
               Write(c, i, j, k) \/ Remove(c, i, j, k), NEW d \in Component
        PROVE  ConfirmedOf(trees'[d]) = ConfirmedOf(trees[d])
    <3>1. CASE Write(c, i, j, k)
      <4>1. PICK v \in Value : trees' = [trees EXCEPT ![c] = GetMut(@, i, j, k, v)]
        BY <3>1 DEF Write
      <4>2. PutIn(GetMut(trees[c], i, j, k, v), trees[c], i, j, k, v)
        BY <2>1, GetMutPuts
      <4> QED BY <2>1, <4>1, <4>2 DEF PutIn
    <3>2. CASE Remove(c, i, j, k)
      <4>1. PutIn(RemoveSlot(trees[c], i, j, k), trees[c], i, j, k, Absent)
        BY <2>1, <3>2, RemovePuts DEF Remove
      <4> QED BY <2>1, <3>2, <4>1 DEF PutIn, Remove
    <3> QED BY <2>2, <3>1, <3>2
  <2>3. ASSUME EndTick, NEW d \in Component
        PROVE  ConfirmedOf(trees'[d]) = ConfirmedOf(trees[d])
    BY <2>1, <2>3, EndTickStutters DEF EndTick
  <2>4. ASSUME WorldRollback, NEW d \in Component
        PROVE  ConfirmedOf(trees'[d]) = ConfirmedOf(trees[d])
    BY <2>1, <2>4, RollbackDiscards DEF WorldRollback
  <2>5. ASSUME NEW m \in Mode, SetMode(m), NEW d \in Component
        PROVE  ConfirmedOf(trees'[d]) = ConfirmedOf(trees[d])
    <3>1. trees'[d].l1 = trees[d].l1
      BY <2>1, <2>5 DEF SetMode, Tree
    <3> QED BY <3>1 DEF ConfirmedOf
  <2>6. CASE UNCHANGED vars
    BY <2>6 DEF vars
  <2> QED BY <1>1, <2>2, <2>3, <2>4, <2>5, <2>6 DEF Next, Access, Tick
<1>2. WInv /\ [Next]_vars =>
        [mode = "PREDICT" =>
           \/ \A c \in Component : ConfirmedOf(trees'[c]) = ConfirmedOf(trees[c])
           \/ LoadAny]_vars
  BY <1>1
<1>3. Spec => [][Next]_vars
  BY PTL DEF Spec
<1> QED BY <1>2, <1>3, WorldInvariance, PTL DEF SpeculationIsolated

(* A loaded tree has no prediction, and a rollback of it is idle. *)
LEMMA LoadedIsClean ==
  ASSUME NEW t \in Tree, NEW store \in Store
  PROVE  /\ NoDirty(Load(t, FeedOf(store)))
         /\ Rollback(Load(t, FeedOf(store))) = Load(t, FeedOf(store))
<1> DEFINE u == Load(t, FeedOf(store))
<1>1. TreeLoaded(u, store)
  BY LoadParts
<1> HIDE DEF u
<1>2. u \in Tree
  BY LoadKeeps DEF u
<1>3. u.root.dirty = {} /\ u.root.changed = {}
  BY <1>1, LoadedFields DEF TreeLoaded
<1>4. \A i \in Fan3 : u.l2[i].dirty = {} /\ \A j \in Fan2 : u.l1[i][j].dirty = {}
  BY <1>1, LoadedFields DEF TreeLoaded, LeafLoaded
<1>5. NoDirty(u)
  BY <1>2, <1>3, <1>4 DEF NoDirty, Tree, Summary
<1>6. Rollback(u) = u
  BY <1>3 DEF Rollback, Touched
<1> QED BY <1>5, <1>6 DEF u

(* A peer that joins by a snapshot has the sender's confirmed world and not a
   trace of its own: no prediction, by the masks, the bytes or the clocks. *)
THEOREM JoinStartsOver == Spec => LoadStartsOver
<1>1. ASSUME WInv, NEW snap \in Sent, LoadWorld(snap)
      PROVE  /\ predictedTick' = snap.tick /\ confirmedTick' = snap.tick
             /\ \A c \in Component :
                  /\ ViewOf(trees'[c]) = snap.stores[c]
                  /\ ConfirmedOf(trees'[c]) = snap.stores[c]
                  /\ NoDirty(trees'[c]) /\ Rollback(trees'[c]) = trees'[c]
  <2>1. ASSUME NEW c \in Component
        PROVE  trees[c] \in Tree /\ snap.stores[c] \in Store
    BY <1>1, SentAssumption DEF WInv, TreeInv
  <2>2. \A c \in Component : trees'[c] = Load(trees[c], FeedOf(snap.stores[c]))
    BY <1>1 DEF LoadWorld
  <2>3. predictedTick' = snap.tick /\ confirmedTick' = snap.tick
    BY <1>1 DEF LoadWorld
  <2> QED BY <2>1, <2>2, <2>3, LoadRestores, LoadedIsClean
<1> DEFINE Over == \A snap \in Sent : LoadWorld(snap) =>
              /\ predictedTick' = snap.tick /\ confirmedTick' = snap.tick
              /\ \A c \in Component :
                   /\ ViewOf(trees'[c]) = snap.stores[c]
                   /\ ConfirmedOf(trees'[c]) = snap.stores[c]
                   /\ NoDirty(trees'[c]) /\ Rollback(trees'[c]) = trees'[c]
<1>2. WInv => [Over]_vars
  BY <1>1
<1> QED BY <1>2, WorldInvariance, PTL DEF LoadStartsOver
=============================================================================
