--------------------------- MODULE HibitIterator ---------------------------
(***************************************************************************)
(* Block iteration over the trees of a query (ecs_iterator_t): the masks   *)
(* that prune it, the writes and removals made through it, whose mask      *)
(* updates are deferred to the next block boundary, and the tree-level     *)
(* calls that other systems make between two iterations.                   *)
(*                                                                         *)
(* One call of ecs_iterator_next_block is several steps here: Flush, then  *)
(* LoadL1 and LoadL2 until a block matches or no L2 node is left.  Nothing *)
(* interleaves with them; the properties look at the rest points between.  *)
(***************************************************************************)
EXTENDS HibitNodes, Naturals, FiniteSetsExt

CONSTANTS Component,  \* the trees of the queries
          Tag,        \* those without bytes (data_size == 0)
          Query       \* each a set of clauses and a write_mask

ASSUME TagAssumption == Tag \subseteq Component
ASSUME PositionAssumption == Fan3 \subseteq Nat /\ Fan2 \subseteq Nat

(* ecs_compiled_clause_t. *)
Clause == [include : SUBSET Component, exclude : SUBSET Component,
           changed : SUBSET Component]

ASSUME QueryAssumption ==
  Query \subseteq [clauses : SUBSET Clause, write : SUBSET Component]

VARIABLES trees, mode,
          pc,              \* idle, scan, block (one is yielded), call, done
          query,           \* of the iteration under way
          mask3, mask2,    \* it->l3_mask and it->l2_mask: positions to visit
          at,              \* <<it->l3_idx, it->l2_idx>> of the loaded nodes
          hits,            \* the L1 mask returned to the caller
          seen, expected,  \* history: entities yielded, entities that match
          confirmed, view, \* history: what the two images should hold
          misread          \* history: slots whose changed bit a flush misreads

cursor == <<query, mask3, mask2, at, hits>>
store == <<confirmed, view>>
vars == <<trees, mode, pc, cursor, seen, expected, store, misread>>

NoQuery == [clauses |-> {}, write |-> {}]
Nowhere == <<>>

Init ==
  /\ trees = [c \in Component |-> NewTree]
  /\ mode = "CONFIRMED"
  /\ pc = "idle"
  /\ query = NoQuery /\ mask3 = {} /\ mask2 = {} /\ at = Nowhere /\ hits = {}
  /\ seen = {} /\ expected = {}
  /\ confirmed = [c \in Component |-> ConfirmedOf(NewTree)]
  /\ view = confirmed
  /\ misread = {}

-----------------------------------------------------------------------------
(* The masks of a query *)

IsEmpty(cl) == cl.include = {} /\ cl.exclude = {} /\ cl.changed = {}

(* The positions of Fan some clause lets through, given for every tree the
   positions an include keeps, an exclude drops, and those changed. *)
Pass(Fan, q, Any(_), All(_), Changed(_)) ==
  {x \in Fan : \E cl \in q.clauses :
     /\ ~ IsEmpty(cl)
     /\ \A c \in cl.include : x \in Any(c)
     /\ \A c \in cl.exclude : x \notin All(c)
     /\ cl.changed # {} => \E c \in cl.changed : x \in Changed(c)}

L3Mask(q) ==
  LET Any(c) == trees[c].root.predAny
      All(c) == trees[c].root.predAll
      Changed(c) == trees[c].root.changed
  IN Pass(Fan3, q, Any, All, Changed)

(* Mutant: a partial block is dropped by an exclude already at L2. *)
L2Mask_ExcludesAny(q, i) ==
  LET Any(c) == trees[c].l2[i].predAny
      Changed(c) == trees[c].l2[i].changed
  IN Pass(Fan2, q, Any, Any, Changed)

L2Mask(q, i) ==
  LET Any(c) == trees[c].l2[i].predAny
      All(c) == trees[c].l2[i].predAll
      Changed(c) == trees[c].l2[i].changed
  IN Pass(Fan2, q, Any, All, Changed)

L1Mask(q, i, j) ==
  LET Any(c) == trees[c].l1[i][j].pred
      Changed(c) == trees[c].l1[i][j].changed
  IN Pass(Fan1, q, Any, Any, Changed)

(* The entities that match, with no summary in sight. *)
Matches(q) == {s \in Slot : s[3] \in L1Mask(q, s[1], s[2])}

-----------------------------------------------------------------------------
(* One iteration *)

(* ecs_iterator_init.  Its trees share their mode; l1 and l2 are scratch. *)
Begin(q) ==
  /\ pc = "idle"
  /\ pc' = "scan"
  /\ query' = q
  /\ mask3' = L3Mask(q) /\ mask2' = {} /\ at' = Nowhere /\ hits' = {}
  /\ seen' = {} /\ expected' = Matches(q)
  /\ UNCHANGED <<trees, mode, store, misread>>

(* The block just left is flushed, and summed up in its L2 node. *)
Flush ==
  LET i == at[1]  j == at[2]
      Flushed(t) ==
        LET n == FlushedL1(t.l1[i][j], mode)
        IN [t EXCEPT !.l1[i][j] = n, !.l2[i] = Propagated(@, j, n, mode)]
  IN /\ pc = "call"
     /\ pc' = "scan" /\ hits' = {}
     /\ trees' = [c \in Component |->
                    IF c \in query.write THEN Flushed(trees[c]) ELSE trees[c]]
     /\ UNCHANGED <<mode, query, mask3, mask2, at, seen, expected, store, misread>>

(* The changed slots of a block about to be yielded that nobody wrote in the
   present mode: removed since the tick began, or written before a change of
   mode.  The flush of the block will take them for written all the same. *)
Leftover(n) ==
  n.changed \ (IF mode = "PREDICT" THEN n.pred \cap n.dirty ELSE n.conf)

LeftAt(i, j) ==
  UNION {{<<c, <<i, j, k>> >> : k \in Leftover(trees[c].l1[i][j])} : c \in query.write}

(* Mutant: the position visited stays in the mask. *)
LoadL1_Kept ==
  LET i == at[1]  j == Min(mask2)
      found == L1Mask(query, i, j)
      SummedUp(t) == [t EXCEPT !.l2[i] = Propagated(@, j, t.l1[i][j], mode)]
  IN /\ pc = "scan" /\ mask2 # {}
     /\ at' = <<i, j>> /\ hits' = found
     /\ pc' = IF found # {} THEN "block" ELSE "scan"
     /\ trees' = [c \in Component |->
                    IF found = {} /\ c \in query.write THEN SummedUp(trees[c])
                                                       ELSE trees[c]]
     /\ seen' = seen \cup {<<i, j, k>> : k \in found}
     /\ misread' = IF found # {} THEN misread \cup LeftAt(i, j) ELSE misread
     /\ UNCHANGED <<mode, query, mask3, mask2, expected, store>>

(* The next L1 block of the L2 nodes at hand; a block without a match is
   summed up, not flushed. *)
LoadL1 ==
  LET i == at[1]  j == Min(mask2)
      found == L1Mask(query, i, j)
      SummedUp(t) == [t EXCEPT !.l2[i] = Propagated(@, j, t.l1[i][j], mode)]
  IN /\ pc = "scan" /\ mask2 # {}
     /\ mask2' = mask2 \ {j} /\ at' = <<i, j>> /\ hits' = found
     /\ pc' = IF found # {} THEN "block" ELSE "scan"
     /\ trees' = [c \in Component |->
                    IF found = {} /\ c \in query.write THEN SummedUp(trees[c])
                                                       ELSE trees[c]]
     /\ seen' = seen \cup {<<i, j, k>> : k \in found}
     /\ misread' = IF found # {} THEN misread \cup LeftAt(i, j) ELSE misread
     /\ UNCHANGED <<mode, query, mask3, expected, store>>

(* The L2 nodes at hand are summed up in their roots (the scratch nodes of
   the first call hold nothing); then the next ones are loaded, if any. *)
LoadL2 ==
  LET SummedUp(t) == [t EXCEPT !.root = Propagated(@, at[1], t.l2[at[1]], mode)]
      next == Min(mask3)
  IN /\ pc = "scan" /\ mask2 = {}
     /\ trees' = [c \in Component |->
                    IF at # Nowhere /\ c \in query.write THEN SummedUp(trees[c])
                                                         ELSE trees[c]]
     /\ IF mask3 = {}
          THEN pc' = "done" /\ UNCHANGED <<mask3, mask2, at>>
          ELSE /\ mask3' = mask3 \ {next} /\ mask2' = L2Mask(query, next)
               /\ at' = <<next>> /\ UNCHANGED pc
     /\ UNCHANGED <<mode, query, hits, seen, expected, store, misread>>

(* ecs_iterator_get_mut and the store through its pointer.  The caller names
   a tree of write_mask and a slot that is present. *)
IterWrite(c, k) ==
  LET i == at[1]  j == at[2]
      Written(n, v) ==
        IF mode = "PREDICT" THEN [n EXCEPT !.changed = @ \cup {k}, !.pval[k] = v]
                            ELSE [n EXCEPT !.changed = @ \cup {k}, !.cval[k] = v]
  IN /\ pc = "block" /\ k \in hits /\ c \in query.write
     /\ c \notin Tag /\ Present(trees[c], i, j, k)
     /\ \E v \in Value :
          /\ trees' = [trees EXCEPT ![c].l1[i][j] = Written(@, v)]
          /\ view' = [view EXCEPT ![c][<<i, j, k>>] = v]
          /\ confirmed' = IF mode = "PREDICT" THEN confirmed
                          ELSE [confirmed EXCEPT ![c][<<i, j, k>>] = v]
     /\ UNCHANGED <<mode, pc, cursor, seen, expected, misread>>

(* Mutant: the L2 all-bits keep the removed slot. *)
IterRemoved_StaleAll(t, i, j, k) ==
  LET n1 == [UnmarkL1(t.l1[i][j], mode, k) EXCEPT !.changed = @ \ {k}]
      n2 == UnmarkUp(t.l2[i], mode, j, n1.pred = {})
      n3 == UnmarkUp(t.root, mode, i, n2.predAny = {})
  IN [t EXCEPT !.l1[i][j] = n1, !.root = n3,
               !.l2[i] = [n2 EXCEPT !.predAll = @ \cup (t.l2[i].predAll \cap {j})]]

(* What ecs_iterator_remove does: like ecs_tree_remove, but `changed' loses
   the slot at L1, and nothing is released. *)
IterRemoved(t, i, j, k) ==
  LET n1 == [UnmarkL1(t.l1[i][j], mode, k) EXCEPT !.changed = @ \ {k}]
      n2 == UnmarkUp(t.l2[i], mode, j, n1.pred = {})
      n3 == UnmarkUp(t.root, mode, i, n2.predAny = {})
  IN [t EXCEPT !.l1[i][j] = n1, !.l2[i] = n2, !.root = n3]

(* The caller names a slot of the block, present or removed already, and a tree
   that has a node there. *)
IterRemove(c, k) ==
  LET i == at[1]  j == at[2]
  IN /\ pc = "block" /\ k \in hits
     /\ i \in trees[c].own2 /\ j \in trees[c].own1[i]
     /\ trees' = [trees EXCEPT ![c] = IterRemoved(@, i, j, k)]
     /\ view' = [view EXCEPT ![c][<<i, j, k>>] = Absent]
     /\ confirmed' = IF mode = "PREDICT" THEN confirmed
                     ELSE [confirmed EXCEPT ![c][<<i, j, k>>] = Absent]
     /\ UNCHANGED <<mode, pc, cursor, seen, expected, misread>>

(* The caller has worked through the block and asks for the next one. *)
NextBlock ==
  /\ pc = "block"
  /\ pc' = "call"
  /\ UNCHANGED <<trees, mode, cursor, seen, expected, store, misread>>

(* The loop of the caller is over: the iterator is dropped. *)
End ==
  /\ pc = "done"
  /\ pc' = "idle"
  /\ query' = NoQuery /\ mask3' = {} /\ mask2' = {} /\ at' = Nowhere /\ hits' = {}
  /\ seen' = {} /\ expected' = {}
  /\ UNCHANGED <<trees, mode, store, misread>>

-----------------------------------------------------------------------------
(* Between two iterations: the calls of the tree API *)

Write(c, i, j, k) ==
  /\ pc = "idle"
  /\ \E v \in IF c \in Tag THEN {Zero} ELSE Value :
       /\ trees' = [trees EXCEPT ![c] = GetMut(@, i, j, k, v)]
       /\ view' = [view EXCEPT ![c][<<i, j, k>>] = v]
       /\ confirmed' = IF mode = "PREDICT" THEN confirmed
                       ELSE [confirmed EXCEPT ![c][<<i, j, k>>] = v]
  /\ UNCHANGED <<mode, pc, cursor, seen, expected, misread>>

Remove(c, i, j, k) ==
  /\ pc = "idle" /\ Present(trees[c], i, j, k)
  /\ trees' = [trees EXCEPT ![c] = RemoveSlot(@, i, j, k)]
  /\ view' = [view EXCEPT ![c][<<i, j, k>>] = Absent]
  /\ confirmed' = IF mode = "PREDICT" THEN confirmed
                  ELSE [confirmed EXCEPT ![c][<<i, j, k>>] = Absent]
  /\ UNCHANGED <<mode, pc, cursor, seen, expected, misread>>

EndTick ==
  /\ pc = "idle"
  /\ trees' = [c \in Component |-> ClearChanged(trees[c])]
  /\ UNCHANGED <<mode, pc, cursor, seen, expected, store, misread>>

RollbackAll ==
  /\ pc = "idle"
  /\ trees' = [c \in Component |-> Rollback(trees[c])]
  /\ view' = confirmed
  /\ UNCHANGED <<mode, pc, cursor, seen, expected, confirmed, misread>>

SetMode(m) ==
  /\ pc = "idle"
  /\ \A c \in Component : NoDirty(trees[c])
  /\ trees' = [c \in Component |-> [trees[c] EXCEPT !.mode = m]]
  /\ mode' = m
  /\ UNCHANGED <<pc, cursor, seen, expected, store, misread>>

TreeCall ==
  \/ \E c \in Component, i \in Fan3, j \in Fan2, k \in Fan1 :
       Write(c, i, j, k) \/ Remove(c, i, j, k)
  \/ EndTick \/ RollbackAll
  \/ \E m \in Mode : SetMode(m)

Step ==
  \/ Flush \/ LoadL1 \/ LoadL2 \/ NextBlock \/ End
  \/ \E c \in Component, k \in Fan1 : IterWrite(c, k) \/ IterRemove(c, k)

Next == TreeCall \/ Step \/ \E q \in Query : Begin(q)

(* ecs_iterator_next_block runs to its return, and the caller, whatever it does
   with a block, asks for the next one until there is none. *)
Spec == /\ Init /\ [][Next]_vars
        /\ WF_vars(Flush \/ LoadL1 \/ LoadL2 \/ NextBlock \/ End)

(* The trees keep their shape under the deferred updates, and the iterator
   stands where its masks led it. *)
TypeOK ==
  /\ trees \in [Component -> Tree]
  /\ \A c \in Component : trees[c].mode = mode
  /\ pc \in {"idle", "scan", "block", "call", "done"}
  /\ mask3 \subseteq Fan3 /\ mask2 \subseteq Fan2 /\ hits \subseteq Fan1
  /\ at \in {Nowhere} \cup {<<i>> : i \in Fan3} \cup Fan3 \X Fan2
  /\ seen \subseteq Slot /\ expected \subseteq Slot
  /\ misread \subseteq Component \X Slot

-----------------------------------------------------------------------------
(* Nothing in the code keeps a caller from a writing iteration in a tick that
   has removed a slot of its trees by ecs_tree_remove, or has changed their
   mode, and then a flush goes wrong at the slots in misread.  The properties
   say what stays true: everything until then, and all but those slots as the
   iteration that met them is over. *)

(* Pruning by the summary masks of every tree of the query, at two levels,
   loses no entity that matches and lets none through that does not, although
   the loop body writes and removes while the masks are being walked. *)
YieldsMatches ==
  misread = {} =>
    /\ seen \subseteq expected
    /\ pc = "done" => seen = expected

MisreadIn(c, i, j) == \E k \in Fan1 : <<c, <<i, j, k>> >> \in misread

(* Once the iteration is over, what it deferred has been summed up: the
   any-bits of every level are exact for both images, an all-bit is never
   left on a block that lost a slot, and no dirty or changed bit hides below a
   summary without it.  Blocks with a misread slot are left out. *)
SummariesExact ==
  pc = "idle" => \A c \in Component, i \in Fan3 :
    LET t == trees[c]  s == t.l2[i]
    IN /\ SummaryOf(t.root, i, s, s.predAny = {}, s.predAll = Fan2,
                                  s.confAny = {}, s.confAll = Fan2)
       /\ \A j \in Fan2 :
            LET n == t.l1[i][j]
            IN MisreadIn(c, i, j) \/ SummaryOf(s, j, n, n.pred = {}, n.pred = Fan1,
                                                       n.conf = {}, n.conf = Fan1)

(* Once the iteration is over both images hold what the tree calls and the
   iterator calls stored, at every slot but the misread ones: a write through
   ecs_iterator_get_mut, whose dirty bit is set long after the bytes, is read
   back, is not confirmed by the flush in PREDICT mode, and a removal made
   through the iterator is not undone by it. *)
StoresAgree ==
  pc = "idle" => \A c \in Component, s \in Slot :
    \/ <<c, s>> \in misread
    \/ /\ ViewOf(trees[c])[s] = view[c][s]
       /\ ConfirmedOf(trees[c])[s] = confirmed[c][s]

(* A rollback finds every prediction the iterators made, across the end of
   the tick that made them, and its assertion holds, while no slot has been
   misread. *)
RollbackSettles ==
  [][RollbackAll /\ misread = {} =>
       \A c \in Component : MasksValid(trees'[c])]_vars

(* An iteration comes to its end, although the body of its loop marks slots of
   the nodes that are still to be walked: what is to be visited was read when
   the node above was loaded, and each visit takes one position away. *)
IterationEnds == pc = "scan" ~> pc = "idle"
=============================================================================
