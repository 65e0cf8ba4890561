----------------------------- MODULE HibitBuffer -----------------------------
(***************************************************************************)
(* One tree of BUFFER components: the bytes of a slot are a header pointer *)
(* to a heap block with the list (ecs_buffer_t), so that each of the two   *)
(* byte images of a slot owns a block or is NULL.  The calls on it are     *)
(* ecs_tree_buffer_push, pop and clear, the same through an iterator,      *)
(* ecs_tree_remove, end_tick, rollback, set_mode and destroy.              *)
(*                                                                         *)
(* Value holds the pointers, Zero is NULL.  Capacity is left out, but for  *)
(* what it decides: whether a push moves the block.                        *)
(***************************************************************************)
EXTENDS HibitNodes, SequencesExt

CONSTANTS Elem,    \* what is pushed
          Free,    \* the content of a block that is not allocated
          MaxSize  \* bound: elements in a list

ASSUME ElemAssumption == Free \notin Seq(Elem) /\ Absent \notin Seq(Elem)
ASSUME SizeAssumption == MaxSize \in Nat

VARIABLES tree, heap,
          misread  \* history: slots whose changed bit a flush misreads

vars == <<tree, heap, misread>>

Null == Zero
Block == Value \ {Null}

Init == tree = NewTree /\ heap = [b \in Block |-> Free] /\ misread = {}

Unused == {b \in Block : heap[b] = Free}

(* An empty buffer needs no block: size and clear read NULL as no elements. *)
ListOf(p) == IF p = Null THEN <<>> ELSE heap[p]

(* ecs_buffer_destroy of a pointer that is not used again. *)
Freed(blocks) == [b \in Block |-> IF b \in blocks THEN Free ELSE heap[b]]

-----------------------------------------------------------------------------
(* Element-level writes *)

(* The image that the mode writes. *)
ImageOf(n, m, k) == IF m = "PREDICT" THEN n.pval[k] ELSE n.cval[k]

(* The first prediction on a slot since the last rollback. *)
NeedsCow(n, m, k) == m = "PREDICT" /\ k \notin n.dirty

(* buffer_live: the pointer a write finds, before a copy is made of it. *)
LivePointer(n, m, k) == IF NeedsCow(n, m, k) THEN Null ELSE ImageOf(n, m, k)

(* Mutant: a prediction starts from an empty list. *)
LiveList_NoSeed(n, m, k) == ListOf(LivePointer(n, m, k))

(* The list a push or a pop finds: the confirmed one, cloned, if the slot is
   confirmed and this is the first prediction. *)
LiveList(n, m, k) ==
  IF NeedsCow(n, m, k) /\ k \in n.conf THEN ListOf(n.cval[k])
                                       ELSE ListOf(LivePointer(n, m, k))

(* ecs_iterator_buffer_push, pop and clear mark the slot in its L1 node; the
   next call of ecs_iterator_next_block flushes it and sums it up. *)
IterMut(t, i, j, k, p) ==
  LET m == t.mode
      marked == [t.l1[i][j] EXCEPT !.changed = @ \cup {k},
                                   !.dirty = @ \cup IfPredict(m, {k})]
      n == FlushedL1(marked, m)
      s == Propagated(t.l2[i], j, n, m)
  IN [t EXCEPT !.root = Propagated(@, i, s, m), !.l2[i] = s,
               !.l1[i][j] = IF m = "PREDICT" THEN [n EXCEPT !.pval[k] = p]
                                             ELSE [n EXCEPT !.cval[k] = p]]

(* The changed slots of a block that nobody wrote in the present mode: removed
   since the tick began, or written before a change of mode.  The flush of the
   block takes them for written all the same. *)
Leftover(n, m) ==
  n.changed \ (IF m = "PREDICT" THEN n.pred \cap n.dirty ELSE n.conf)

(* The slot now holds pointer p: by a call on the tree, or by one on an iterator,
   which yields slots that are present. *)
TouchTree(i, j, k, p) == tree' = GetMut(tree, i, j, k, p) /\ UNCHANGED misread

TouchBlock(i, j, k, p) ==
  /\ Present(tree, i, j, k)
  /\ tree' = IterMut(tree, i, j, k, p)
  /\ misread' = misread \cup {<<i, j, x>> : x \in Leftover(tree.l1[i][j], tree.mode)}

Touch(i, j, k, p) == TouchTree(i, j, k, p) \/ TouchBlock(i, j, k, p)

(* The block written is the live one, which realloc may move, or a new one. *)
Push(i, j, k) ==
  LET n == tree.l1[i][j]
      old == LivePointer(n, tree.mode, k)
      list == LiveList(n, tree.mode, k)
  IN /\ Len(list) < MaxSize
     /\ \E p \in Unused \cup ({old} \ {Null}), e \in Elem :
          /\ Touch(i, j, k, p)
          /\ heap' = [Freed({old}) EXCEPT ![p] = Append(list, e)]

(* The caller owes a list that is not empty. *)
Pop(i, j, k) ==
  LET n == tree.l1[i][j]
      old == LivePointer(n, tree.mode, k)
      list == LiveList(n, tree.mode, k)
  IN /\ list # <<>>
     /\ \E p \in IF old = Null THEN Unused ELSE {old} :
          /\ Touch(i, j, k, p)
          /\ heap' = [heap EXCEPT ![p] = Front(list)]

(* The first prediction is NULL; a block there already is kept, empty. *)
Clear(i, j, k) ==
  LET old == LivePointer(tree.l1[i][j], tree.mode, k)
  IN /\ Touch(i, j, k, old)
     /\ heap' = [b \in Block |-> IF b = old THEN <<>> ELSE heap[b]]

-----------------------------------------------------------------------------
(* Removal, rollback, teardown: who frees which block *)

(* Mutant: the pointer stays behind its freed block. *)
Emptied_Dangling(n, m, k) == n

(* The image that the mode reads is NULL; a predicted removal leaves the
   confirmed block alone, and a slot not predicted has no block to lose. *)
Emptied(n, m, k) ==
  IF m = "CONFIRMED" THEN [n EXCEPT !.cval[k] = Null]
  ELSE IF k \in n.pred \cap n.dirty THEN [n EXCEPT !.pval[k] = Null]
  ELSE n

RemoveBuffer(i, j, k) ==
  LET n == tree.l1[i][j]
      old == IF tree.mode = "PREDICT" /\ k \notin n.dirty THEN Null
                                         ELSE ImageOf(n, tree.mode, k)
  IN /\ Present(tree, i, j, k)
     /\ heap' = Freed({old})
     /\ tree' = RemoveSlot([tree EXCEPT !.l1[i][j] = Emptied(@, tree.mode, k)],
                           i, j, k)
     /\ UNCHANGED misread

EndTick == tree' = ClearChanged(tree) /\ UNCHANGED <<heap, misread>>

(* The slots whose predicted block a rollback frees. *)
Victims(n) == n.pred \cap n.dirty

Dropped(n) == [n EXCEPT !.pval = [k \in Fan1 |-> IF k \in Victims(n) THEN Null
                                                                     ELSE n.pval[k]]]

RollbackTree ==
  LET Visited == {v \in Fan3 \X Fan2 : RollbackReaches(tree, v[1], v[2])}
      At(v) == tree.l1[v[1]][v[2]]
  IN /\ heap' = Freed(UNION {{At(v).pval[k] : k \in Victims(At(v))} : v \in Visited})
     /\ tree' = Rollback([tree EXCEPT !.l1 = [i \in Fan3 |-> [j \in Fan2 |->
                  IF <<i, j>> \in Visited THEN Dropped(tree.l1[i][j])
                                          ELSE tree.l1[i][j]]]])
     /\ UNCHANGED misread

SetMode(m) ==
  /\ NoDirty(tree)
  /\ tree' = [tree EXCEPT !.mode = m]
  /\ UNCHANGED <<heap, misread>>

(* ecs_tree_destroy, along the confirmed bits; then the next tree starts. *)
Destroy ==
  LET Visited == {v \in Fan3 \X Fan2 :
                    v[1] \in tree.root.confAny /\ v[2] \in tree.l2[v[1]].confAny}
      At(v) == tree.l1[v[1]][v[2]]
  IN /\ NoDirty(tree)
     /\ heap' = Freed(UNION {{At(v).cval[k] : k \in At(v).conf} : v \in Visited})
     /\ tree' = NewTree
     /\ UNCHANGED misread

Next ==
  \/ \E i \in Fan3, j \in Fan2, k \in Fan1 :
       Push(i, j, k) \/ Pop(i, j, k) \/ Clear(i, j, k) \/ RemoveBuffer(i, j, k)
  \/ EndTick \/ RollbackTree \/ Destroy
  \/ \E m \in Mode : SetMode(m)

Spec == Init /\ [][Next]_vars

(* A slot holds a pointer or NULL, and a block a list or nothing. *)
TypeOK ==
  /\ tree \in Tree /\ heap \in [Block -> Seq(Elem) \cup {Free}]
  /\ misread \subseteq Slot

-----------------------------------------------------------------------------
(* Ownership *)

Image == Slot \X Mode

(* Does the slot hold data in that image? *)
Holds(t, im) ==
  LET n == t.l1[im[1][1]][im[1][2]]
  IN im[1][3] \in IF im[2] = "PREDICT" THEN n.pred \cap n.dirty ELSE n.conf

Pointer(t, im) == ImageOf(t.l1[im[1][1]][im[1][2]], im[2], im[1][3])

(* The two images of a slot never share a block, nothing points to a freed
   one, none is lost, and bytes that hold no data are NULL: a slot that comes
   back, in a node kept, in a node acquired anew or after a rollback, finds no
   pointer of its past.  Each call that ends the life of a slot's data frees
   its block exactly once, whichever masks it goes by, and even where a flush
   has brought a removed slot back. *)
OwnedOnce ==
  /\ \A im \in Image : ~ Holds(tree, im) => Pointer(tree, im) = Null
  /\ \A im \in Image : Pointer(tree, im) # Null => heap[Pointer(tree, im)] # Free
  /\ \A im, other \in Image :
       Pointer(tree, im) = Pointer(tree, other) /\ Pointer(tree, im) # Null
         => im = other
  /\ \A b \in Block : heap[b] # Free => \E im \in Image : Pointer(tree, im) = b

-----------------------------------------------------------------------------
(* The lists *)

ListsOf(pointers) ==
  [s \in Slot |-> IF pointers[s] = Absent THEN Absent ELSE ListOf(pointers[s])]

Lists == INSTANCE BufferStore WITH
           vmMode <- tree.mode,
           confirmed <- ListsOf(ConfirmedOf(tree)), view <- ListsOf(ViewOf(tree))

(* The clone made by the first prediction hides it from the confirmed list,
   and later ones work on what the frame sees: after a clear, a removal or a
   rollback a push starts from the list it should start from.  So it is until
   a flush misreads a changed slot, and shows a list that nobody wrote. *)
ImplementsLists ==
  Lists!ListInit /\ [][misread' = {} => Lists!ListNext]_(Lists!listVars)
=============================================================================
