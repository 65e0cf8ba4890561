----------------------------- MODULE Broadphase -----------------------------
(***************************************************************************)
(* The broadphase (broadphase_t): items are inserted, a tree of Fan-wide   *)
(* nodes is packed over them from below, and queries descend it with a     *)
(* stack of their own (broadphase_iter_t).                                 *)
(*                                                                         *)
(* One iteration of a loop of the code is one step: a level packed, a node *)
(* taken from the stack.  A box is an interval: the code treats three axes *)
(* alike, and a lane hits if it hits on each.                              *)
(***************************************************************************)
EXTENDS Integers, SequencesExt, FiniteSetsExt

CONSTANTS Fan,       \* lanes of a node (8)
          FirstCap,  \* item_cap of broadphase_init
          Box,       \* the boxes of items
          Probe,     \* and those of queries
          Code,      \* the Morton code of a box's centroid
          MaxItems   \* bound: items inserted between two clears

ASSUME FanAssumption == Fan \in Nat /\ Fan > 1
ASSUME CapAssumption == FirstCap \in Nat /\ FirstCap > Fan /\ FirstCap % Fan = 0
ASSUME BoxAssumption == /\ Box \cup Probe \subseteq [min : Int, max : Int]
                        /\ \A b \in Box \cup Probe : b.min <= b.max
ASSUME CodeAssumption == Code \in [Box -> Nat]

VARIABLES items,     \* the boxes inserted, in order
          itemCap,
          nodes,     \* each a sequence of the lanes it holds
          level,     \* <<lo, hi>>: the nodes packed last, after lo, up to hi
          height,    \* history: levels packed
          hasTree,
          pc,        \* idle, pack, query, drained
          stack,              \* of the query: nodes to be visited,
          at, mask,           \*   it->node, and the lanes of its hits not returned yet
          probe,              \* its box
          yielded, expected,  \* history: items returned, items to be returned
          again               \* history: was one returned twice?

tree == <<nodes, level, height, hasTree>>
cursor == <<stack, at, mask, probe, yielded, expected, again>>
vars == <<items, itemCap, tree, pc, cursor>>

NoTree == nodes' = <<>> /\ level' = <<0, 0>> /\ height' = 0 /\ hasTree' = FALSE

Init ==
  /\ items = <<>> /\ itemCap = FirstCap
  /\ nodes = <<>> /\ level = <<0, 0>> /\ height = 0 /\ hasTree = FALSE
  /\ pc = "idle"
  /\ stack = <<>> /\ at = 0 /\ mask = {} /\ probe \in Probe
  /\ yielded = {} /\ expected = {} /\ again = FALSE

-----------------------------------------------------------------------------
(* The items *)

(* Mutant: the arrays grow by what is missing. *)
NodeCap_Exact(cap) == cap \div Fan + 1

(* The node arena is sized off the items. *)
NodeCap(cap) == cap \div (Fan - 1) + Fan

Insert(b) ==
  /\ pc = "idle" /\ Len(items) < MaxItems
  /\ items' = Append(items, b)
  /\ itemCap' = IF Len(items) >= itemCap THEN 2 * itemCap ELSE itemCap
  /\ hasTree' = FALSE
  /\ UNCHANGED <<nodes, level, height, pc, cursor>>

Clear ==
  /\ pc = "idle"
  /\ items' = <<>> /\ NoTree
  /\ UNCHANGED <<itemCap, pc, cursor>>

-----------------------------------------------------------------------------
(* The tree *)

(* The members of S in an order: each has as many before it as its place
   says. *)
InOrder(S, Before(_, _)) ==
  LET ahead == [x \in S |-> Cardinality({y \in S : Before(y, x)})]
  IN [k \in 1..Cardinality(S) |-> CHOOSE x \in S : ahead[x] = k - 1]

(* The stable order by code. *)
Sooner(x, y) == \/ Code[items[x]] < Code[items[y]]
                \/ Code[items[x]] = Code[items[y]] /\ x < y

(* bp_radix_sort_perm *)
Sorted == InOrder(DOMAIN items, Sooner)

(* Fan lanes to a node, the last node may have fewer. *)
Packed(lanes) ==
  [x \in 1..(Len(lanes) + Fan - 1) \div Fan |->
     [k \in 1..Min({Fan, Len(lanes) - (x - 1) * Fan}) |->
        lanes[(x - 1) * Fan + k]]]

(* Mutant: a parent's lane covers the first lane of the child only. *)
Around_First(node) == [min |-> node[1].box.min, max |-> node[1].box.max]

Around(node) == [min |-> Min({node[x].box.min : x \in DOMAIN node}),
                 max |-> Max({node[x].box.max : x \in DOMAIN node})]

(* broadphase_build, as far as the leaves. *)
Build ==
  LET order == Sorted
      Leaf(id) == [box |-> items[id], object |-> TRUE, id |-> id]
      leaves == Packed([x \in DOMAIN order |-> Leaf(order[x])])
  IN /\ pc = "idle"
     /\ IF items = <<>> THEN NoTree /\ UNCHANGED pc
        ELSE /\ nodes' = leaves /\ level' = <<0, Len(leaves)>>
             /\ height' = 1 /\ hasTree' = FALSE /\ pc' = "pack"
     /\ UNCHANGED <<items, itemCap, cursor>>

(* Its loop: levels are packed until there is one root. *)
Pack ==
  LET lo == level[1]  hi == level[2]
      parents == Packed([x \in 1..hi - lo |->
                   [box |-> Around(nodes[lo + x]), object |-> FALSE, id |-> lo + x]])
  IN /\ pc = "pack"
     /\ IF hi - lo > 1
        THEN /\ nodes' = nodes \o parents
             /\ level' = <<hi, hi + Len(parents)>> /\ height' = height + 1
             /\ UNCHANGED <<hasTree, pc>>
        ELSE hasTree' = TRUE /\ pc' = "idle" /\ UNCHANGED <<nodes, level, height>>
     /\ UNCHANGED <<items, itemCap, cursor>>

-----------------------------------------------------------------------------
(* A query *)

Overlap(a, b) == a.min <= b.max /\ a.max >= b.min

(* broadphase_query_begin; the root is the only node of the last level. *)
Begin(b) ==
  /\ pc = "idle"
  /\ pc' = "query" /\ probe' = b
  /\ stack' = IF hasTree THEN <<level[1] + 1>> ELSE <<>>
  /\ at' = 0 /\ mask' = {} /\ yielded' = {} /\ again' = FALSE
  /\ expected' = IF hasTree THEN {x \in DOMAIN items : Overlap(items[x], b)} ELSE {}
  /\ UNCHANGED <<items, itemCap, tree>>

Yield(id) == yielded' = yielded \cup {id} /\ again' = (again \/ id \in yielded)

(* Mutant: the hit that is returned stays in the mask. *)
NextHit_Kept ==
  /\ pc = "query" /\ mask # {}
  /\ Yield(nodes[at][Min(mask)].id)
  /\ UNCHANGED <<items, itemCap, tree, pc, stack, at, mask, probe, expected>>

(* broadphase_query_next, while hits of a leaf are left in the mask. *)
NextHit ==
  /\ pc = "query" /\ mask # {}
  /\ Yield(nodes[at][Min(mask)].id)
  /\ mask' = mask \ {Min(mask)}
  /\ UNCHANGED <<items, itemCap, tree, pc, stack, at, probe, expected>>

(* Mutant: the node stays on the stack under its children. *)
Pushed_Kept(below, ids) == below \o <<Last(stack)>> \o ids

Pushed(below, ids) == below \o ids

(* bp_overlap_mask *)
Hits(node) == {x \in DOMAIN node : Overlap(node[x].box, probe)}

(* One round of `br': a node is taken from the stack, its children that hit
   are pushed lane by lane, its objects that hit are left in the mask but for
   the first. *)
Descend ==
  LET node == nodes[Last(stack)]
      objects == {x \in Hits(node) : node[x].object}
      children == InOrder(Hits(node) \ objects, <)
  IN /\ pc = "query" /\ mask = {} /\ stack # <<>>
     /\ stack' = Pushed(Front(stack),
                        [k \in DOMAIN children |-> node[children[k]].id])
     /\ IF objects = {} THEN UNCHANGED <<at, mask, yielded, again>>
        ELSE /\ Yield(node[Min(objects)].id)
             /\ at' = Last(stack) /\ mask' = objects \ {Min(objects)}
     /\ UNCHANGED <<items, itemCap, tree, pc, probe, expected>>

(* The call that returns NULL, and the caller's loop that ends with it. *)
Drain ==
  /\ pc = "query" /\ mask = {} /\ stack = <<>>
  /\ pc' = "drained" /\ at' = 0
  /\ UNCHANGED <<items, itemCap, tree, stack, mask, probe, yielded, expected, again>>

End ==
  /\ pc = "drained"
  /\ pc' = "idle" /\ yielded' = {} /\ expected' = {} /\ again' = FALSE
  /\ UNCHANGED <<items, itemCap, tree, stack, at, mask, probe>>

Next ==
  \/ \E b \in Box : Insert(b)
  \/ \E b \in Probe : Begin(b)
  \/ Clear \/ Build \/ Pack
  \/ NextHit \/ Descend \/ Drain \/ End

(* A caller that has begun a query asks for hits until there are no more, and
   a loop of the code goes on while its condition holds. *)
Spec == Init /\ [][Next]_vars /\ WF_vars(Pack \/ NextHit \/ Descend \/ Drain)

-----------------------------------------------------------------------------
(* A query returns each item whose box overlaps its own once and no other,
   whatever the sort put together: the boxes of parents cover those of all
   items below, and lanes of children and of objects are told apart.  A tree
   that is out of date returns nothing. *)
YieldsOverlaps ==
  /\ yielded \subseteq expected /\ ~ again
  /\ pc = "drained" => yielded = expected

(* The assertion of bp_pack_level: the arena, sized off the capacity for
   items, holds the nodes of every level, whatever the last level left over. *)
NodesFit == Len(nodes) <= NodeCap(itemCap)

(* What the fixed stack of a query has to hold.  The height of the tree is not
   enough: at each level but the last, all siblings wait. *)
StackBounded ==
  pc = "query" =>
    Len(stack) <= IF hasTree THEN 1 + (Fan - 1) * (height - 1) ELSE 0

(* BROADPHASE_STACK_MAX. *)
StackMax == 32

(* The walk ends: no node comes back to the stack, no hit to the mask. *)
QueryEnds == pc = "query" ~> pc = "drained"
=============================================================================
