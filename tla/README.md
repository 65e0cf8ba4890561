# TLA+ models and proofs for hibit_ecs

hibit_ecs is a C library for rollback netcode: component storage in hierarchical
bitmask trees with a confirmed and a predicted image of every component, a block
iterator that prunes by the masks, a world with two clocks, an input ring with a
packet format, and a deterministic broadphase and arithmetic to run a simulation on.
It is single-threaded: nothing interleaves inside a call. What makes it hard is the
*sequence* of calls. Masks are summed up in three levels, some updates are deferred,
two images share one set of nodes, and a node is freed by whichever of several calls
happens to empty it; a bit that is wrong after one call shows many calls later, as a
prediction that rollback does not find, a clock that stands still, or a node that is
never freed. That is what these modules are about.

In this directory:

| module | what it is |
|---|---|
| `Modes` | the VM mode (CONFIRMED, PREDICT) and the masks it selects |
| `PredictStore` | abstract specification: a confirmed store, a view and a mode |
| `HibitNodes` | a component tree as a value, and every call of the tree API as an operator on it |
| `HibitNodesProofs` | lemmas on those operators: what a call does to well-formed nodes and to the two images |
| `HibitTree` | one tree driven by any sequence of calls; implements `PredictStore` |
| `HibitTreeProofs` | its invariants and the refinement, proved for all sizes and values |
| `HibitWorld`, `HibitWorldProofs` | several trees under one mode and two clocks, snapshots of all of them; proofs |
| `HibitReplay`, `HibitReplayProofs` | the loop of a predicting client: predict, discard, replay; proofs |
| `HibitIterator`, `HibitIteratorProofs` | the block iterator with its deferred updates, and tree calls in between; proofs |
| `BufferStore` | abstract specification: a list per entity, confirmed and viewed |
| `HibitBuffer`, `HibitBufferProofs` | a tree of BUFFER components and its heap; proofs |
| `QueryCompiler`, `QueryText` | from the text of a query to clauses, and a caller who writes texts |
| `BitWire` | the bit packer and the codec of masks, a stream written and read back |
| `InputRows` | the table of player inputs and commands as a value, and every call on it as an operator |
| `InputRing` | one such table under any calls |
| `InputSync` | input packets from a server's table to a client's, over an unreliable network |
| `InputProofs` | lemmas on `InputRows`, and proofs about both |
| `Broadphase`, `BroadphaseProofs` | a packed tree of boxes and its queries; proofs |
| `MC*` | constants and symmetry for TLC |

## 1. Inventory

Paths are relative to the repository (`src/` below is its source directory).

**Component tree** (`src/ecs.h`, `src/ecs.c`). State: three levels of nodes of 64
positions. An L3 or L2 node carries, per position, any- and all-bits of the
predicted and of the confirmed image, `dirty` (a prediction below) and `changed`
(touched this tick); an L1 node the presence masks, `dirty`, `changed`, and two byte
images, `confirmed[]` and `predicted[]`, the second valid where `dirty` is set.
Absent children are shared default nodes. Operations: `ecs_tree_init`,
`ecs_tree_get_mut`, `ecs_tree_remove`, `ecs_tree_end_tick`, `ecs_tree_rollback`,
`ecs_tree_set_mode`, `ecs_tree_crc64`, `ecs_tree_serialize`, `ecs_tree_deserialize`,
`ecs_tree_destroy`. Hard: every summary has to
follow writes and removals in both modes and rollback, walks are sparse (they see only
what `dirty`, `changed` or a confirmed bit leads to), and nodes are released at four
places under different conditions, loading a snapshot among them. Correct when: summaries are exact in both images;
no dirty or changed bit is off the walked path; predictions never reach the confirmed
image; rollback restores it; no node is lost to the destructor; the code's own
assertion `ecs_tree_masks_valid` holds.

**World, clocks, pipeline.** State: the trees by component id, `confirmed_tick`,
`predicted_tick`, the mode mirrored to every tree. `ecs_pipeline_run` runs systems and
ends the tick; `ecs_world_rollback` rolls every tree back and derives the confirmed
clock from what the trees report. Hard: the news of a confirmed write exists only as
mask bits that other calls of the tick overwrite. Correct when the clock advances for
confirmed writes, only for them, and never misses one.

**Predict, discard, replay.** Not a component of the code but the loop it exists for
(`tests/test_modes.h`): predict a script of calls, roll back, replay the same calls as
confirmed ones; checksums must agree.

**Block iterator and query masks.** State: `l3_mask`, `l2_mask`, the loaded nodes of
every tree of the query, `write_mask`. `ecs_iterator_next_block` flushes the block just
left, sums it up in L2 and, when leaving an L2 node, in L3; `ecs_iterator_get_mut` only
stores bytes and sets `changed`. Hard: the deferred updates are derived from `changed`,
which other calls of the tick also set; masks are loaded while the body writes. Correct
when an iteration yields exactly what matched as it began, and when over, the tree is as
if the calls had been made at once.

**BUFFER components** (`ecs_buffer_t`, `buffer_live` and the calls on it, and their
twins on the iterator). State: the bytes of a slot are a pointer to a heap block with a
list, once in each image. A predicted write clones the confirmed list at its first touch
(copy-on-write); remove, rollback and destroy free blocks, each by a test of the masks of
its own. Hard: a pointer outlives its slot's presence in kept nodes, and whether bytes
hold a live pointer is derived from masks that other calls of the tick change. Correct
when no block is shared, leaked or freed twice, and each frame sees the lists it should.

**Snapshot** (`ecs_tree_serialize`, `ecs_tree_deserialize`, the same for worlds, mask
codec, varints) and the **bit serializer** (`src/ecs_serializer.h`). Hard: a snapshot is
taken and loaded in the middle of predictions, over nodes of another history; masks in
three encodings chosen by size; topology and payload in two passes; bytes that bypass the
bit scratch by whole words. Correct when a snapshot is the confirmed image, loading it
makes both images that image whatever was there, and a reader gets back what was written.

**Query compiler** (`src/ecs_query.c`). Lexer, recursive-descent parser, expansion into
disjunctive normal form, with fixed limits on nodes, names, intermediate and final
clauses. Hard: negations pushed through products, contradictions dropped, limits met
half-way. Correct when what compiles means what the text says, and what is refused had to
be.

**Input ring and commands** (`src/input.h`, `src/input.c`). State: a power-of-two ring
of rows, one per tick, each with presence and confirmed bits per player, cells, command
chains in an arena; the live players; the confirmed frontier. Operations: set (with
first-touch carry of the previous tick, backfill, and growth when a needed tick would be
evicted), command append, clear, player alloc and free, frontier advance, growth. Hard:
packets arrive in any order, positions are shared by ticks, columns by players in turn.
Correct when what was received for an unsealed tick is kept, nothing else counts as
received, and a new player inherits nothing.

**Input packets** (`ecs_input_serialize_tick`, `ecs_input_deserialize_tick`). A packet
repeats the ticks before its own, each input as a difference to the entry before it, as
many players as the MTU allows. Hard: packets are lost, duplicated and reordered, meet
predictions and a ring that grows or has dropped rows, and zero stands for "no input".
Correct when what a client takes for confirmed is what the server sealed, every command
is applied once and in order, and both seal a tick alike.

**Broadphase** (`src/broadphase.c`). State: items, a node arena, a root; a query has a
stack and the hits of a leaf still to be returned. Items are sorted by Morton code, packed
eight to a node, level by level. Hard: pruning by boxes of parents, lanes that are empty at
the end of a level, an arena sized by a formula, a fixed stack. Correct when a query
returns each overlapping item once, and the fixed sizes suffice.

**Fixed-point arithmetic** (`src/fixed.h`), **vector math** (`src/ecs_math.h`): saturating
Q-format arithmetic, stateless kernels.

How they interact: everything is a direct call. Systems, called by the pipeline, call
the tree API and iterators; iterators reach into the nodes of the trees; the world's
tick and rollback calls visit every tree; the game reads inputs by tick, rolls the world
back when a confirmed input contradicts a prediction, and replays. There are no threads,
callbacks across an unlock, or persistent state.

## 2. Plan

The trees come first: everything else reads or writes their masks. All of the following
is done.

1. `HibitNodes`, `PredictStore`, `HibitTree`, and the proofs; then the modules that compose
   trees: `HibitWorld`, `HibitReplay`, `HibitIterator`. `InputRows`, with
   `InputRing` for one table and `InputSync` for two and the packets between them.
2. `HibitBuffer` over `HibitNodes`, which refines `BufferStore`.
3. Snapshots of worlds in `HibitWorld`; `BitWire` for what is on the wire under them.
4. `QueryCompiler`, which `HibitIterator` takes its queries from; `Broadphase`.
5. Proofs for the world and for the ownership of heap blocks, on the lemmas about nodes;
   then for the replay loop, the input ring and the broadphase; last for the iterator and
   the input packets.

What would extend it: in `HibitIterator`, a loop left early and tree calls inside a loop;
in `InputSync`, players who leave and a client whose inputs go to the server; worlds of
different schemas.

## 3. The modules

### HibitNodes, HibitTree

A tree is a record: `mode`, the summaries `root` (L3) and `l2[i]`, the leaves
`l1[i][j]`, and `own2`, `own1[i]`, the positions whose child is a node of the tree's own
and not the shared default. The fan-outs are the constant sets `Fan3`, `Fan2`, `Fan1`
(64 positions each in the code); masks are subsets of them. A position that is not
owned reads as an empty node, which is what the default nodes are. Bytes are members of
`Value`; a released node's bytes are gone (`Zero`, as the allocator returns zeroed
nodes). A released L2 node takes what it points at with it: its L1 nodes, if it still has
any, read as empty too.

| code | model |
|---|---|
| `ecs_tree_get_mut` and the store through its pointer | `GetMut` = `AcquireL2`, `AcquireL1`, `MarkL1`, `MarkUp` twice, then the byte |
| `ecs_tree_remove` | `RemoveSlot` = `UnmarkL1`, release in CONFIRMED mode, `UnmarkUp` twice |
| `ecs_tree_end_tick` | `ClearChanged`, along `changed` only |
| `ecs_tree_rollback` | `Rollback`, along `dirty` or `changed` only, with `RollbackAdvances` its return value |
| `ecs_tree_set_mode`, `ecs_tree_no_dirty` | `SetMode`, guarded by `NoDirty` as the code asserts |
| `ecs_tree_crc64` | `CrcFeed`, what is hashed; the polynomial is left out |
| `ecs_tree_masks_valid` | `MasksValid` |
| the walk of `ecs_tree_destroy` | `DestroyFrees` |
| `ecs_tree_serialize` | `Snapshot`, the confirmed masks as domains of functions, down to the bytes |
| `ecs_tree_deserialize` | `Load`: nodes the snapshot names are kept (`LoadedL1`) or acquired, all others released |

The walks are modelled by the set of nodes they reach, computed from the masks they
follow, so that a bit missing from a summary has its real effect. `ecs_tree_get_mut` and
the caller's store are one action: the caller owns the pointer until its next call.

A snapshot is a function of functions: its domains are the masks, so that the two passes
of the wire, and the codec of a mask, come out as what the receiver has decoded.
`Deserialize` loads the snapshot of *any* store, taken by any peer, into the tree at hand.
The codec does not carry every mask: for a count of exactly eight set or clear bits the
number overflows its three bits (`ecs.c:941-947`, and the comment at `ecs.c:918`), and the
rest of the stream is read at the wrong place. Such snapshots are left out by a guard
(`Carried`); with fewer than eight positions per node, as in the runs, there are none.

`PredictStore` knows two functions from slots to values and a mode. `HibitTree!Abstract`
maps a tree to it: the confirmed image, and the view `pred` selects, read from predicted
bytes where dirty and from confirmed bytes elsewhere. Its `Restore` is not a step of
`StoreNext`, because an arbitrary new store would allow any change at all:
`ImplementsStore` asks of every step that it is a step of `StoreNext`, or a `Deserialize`
of some store that restores that very store.

### HibitWorld

The trees of the world as a function of `Component`, with a mode and two clocks. A system
is any sequence of `Write` and `Remove`; `EndTick` is `ecs_world_end_tick`, also the last
call of `ecs_pipeline_run`; `WorldRollback` computes the confirmed clock as
`ecs_world_rollback` does. `LoadWorld` is `ecs_world_deserialize` of what some peer of the
same schema (`ecs.c:1174`) sent with `ecs_world_serialize`; `Sent` are the snapshots that
peers send. The history variable `fresh` records the slots of CONFIRMED calls since the
last rollback, end of tick or load; no guard reads it. `MaxTick` bounds the clocks.

### HibitReplay

One tree and a client: any confirmed calls, a prediction of up to `MaxScript` calls,
rollback, mode switch and replay. It generalises
`test_mode_predict_matches_confirmed_simulation` from one script on one slot to all
scripts, over trees with any history, with ends of tick anywhere.

### HibitIterator

`ecs_iterator_next_block` is split at its loop: `Flush` (the block left), then `LoadL1`
and `LoadL2` until a block matches or no position is left. Its trees, as in `HibitWorld`,
share one mode; those in `Tag` have no bytes (`data_size` 0), so that only their masks
change. The loop body is any sequence of `IterWrite` and `IterRemove`;
between iterations the tree API is called. `seen` and `expected` record what was yielded
and what matched when the iteration began; `confirmed` and `view` record what the calls
stored. Any iteration may
begin after any calls, and the body may remove any slot of the block, one removed already
included. The code neither forbids nor documents a writing iteration in a tick in which a
slot of its trees was removed by `ecs_tree_remove` or in which the mode was changed, and then
the flush takes the `changed` bit of a slot for a write that nobody made (section 6). The
history variable `misread` records those slots: the `Leftover` of each block as it is
yielded. No guard reads it. `StoresAgree` and `SummariesExact` except the slots in it, and
the blocks of such slots, one by one; `YieldsMatches` and `RollbackSettles` speak of
executions in which it is empty. The queries of the runs
are compiled from their texts by `QueryCompiler`; a clause's changed mask, which no text
can express, is set afterwards, as the users of `ecs_compile_query` do.

### HibitBuffer

The tree is that of `HibitNodes`, its values are pointers, and `heap` says what each block
holds. Every call is the call on the tree with what it does to the heap:

| code | model |
|---|---|
| `buffer_live` | `NeedsCow`, `LivePointer`, `LiveList`: which pointer a write finds, and the list it works on |
| `ecs_tree_buffer_push`, `_pop`, `_clear` | `Push`, `Pop`, `Clear` with the first disjunct of `Touch` |
| `ecs_iterator_buffer_push`, `_pop`, `_clear` | the same with the second disjunct, `IterMut`: the marks in the block and the flush of the next `ecs_iterator_next_block` |
| `ecs_tree_remove` | `RemoveBuffer` = `Emptied`, the block freed, `RemoveSlot` |
| `ecs_tree_rollback` | `RollbackTree` = `Dropped` in every node visited, then `Rollback` |
| `ecs_tree_destroy` | `Destroy`, along the confirmed bits; a new tree follows |

A push may move its block or not: capacity only decides which, so both may happen. An
iteration of this module is one write and the flush after it (`TouchBlock`), in any state;
`misread` is the history that `HibitIterator` has, and no guard reads it. `ImplementsLists`
asks for a step of the store as long as it is empty; that every block is owned once is
checked with no such exception. `BufferStore` has no heap and no pointers: two
functions from slots to lists. `ListsOf` maps to it by following the pointers.

### QueryCompiler, QueryText

A text is a sequence of tokens. `ParseOr` and the rest are the functions of the parser,
with the parser's struct as a record `p`; `Chain` is the loop that `parse_and` and
`parse_or` share. `Dnf` is `dnf_build`; a normal form of more than `MaxDnf` clauses stands
for the return of 0, which no later step undoes. `QueryText` writes a text token by token
and compiles it at any point; behind the first token that is out of place nothing is
written, a bound that leaves one error in a text. What a text means (`Readings`) is the
grammar in the comment at the head of the source, read without a parser: a text is split
in every way the grammar allows. A reading has the sets of components that satisfy it
(`worlds`), and the ways to make it true or false by choices of its names (`ways`), each of
which is a clause of the normal form; `most` is how many ways it or a part of it has, which is
what `MaxDnf` limits. `CompiledMeans` compares the first with the compiled query, and
`RefusedForCause` the others with the limits, in both directions: a text is refused if and
only if one of the reasons holds.

### BitWire

A writer and a reader with their scratch, and the words between them. Bits of a payload are
numbers of their own, one for each position in the stream, so that a bit read from the wrong
place cannot pass for the right one by accident; bits that are looked at (tags, counts,
positions) are 0 and 1. `WriteBytes` and `ReadBytes` follow the code's three stages: bytes to
the boundary of a word, whole words past the scratch, bytes again. `MaskFields` is the list
of calls that `ecs_serialize_mask` makes, `ReadMask` its inverse. The writer asserts that
values fit their field: a mask with exactly `2 ^ CountBits` positions to list stops the
program (`Writable`).

### Broadphase

A node is the sequence of its lanes, each with a box, an id, and whether it is an object:
`presence_mask` is the domain and `object_mask` the third field. A box is an interval, the
Morton code a constant function of it: the three axes are treated alike, and any order is
sorted in by the choice of `Code`. `InOrder` says by ranks what the radix sort returns: every
member has as many before it as its place says. An iteration of a loop of the code is a step: `Pack` a
level, `Descend` a round of `br`.

| code | model |
|---|---|
| `broadphase_insert`, `bp_grow` | `Insert` |
| `bp_radix_sort_perm` | `Sorted`, the stable order |
| `bp_overlap_mask` | `Hits` |
| `broadphase_build`, `bp_pack_level` | `Build` (leaves), `Pack` (levels), with `Packed` and `Around` |
| `broadphase_query_begin`, `broadphase_query_next`, `br` | `Begin`, `NextHit`, `Descend`, `Drain` |

### InputRows, InputRing

`InputRows` has no variables. A ring is a function on its positions, and the calls are
operators on it, with the players who are in (`live_bm`) and the tick up to which all is
sealed (`confirmed_frontier`) as parameters; `InputRing` keeps these as `rows`, `live` and
`frontier`, `InputSync` has a ring for each peer. A row's bitmaps and cells are one
function with `Empty` where the present bit is clear, an arena chain is the sequence of its commands.
`WithInput` is the whole of what `ecs_input_set` does to it: `MakeRoom` (growth), `Touched`
(first touch and carry), the store, and `Backfilled`, with the stop conditions of the loop in
`Open`. `WithCommand` is that of `ecs_input_cmd_append`. The actions of `InputRing` are `Set`,
`CmdAppend` and the calls that manage players, ticks and the size.
Column growth has no effect on what is stored and is part of `AllocSlot`. `View` and
`Yielded` are what `ecs_input_get_view` and the command iterator return, and what the
properties speak of. The history
variable `watch` is some tick and player chosen once; `heard` and `sent` are the last
confirmed input and the commands of that pair. Because the choice is arbitrary, a
property of the watched pair is one of every pair. `MayTouch` is what the code asserts
and what the header asks of the caller: no first touch of a sealed tick, and a resync
instead of a write `ECS_INPUT_BUFSIZE_MAX` or more ticks away.

### InputSync

Two rings of `InputRows`, `serverRows` and `clientRows`, what the server sealed
(`sealed`), and `net`, the set of all packets ever sent: any of them may arrive at any time,
any number of times, or never. On the server all players are in and the frontier is the
number of ticks sealed.

| code | model |
|---|---|
| `in_resolve_cascade_slot` | `Cell`: the input of tick T - r, zero if it is not in the ring |
| `in_slot_has_any_data`, `in_slot_bit_cost` | `HasData`, `Bits` |
| `ecs_input_serialize_tick` | `Packet`: a `Block` per player until the MTU is full |
| `ecs_input_deserialize_tick` | `Received`: `Entered` for every entry of every player who is in, with its cached `buf_mask`, and `WithChain` for its commands |
| `ecs_input_set`, `ecs_input_cmd_append` | `ServerSet`, `ServerCommand`, `Predict` |
| `ecs_input_advance_to_tick` | `ServerSeal`, `ClientSeal` (after `ecs_input_tick_confirmed`) |
| `ecs_input_alloc_slot`, `ecs_input_grow_buf` | `Join`, `ClientGrow` |

Bits are counted, not laid out: an entry is "as before" or a raw value, and the gate bit
of a player without data is an empty block. The rest is the discipline the headers ask of
a game, or that nothing checks. The server seals in order, fills in zeros for the players
it has not heard of ("missing inputs synthesized", `input.h:72-74`), and sends any
sealed tick, however old. What its ring has lost of the cascade by then is encoded as zero,
as the code does; a packet is kept in `net` together with the set of those ticks
(`Missing`), and `zeroed` are the ticks that the client has taken in from packets made
without them. The client's ring may grow while a packet is taken in: `doubled` are the ticks
of such packets, whose commands the code looks for in the wrong row (section 6). Both are
history, read by no guard. The properties except what these two bring about and nothing else: an
input that is not the sealed one is zero and of a `zeroed` tick, commands that are not the
sealed ones are of a `doubled` tick. The program stops where an assertion of
`ecs_input_set` would fail: `Receive` is not enabled there. `Moves` are the inputs players make, apart
from the zeros that the server makes up.

## 4. The runs

| run | instance | what it shows |
|---|---|---|
| `tree` | 1×3×1 slots, 2 values | summaries, sparse walks, ownership of nodes; refinement of `PredictStore`; what checksum and snapshot depend on |
| `world_clocks` | 2 trees × 2 slots, clocks ≤ 2 | the confirmed clock; isolation of predictions; loading a snapshot over them |
| `replay` | 2 slots, 2 values, scripts ≤ 3 | a replay agrees with its prediction |
| `iterator_masks` | 1×2×2 slots, 1 value | deferred updates leave exact summaries, but for misread slots; rollback settles; an iteration ends |
| `iterator_queries` | a tree and a tag tree × 2 slots, 2 values | include, exclude, changed and OR over two trees: yields are right, both images hold what was stored, but for misread slots |
| `buffers` | 2 slots, 4 blocks, 2 elements, lists ≤ 2 | every block is owned once; refinement of `BufferStore` until a slot is misread |
| `query` | 3 names, texts ≤ 10 tokens, small limits | compiled queries mean their text; a text is refused exactly for cause |
| `wire` | words of 8 bits, bytes of 2, streams of ≤ 3 items | one string of bits; what is read is what was written |
| `input_ring` | 1 player, ring 2 growing to 4, ticks ≤ 4 | received inputs are kept, nothing is made up, slots are recycled clean |
| `input_sync` | 2 players, 2 ticks, rings 1 growing to 2, 1 repeated tick, an MTU that cuts | what is received is what was sealed, and sealed alike, packets of a tick are alike, but for ticks lost and for a ring that grows under a packet |
| `broadphase` | nodes of 3 lanes, ≤ 10 items, 3 levels | queries are right and end; arena and stack suffice |
| `world_frame_doc` | 1 tree, 1 slot | the finding of section 6 |

**Bounds.** A mask operation treats its positions alike (hence the symmetry), and
looks at one child and whether a mask is empty or full. Two positions at a level are
enough for a bit of one child to differ from its sibling's, for "any" to differ from
"all", and for one child to be emptied while the parent lives; a third in `tree` leaves one
that is not touched. In `tree` a leaf has one slot, so nodes of both levels come and go
with every call; leaves that are partly full are in `iterator_masks`, where the same
operators run on 1×2×2 slots, and in `replay`. The root differs from an L2 node only in
its fan-out, and `Fan3` has one position: that two L2 nodes do not disturb each other is
proved, not checked. Two values are enough for stale bytes to be told from
fresh ones. In `input_ring`
four ticks in a ring of two put two live ticks on one position, force the growth, and
leave a gap of two to backfill and carry over. With `BufMax` = `MaxTick` = 4 no
tick is too far away, so the resync part of `MayTouch` never bites in this instance.
In `input_sync` one row for two ticks makes every second tick evict or grow, one repeated
tick is a cascade with a floor at tick 1, and the MTU of 120 bits cuts the second player
off when both have much to say. In `buffers` one leaf of two slots is kept by one slot
while the other goes, and released with both; four blocks are one for each image of each
slot. In `wire` items of every length start at every offset of a word, a byte block of nine
has a head, whole words and a tail (a word is four bytes), and there are masks of each
encoding and polarity. In `query` ten tokens are enough for `!(a&b)|c`,
for `(a|b)&(c|a)` without its last parenthesis, and for each limit to be passed; among them is
`(a|b|a)&!a`, in which a part has three ways and the whole fits in `MaxClauses` = 2, so a
limit on clauses that is applied to a part shows. The names of the two trees are symmetric, as
the compiler never orders them. In both iterator runs `MisreadEnds` is a bound on what is
explored: the iteration that first misreads a slot is followed to its end, where the
properties are checked of what it left, and nothing after it. In `iterator_queries` the two
slots of the block are symmetric, as nothing orders the slots of a block. In `broadphase`
ten items in nodes of three make four leaves, two parents and a root, not all full, and two
growths of the arrays. Clocks to 2 cover two frames, the second over the
leftovers of the first.

**Mutants.** For every property of a passing run a definition named `X_Something`, next
to `X`, changes one line of it the way a slip in the code would (a summary not
followed, a guard dropped, rows not moved on growth). With it in place of `X` the
property fails on the same instance.

**Fairness and liveness.** The library is called, never runs by itself, and promises no
progress of the caller: most modules state no fairness. Two kinds of loop are split into
steps, and there an end is promised: `IterationEnds` of the iterator and `QueryEnds` of the
broadphase. Their fairness is weak, on the disjunction of the loop's steps and of the
call that asks for the next block or hit (`WF_vars(Flush \/ LoadL1 \/ LoadL2 \/ NextBlock
\/ End)`, `WF_vars(Pack \/ NextHit \/ Descend \/ Drain)`): a loop of a sequential program
goes on while its condition holds, and the caller is one who asks until nothing is left, as
`while ((m = ecs_iterator_next_block(&it)))` does. The body of the loop is not fair: it may
write for ever in one block, which weak fairness of `NextBlock`, enabled all the while,
rules out as a caller that never comes back. The network may lose every packet, so it is
not promised that a client goes on.

Every run checks deadlock but three: in `input_sync` the game ends when both peers have
sealed `MaxTick` and nothing is left to send or take in, in `wire` when the stream is
read, in `query` when the text is compiled.

## 5. What is proved

`HibitTreeProofs` proves, for all fan-outs and values:

* `TypeCorrect`, `AlwaysWellFormed`: `TypeOK` and `TreeWellFormed` are invariants;
* `PredictedExact`, `ConfirmedExact`: the summaries of both images are exact;
* `DirtyReached`, `ChangedReached`, `WalksReach`: no dirty or changed bit is off the sparse
  walks;
* `UntouchedSame`: off the dirty slots the images agree;
* `NothingLost`: the destructor reaches every node owned;
* `AssertionHolds`, `RollbackClears`: the code's assertion, and what a rollback leaves;
* `Refinement`: `HibitTree` implements `PredictStore`, snapshots included;
* `ChecksumSound`: the checksum's feed is a function of the view;
* `SnapshotSound`: a snapshot is a function of the confirmed image.

`HibitWorldProofs` proves, for any number of components, `WorldTypeCorrect`,
`ClockJustified`, `WritesAdvance`, `Isolation` and `JoinStartsOver`: all the properties of
`world_clocks`. `HibitBufferProofs` proves, for any number of blocks and slots and any
length of lists, `BufferTypeCorrect`, `OwnershipSound` and `BufferRefinement`: the
properties of `buffers` until a flush misreads a slot. That types and ownership outlast it is
model-checked only.

`HibitReplayProofs` proves `ReplayReachesPrediction`, for scripts of any length over any
tree. `InputProofs` proves `TypeCorrect`, `HeardStays`, `NothingInvented`,
`RecycledSilent` and `LiveRowsStay`: all the properties of `input_ring`, for any number of
players and ticks and any size and cap of the ring. It also proves `PeersType`,
`ReceivedAsSealed` (`ReceivedIsSealed`), `SentAlike` (`SameWire`) and `SealedAsServer`
(`FinalIsShared`): all the properties of `input_sync`, with the exceptions they name, for any
number of players and ticks, any redundancy up to 15, any MTU and any packets lost, repeated
and reordered, of cascades the server's ring has lost in part, over any growth of both rings.
`BroadphaseProofs` proves, for any
fan-out, items, boxes and codes, `AnswersExact` (`YieldsOverlaps`), `StackSuffices`
(`StackBounded`), `FiveLevelsFit`: in nodes of eight lanes `BROADPHASE_STACK_MAX` places are
enough for five levels, and `ArenaSuffices`: `NodesFit` as long as there are at most `Fan + 1` levels,
which is 8^9 items in the code's nodes. Without that bound `NodesFit` is false
(section 6), so it stays a property of the run.

`HibitIteratorProofs` proves `IteratorType`, `IteratorYields`, `IteratorSummaries`,
`IteratorStores` and `IteratorRollback`, for all fan-outs and any number of trees, tags,
values and queries, with tree calls of any kind between the iterations. `IteratorType` has
no condition. The others hold until an iteration yields a block with a slot that its flush
misreads (`misread = {}`), which for `IteratorYields` and `IteratorRollback` is what the property
says; that `StoresAgree` and `SummariesExact` hold beyond, for all slots but the misread ones,
is model-checked only.

For trees the assumptions are `FanAssumption` (`Fan2` and `Fan1` are not empty), `ZeroAssumption` (zeroed
bytes are a value) and `AbsentAssumption` (absence is not a value). Finiteness is not
needed, nor anything of the codec: the guard `Carried` is not used. The iterator adds
`PositionAssumption` (the digits of an index are numbers: the lowest bit is taken first) and
`QueryAssumption` (a query is clauses over trees), but no bound on either. The input ring
needs `BufAssumption` (below), `EmptyAssumption` (no input is not an input) and that bounds
are numbers; the packets, that `Zero` and the players' `Moves` are inputs
(`ValueAssumption`), that the flag `Same` is not one (`SameAssumption`: on the wire it is a
bit of its own), and a redundancy that its four bits hold (`PacketAssumption`).

**The argument for a tree.** None of the properties is inductive by itself. Exactness of a summary
after a removal needs the all-bit to have been right before; releasing a node keeps
`DirtyIsReachable` only if what is under it is known to be clean; rollback finds a
prediction only if the path was intact. `IInv == TypeOK /\ TreeWellFormed` states, in
`HibitNodes!WellFormed`, for every L2 node and every L1 node how the parent's six
bits for a child relate to that child (`SummaryOf`), that a position that is not owned is
empty and one that is owned holds a confirmed slot or a prediction, and that masks
agree where nothing is dirty.
Writes and removals touch one path
of three nodes. `GetMutPath` and `RemoveNode` reduce each to its new nodes, and
`PathKeepsLinked` and `PathKeepsBusy`, stated once for any such path, give the two parts of
the invariant (`Linked`, how masks relate, and `NoneIdle`, that nodes are there for a reason)
back from the facts about those three. `ClearChanged` and `Rollback` touch many nodes, but each by a
rule of its own: `LeafRollback` and `NodeRollback` show that, under the invariant, a
sparse walk does to *every* node what it would do if it were visited. `NextKeeps` has one
step per action. The refinement then needs, per call, the images before and after, which
the same lemmas give; `set_mode` maps to `SwitchMode` because a clean tree has equal
images, and `end_tick` to a stutter. `Load` is no path: `LoadedFields` and `LeafLoaded`
give its nodes one by one, `LoadKeeps` the invariant, and `LoadRestores` the two images,
with no use of what the tree was before. `SnapshotSound` reuses the two ends:
a snapshot is what the checksum would read after a rollback (`SnapshotOfRollback`), and a
rollback makes the view the confirmed image.

**The argument for a world.** That the clock moves only for CONFIRMED calls has to be read
off masks. `WInv` adds to `WellFormed` of every tree that its mode is the world's, and two
facts that relate the masks to `fresh`: a slot that is changed and not dirty is in `fresh`
(`Told`, from which `ClockJustified`), and a slot of `fresh` that is still confirmed is
still changed, in a node the sparse walk reaches (`Marked`, from which `WritesAdvance`).
Each needs the other tree calls to keep the bits of slots they do not touch, which the
lemmas of `HibitNodesProofs` say.

**The argument for the heap.** `OwnedOnce` with `WellFormed` is inductive, but no single
conjunct of `OwnedOnce` is: that a block is not freed twice rests on no other image sharing
it, that none leaks on images without data being NULL, and that on the masks being right
(`BInv`). After a misread slot the all-bits of a summary may be stale, so `WellFormed` goes; `Sound`
asks for `BInv` as long as `misread` is empty, and `MisreadStays` says that it does not become empty
again. `OneImage` treats a call that gives one image another pointer, `DropImages` a call
that empties many; every call is brought under one of the two. `TreeTouched` says what
a write by the tree and one by an iterator have in common, so that all three element-level
writes are one case, `ElementWrite`.

**The argument for the lists.** The masks and the pointers already behave as a store
(`LeafPuts`, `RemovePuts`, `RollbackDiscards`). `PointersToLists` carries that from pointers
to lists: by `OwnedOnce` no other image points to a block that a call writes or frees
(`OthersKept`; for a rollback, `RollbackLists`), so one list changes and the others stay.
`LiveListSeen` says that what a push or a pop starts from, seeded or not, is the list that
the frame sees. So `BufferRefinement` rests on the whole of `BInv`.

**The argument for the replay.** `ReplayAgrees` compares two checksums taken many calls
apart. `IInv` says what carries from one to the other: while the script is written as
predictions, the view is what its calls make of the confirmed image the loop started from;
after the rollback, what was replayed so far makes the same of it (`Carries`, whose witness
is the store in between, fixed call by call). That a rollback returns to the image, and that
equal views feed the checksum alike, are lemmas on nodes.

**The argument for the ring.** The code finds a row by `tick % bufSize`, a power of two:
`BufAssumption` says so, as the header does (`input.h`), of the first size and of the cap.
Growth moves each row to the one place of the larger ring where its tick belongs; this is
arithmetic on remainders, stated once, and everything else speaks of the row of a tick
(`RowOf`), whether it moved or not. `IInv` says of every cell where its value can come from:
a confirmed one is what was heard for that very tick and owner; one that is a carry comes
from the latest confirmed tick before it; a slot that changed hands is silent in every
resident row and at every tick a carry could reach from one. The watched pair is some tick
and player, chosen once, so one step per action is proved for every pair.

**The argument for the packets.** `PeersInv` has one part for each of the four things that
must agree.

* `SealedInv`: `sealed` is a sequence of ticks with an input and a chain of commands for every
  player.
* `ServerSound`: a row the server still has of a sealed tick is that tick as it was sealed.
  New inputs may take the row away, grow the ring over it, or fill backward towards it, but
  none changes it; `ServerSeal` provides the inputs that are missing player by player and leaves
  those that are there.
* `ClientInv`, by `ClientCell`: an input of a client that is confirmed is the one sealed, or
  zero in a tick of `zeroed`; of commands it has none or the sealed chain, but in a tick of
  `doubled`, and all of it where the input is confirmed and the tick not yet sealed by the client
  (a sealed tick takes no commands, `input.c:666`), but in a tick of either. The
  last part is what `FinalIsShared` needs and what `ReceivedIsSealed` does not say.
* `NetInv`: every packet is `Faithful`, made from some ring that showed the cascade of its
  tick as it was sealed (`Shows`), but for the ticks in `lost`, which it did not hold. What the ring was is gone by the time the packet arrives, so it is
  bound by an existential quantifier. TLC cannot enumerate rings, so the run checks what
  follows from it (`PeersTypeOK`, `SameWire`), the proof the part itself.

A write at one tick disturbs others: it may evict, carry, fill backward and move the whole
table. `Drift` says all that can happen to a cell the write is not about: what was there stays,
but for a prediction where there was no input (`Kept`), or the cell is emptied of all but
predictions, and only past the frontier if the row is there at all (`Blank`). Drifts compose (`DriftTwice`), keep
`ClientCell` (`DriftCell`) and cannot hurt a sealed row of the server. `SentAlike` follows
from `Faithful`: two rings that show the same cascade and have lost the same ticks of it have
the same cells (`ShownCell`), so the same blocks, and as many of them fit. For `ReceivedIsSealed`, the decoder gives back the values that were
sent as differences (`ReadBack`: the last raw value before an entry is the value of the
entry), and each entry taken in keeps the client sound (`Sound`). As long as the ring has its
first size, the commands of an earlier packet are found and none is appended twice; once it has
grown, the ticks of the packet's cascade are excused (`Excused`), and `doubled` has them when the
packet is taken in. A packet is a loop over players, entries and commands, a recursive function in
the model; `Climb` is the induction over its index, on the set of the indices at which the
claim holds, so it needs no operator as a parameter.

**The argument for the broadphase.** The invariant needs what the nodes do not hold: which
items are below a node, and the level it was packed in. Both are bound by an existential
quantifier (`TreeInv`: some `u` and `v` such that ...), and each packed level extends them.
A node parts what is below it among its lanes, and a lane's box covers what is below the
lane; then, of a walk, each item of the answer is returned, in the mask, or below exactly
one node of the stack (`Walk`), which gives both "once" and "every". A node that waits at
place y of the stack is at a level v with y - 1 at most (Fan - 1)(height - v): this is
inductive, and the bound at v = 1 is `StackBounded`. For the arena, (Fan - 1) times the
nodes and what the last level still lacks grow by at most Fan - 1 per level over the leaves, whose own
left-over is covered by the capacity being a multiple of `Fan` (`broadphase.c:89` asserts it).
That the sort permutes the items is proved from ranks (`SortedPermutes`), with no
assumption on the codes.

**The argument for the iterator.** Inside an iteration a tree is not `WellFormed`: the
leaf in hand holds writes that are neither dirty nor summed up, and its L2 node holds bits the
root has not got. The invariant speaks of the *settled* trees instead (`SettledTree`), each
tree of the write mask as it will be when the flush of the block in hand and the summary of
its node are done (`BlockDone`). `IInv` is `TypeOK` and the
following.

* `TreesHold`, `StoresHeld`: a settled tree is `Linked`, and its two images are `view` and
  `confirmed`. `Linked` is the part of `WellFormed` that says how masks relate; `NoneIdle`,
  the other part, is lost here, because `ecs_iterator_remove` leaves empty nodes in place, so
  the lemmas about the tree's calls are stated for `Linked` first. A write in a block does
  to the images of the settled tree what `GetMut` does (`DeferredWrite`), a removal takes a
  slot off one path of it (`DeferredRemoval`); `Flush`, `LoadL1`, `LoadL2` and `NextBlock` leave the settled trees
  as they are.
* `WriteSafe`: every changed slot of the block in hand, in a written tree, is present in the
  image of the mode, and in PREDICT mode dirty. Of a block just yielded that is `Leftover = {}`
  (`BlockLoaded`), and what the body writes keeps it. So the flush, which takes each changed
  slot for a written one, adds dirty bits and nothing else, and moving on to a block puts
  nothing off.
* `Places`, `Yields`: `l3_mask` and `l2_mask` hold the nodes and blocks that are still to be
  visited, and every match of the others has been seen. What is still to be visited matches as it did
  when the iteration began, since the body writes in the block in hand only
  (`UnvisitedStay`). `LeafPrunes` and `NodePrunes` show, clause by clause and for any mix of
  names included, excluded and changed, that a node the masks rule out holds no match.

When a block with a leftover is yielded, all this is gone for good, as `misread` never shrinks
(`MisreadStays`). So the invariant is `Sound == Shape /\ (misread = {} => IInv)`: `Shape`
(`TypeOK`, a query of the right form, and `Places`) is kept by every step, and `NextKeeps` says
that `IInv` is kept by every step that leaves `misread` empty.
`YieldsMatches` at the end is `Yields` with nothing left to visit; the other properties
are read off a settled tree that has nothing to settle. `IterationEnds` stays with TLC.

**Only model-checked:** the query compiler (`CompiledMeans`, `RefusedForCause`), the wire
(`OneStream`, `ReadsBack`), and `NodesFit` of taller trees. **Out of this prover's reach:**
liveness under fairness (`IterationEnds`, `QueryEnds`) and `ENABLED`, and induction over
data: what the recursive operators of `QueryCompiler` and `QueryText` compute is checked on
bounded inputs. `BitWire` is not recursive, but its streams are folds of folds, and its masks
go through binary numbers and back: the library has no theorem on either, and no proof was
attempted.

## 6. Findings

**The documented frame order stops the confirmed clock** (`world_frame_doc`).
`ecs_pipeline_run` ends the tick, which clears `changed`, and the rollback after it
finds no confirmed advance. `ecs.h:399-400`, `ecs.c:734-735`.

Noted while modelling, without a run:

* A removed component comes back: `ecs_tree_remove` sets `changed`, and the OR-only flush of
  a later writing iteration in the tick makes the slot present (`ecs.c:516`, `ecs.c:211`,
  against `ecs.c:466-468`). The runs of `HibitIterator` reach it; `misread` has the slot, and
  without that exception `StoresAgree` is violated.
* A node the destructor does not find: a CONFIRMED `ecs_iterator_remove` that empties a node
  clears the bits the destructor follows (`ecs.c:1218` against `ecs.h:762-763`).
* A confirmed zero is not delivered: on the wire zero and no input are one gate bit, and the
  decoder skips the player, whose tick is never confirmed (`input.c:1103`; `input.h:464-465`,
  `input.h:72-74`).
* Commands twice: the decoder keeps `buf_mask` in a local while the `ecs_input_set` it calls
  may grow the ring, so it looks for the commands of an earlier packet in another row
  (`input.c:1088`, `input.c:1131-1134`; `input.h:30`, `input.h:469`). The run `input_sync` reaches it; `doubled` has the ticks.
* The mask encoder takes the indexed form for a count of exactly eight (`ecs.c:941`), which
  its three bits do not hold; the header says "<= 7" (`ecs.h:439-440`) and the comment at
  `ecs.c:918` knows of it. `write_bits` then fails its assertion.
* The stack of a broadphase query needs 1 + 7·(H - 1) places for a tree of H levels
  (`StackBounded`), which passes `BROADPHASE_STACK_MAX` = 32 from six levels on, that is
  beyond 32768 items; up to five levels it fits (`FiveLevelsFit`). "32 plenty" (`broadphase.h:79`) and "covers ~10^9 items"
  (`broadphase.c:452`) count the depth only.
* The node arena of `item_cap / 7 + 8` nodes "covers it for any N" (`broadphase.c:97`): the
  eight spare nodes cover one left-over node per level, up to nine levels.
* Checksum and snapshot of a BUFFER tree treat the slot's bytes, a pointer, like any others
  (`ecs.c:581-611`, `ecs.c:972-1023`).
* A snapshot of a world with fewer components leaves the nodes of the others in place
  (`ecs.c:1201`), while the comment says that vanished slots are destroyed (`ecs.c:1165`).
* The comment on the checksum (`ecs.c:558`, `ARCHITECTURE.md:105`) speaks of confirmed
  state, while `ecs.h:560-566` and the code hash the view, which `ChecksumIsView` takes as
  the meaning.
* A CONFIRMED write that a PREDICT write of the same tick covers is not reported by
  rollback (`ecs.c:655` against `ecs.h:205`), nor is a CONFIRMED removal that empties its
  L1 node (`ecs.c:653`).
* `predicted_tick` minus `confirmed_tick` is documented as pending frames
  (`ecs.h:336-337`), but a rollback makes them equal whatever is pending.
* After a CONFIRMED write and a switch to PREDICT in one tick, a writing iteration sets
  `dirty` from the old `changed` bit and the slot shows predicted bytes that nobody wrote
  (`ecs.c:208` against `ecs.h:197`). This too is in the model, and in `misread`.
* `ecs_tree_deserialize` asserts a root (`ecs.c:1068`) and never returns -1; its header
  says that it initialises a tree without one and reports mismatches (`ecs.h:458-462`).
* `ecs_input_clear(tick)` empties the position of `tick` even if another tick lives there
  (`input.c:599` against `input.h:298-302`); the model does as the code does.
* A late packet whose sealed tick has left the client's ring reaches the assertion at
  `input.c:491`.
* A tick whose cascade has left the server's ring is encoded with zeros in its place, and
  they are confirmed by the receiver; "the wire is the same regardless of ring eviction
  state" says the comment (`input.c:781-783`). The model does so: packets of one tick that have lost
  different ticks of it differ, which is why `SameWire` compares those that have lost the same.
* A packet cut at the MTU is not continued: `first_slot` is always 0 (`input.c:991`, against
  `input.h:418-419`).
* Whether commands are there already is decided per player, the header says per row
  (`input.h:469-471`).

## 7. What is not modelled

* Checksum and snapshot of BUFFER trees, which hash and send pointers.
* `ecs_serialize_varint` and `ecs_deserialize_varint`, which nothing calls; byte order of the
  host, zig-zag numbers, and reads past the end of a stream, which assert. Snapshots of
  worlds with different schemas.
* `ecs_buffer_swap_remove` and the capacity of a buffer; a caller that writes through
  `ecs_buffer_at`.
* Morton codes and fixed-point boxes: any order, and intervals of integers, stand for them.
  An insert while a query runs (the header forbids it).
* `fixed.h`: stateless operations on single numbers.
* `ecs_math.h`: stateless float kernels with no behaviour a model checker tells apart.
* Memory exhaustion (the allocators abort) and 32-bit wrap of ticks: `MaxTick` and the
  ticks of `InputRows` stay far below it.
* In the iterator: leaving the loop early, tree calls inside a loop, scratch-buffer
  fields. In the input ring: `ecs_input_destroy`, the command type registry (a command
  is one of a registered type) and the iterator over live slots. In the packets: players who
  leave, and the layout of bits.
* The demo, benchmarks and build files.
