----------------------------- MODULE InputRing -----------------------------
(***************************************************************************)
(* One table of player inputs (ecs_input_t) under any calls: it grows when *)
(* a write would evict a tick the simulation still needs, carries inputs   *)
(* forward as predictions, fills them backward for packets that arrive out *)
(* of order, and keeps commands per tick and player.                       *)
(***************************************************************************)
EXTENDS InputRows

VARIABLES rows,      \* table and cmd_arenas, by ring position
          live,      \* live_bm
          frontier,  \* confirmed_frontier
          watch,     \* history: some tick and player, and for them
          heard,     \*   the last confirmed input of the present owner,
          sent,      \*   and the commands appended by that owner
          quiet      \* history: slots whose owner has sent nothing yet

table == <<rows, live, frontier>>
history == <<watch, heard, sent, quiet>>
vars == <<table, history>>

bufSize == Cardinality(DOMAIN rows)

Resident(T) == At(rows, T).tick = T

Init ==
  /\ rows = EmptyRing
  /\ live = {}
  /\ frontier = 0
  /\ watch \in Tick \X Slot
  /\ heard = Empty /\ sent = <<>>
  /\ quiet = {}

-----------------------------------------------------------------------------
(* Inputs and commands *)

(* ecs_input_set *)
Set(s, T, v, conf) ==
  /\ s \in live /\ MayTouch(rows, frontier, T)
  /\ rows' = WithInput(rows, live, frontier, s, T, v, conf)
  /\ heard' = IF conf /\ watch = <<T, s>> THEN v ELSE heard
  /\ quiet' = quiet \ {s}
  /\ UNCHANGED <<live, frontier, watch, sent>>

(* A command of a registered type. *)
CmdAppend(s, T, c) ==
  LET ring == WithCommand(rows, live, frontier, s, T, c)
  IN /\ s \in live /\ T > frontier /\ MayTouch(rows, frontier, T)
     /\ Len(At(ring, T).cmds[s]) <= MaxCmds
     /\ rows' = ring
     /\ sent' = IF watch = <<T, s>> THEN Append(sent, c) ELSE sent
     /\ quiet' = quiet \ {s}
     /\ UNCHANGED <<live, frontier, watch, heard>>

-----------------------------------------------------------------------------
(* Membership, frontier, administration *)

(* ecs_input_alloc_slot *)
AllocSlot ==
  LET s == LowestFree(live)
  IN /\ live # Slot
     /\ live' = live \cup {s}
     /\ rows' = Joined(rows, s)
     /\ heard' = IF watch[2] = s THEN Empty ELSE heard
     /\ sent' = IF watch[2] = s THEN <<>> ELSE sent
     /\ quiet' = quiet \cup {s}
     /\ UNCHANGED <<frontier, watch>>

(* ecs_input_free_slot: the rows keep the column. *)
FreeSlot(s) ==
  /\ s \in live
  /\ live' = live \ {s}
  /\ UNCHANGED <<rows, frontier, history>>

(* ecs_input_clear empties the ring position of T, whatever tick it holds. *)
Clear(T) ==
  /\ rows' = [rows EXCEPT ![T % bufSize] = NoRow]
  /\ IF At(rows, T).tick = watch[1]
       THEN heard' = Empty /\ sent' = <<>> ELSE UNCHANGED <<heard, sent>>
  /\ UNCHANGED <<live, frontier, watch, quiet>>

(* ecs_input_advance_to_tick: the simulation seals everything up to T. *)
AdvanceToTick(T) ==
  /\ T >= frontier
  /\ frontier' = T
  /\ UNCHANGED <<rows, live, history>>

(* What the simulation reads of a tick and player: ecs_input_get_view, and the
   commands that ecs_input_cmd_iter_next yields. *)
NoView == [data |-> Empty, confirmed |-> FALSE]

View(T, s) ==
  IF Resident(T) /\ s \in live
    THEN [data |-> At(rows, T).input[s], confirmed |-> s \in At(rows, T).confirmed]
    ELSE NoView

Yielded(T, s) ==
  IF Resident(T) /\ s \in live THEN At(rows, T).cmds[s] ELSE <<>>

(* ecs_input_grow_buf *)
GrowBuf(size) ==
  /\ size \in Wider(rows)
  /\ rows' = Grown(rows, size)
  /\ UNCHANGED <<live, frontier, history>>

Next ==
  \/ \E s \in Slot, T \in Tick :
       \/ \E v \in Value, conf \in BOOLEAN : Set(s, T, v, conf)
       \/ \E c \in Command : CmdAppend(s, T, c)
  \/ AllocSlot
  \/ \E s \in Slot : FreeSlot(s)
  \/ \E T \in Tick : Clear(T) \/ AdvanceToTick(T)
  \/ \E size \in 1..BufMax : GrowBuf(size)

Spec == Init /\ [][Next]_vars

-----------------------------------------------------------------------------
(* Rows sit where their tick belongs, in a ring whose size is a doubling of
   the first one. *)
TypeOK == InPlace(rows) /\ live \subseteq Slot /\ frontier \in 0..MaxTick

(* What was heard for a tick that is not sealed is what the simulation reads
   for it, however the packets are ordered: no later prediction, no carry, no
   backfill, no growth of the ring and no other tick takes its place, and its
   commands stay in the order sent. *)
HeardIsKept ==
  LET T == watch[1]
      s == watch[2]
  IN T > frontier /\ s \in live =>
       /\ heard # Empty => View(T, s) = [data |-> heard, confirmed |-> TRUE]
       /\ sent # <<>> => Yielded(T, s) = sent

(* And nothing else passes for authoritative: an input reads as confirmed, and
   a command is yielded, only if it was received for that very tick and owner. *)
NothingMadeUp ==
  LET T == watch[1]
      s == watch[2]
  IN /\ View(T, s).confirmed => View(T, s).data = heard
     /\ IsPrefix(Yielded(T, s), sent)

(* A slot given to a new player holds nothing of the one before, neither in
   the rows that were resident when it changed hands nor by a carry from them:
   until he sends something there is nothing to be read. *)
RecycledIsClean ==
  \A T \in Tick, s \in quiet \cap live :
    View(T, s) = NoView /\ Yielded(T, s) = <<>>

(* No tick past the frontier leaves the ring but by ecs_input_clear. *)
NoLiveRowLost ==
  [][\A T \in Tick : T > frontier /\ Resident(T) =>
       Resident(T)' \/ \E P \in Tick : Clear(P)]_vars
=============================================================================
