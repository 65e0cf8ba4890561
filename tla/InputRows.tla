----------------------------- MODULE InputRows -----------------------------
(***************************************************************************)
(* The table of player inputs (ecs_input_t) as a value: a ring of rows,    *)
(* one per tick, and what the calls of input.c do to it.                   *)
(*                                                                         *)
(* A row's bitmaps and cells are one function here: an input that is not   *)
(* present is Empty, and the bytes below it are never read.  A command     *)
(* chain in the row's arena is the sequence of its commands.  The ring is  *)
(* a function on 0..buf_size - 1.                                          *)
(***************************************************************************)
EXTENDS Naturals, SequencesExt

CONSTANTS PlayerMax,  \* ECS_INPUT_PLAYER_MAX
          BufInit,    \* buf_size given to ecs_input_init
          BufMax,     \* ECS_INPUT_BUFSIZE_MAX
          Value,      \* stride bytes of input
          Empty,      \* no input: the present bit is clear
          Command,    \* type id and payload
          MaxTick,    \* bound on ticks (32-bit in the code)
          MaxCmds     \* bound on the commands of one tick and player

(* No divisor but 1 is odd. *)
PowerOfTwo(n) == \A d \in 2..n : n % d = 0 => d % 2 = 0

(* n doubled any number of times, up to the cap, which is itself one of them:
   between powers of two, a doubling is a multiple. *)
Doubled(n) == {m \in n..BufMax : m % n = 0 /\ BufMax % m = 0}

ASSUME PlayerAssumption == PlayerMax \in Nat \ {0}
ASSUME BufAssumption == /\ BufInit \in Nat \ {0} /\ BufMax \in Nat \ {0}
                        /\ PowerOfTwo(BufMax) /\ BufMax % BufInit = 0
ASSUME EmptyAssumption == Empty \notin Value
ASSUME TickAssumption == MaxTick \in Nat /\ MaxCmds \in Nat

Slot == 0..PlayerMax - 1
Tick == 1..MaxTick  \* 0 is the sentinel "no frontier"
Nil == 0            \* ECS_INPUT_TICK_NIL: no tick has this number here

Row == [tick : Tick \cup {Nil}, input : [Slot -> Value \cup {Empty}],
        confirmed : SUBSET Slot, cmds : [Slot -> Seq(Command)]]

NoRow == [tick |-> Nil, input |-> [s \in Slot |-> Empty], confirmed |-> {},
          cmds |-> [s \in Slot |-> <<>>]]

EmptyRing == [t \in 0..BufInit - 1 |-> NoRow]

(* The row at the position of tick T, which may be that of another tick. *)
At(ring, T) == ring[T % Cardinality(DOMAIN ring)]

(* Rows sit where their tick belongs, in a ring whose size is a doubling of
   the first one. *)
InPlace(ring) ==
  LET size == Cardinality(DOMAIN ring)
  IN /\ size \in Doubled(BufInit)
     /\ ring \in [0..size - 1 -> Row]
     /\ \A t \in DOMAIN ring : ring[t].tick # Nil => ring[t].tick % size = t

-----------------------------------------------------------------------------
(* What the calls do to the ring.  players: who is in (live_bm); upto: the
   frontier up to which ticks are sealed (confirmed_frontier). *)

(* Mutant: what was confirmed for T - 1 is taken for confirmed at T. *)
Advanced_CarriesConfirmed(ring, players, T) ==
  LET prev == At(ring, T - 1)
      Carried(s) == T > 1 /\ prev.tick = T - 1 /\ s \in players
  IN [NoRow EXCEPT
        !.tick = T,
        !.input = [s \in Slot |-> IF Carried(s) THEN prev.input[s] ELSE Empty],
        !.confirmed = {s \in prev.confirmed : Carried(s)}]

(* in_advance_row: the inputs of live players at T - 1 are predicted for T;
   commands are never carried. *)
Advanced(ring, players, T) ==
  LET prev == At(ring, T - 1)
      Carried(s) == T > 1 /\ prev.tick = T - 1 /\ s \in players
  IN [NoRow EXCEPT
        !.tick = T,
        !.input = [s \in Slot |-> IF Carried(s) THEN prev.input[s] ELSE Empty]]

(* Mutant: the rows stay at their positions. *)
Grown_InPlace(ring, size) ==
  [t \in 0..size - 1 |-> IF t \in DOMAIN ring THEN ring[t] ELSE NoRow]

(* in_realloc_table: every resident row moves to its place in a wider ring. *)
Grown(ring, size) ==
  [t \in 0..size - 1 |->
     IF \E r \in DOMAIN ring : ring[r].tick # Nil /\ ring[r].tick % size = t
       THEN ring[CHOOSE r \in DOMAIN ring :
                   ring[r].tick # Nil /\ ring[r].tick % size = t]
       ELSE NoRow]

Distance(a, b) == IF a > b THEN a - b ELSE b - a

(* Mutant: off by one. *)
SizeFor_OffByOne(size, a, b) == Min({n \in Doubled(size) : n >= Distance(a, b)})

(* The size that keeps two ticks apart: the first doubling past their
   distance. *)
SizeFor(size, a, b) == Min({n \in Doubled(size) : n > Distance(a, b)})

(* The gate of ecs_input_set and ecs_input_cmd_append: a first touch never
   evicts a tick past the frontier if the ring may still grow. *)
MakeRoom(ring, upto, T) ==
  LET prev == At(ring, T).tick
      evicts == prev # Nil /\ prev # T /\ prev > upto
      size == SizeFor(Cardinality(DOMAIN ring), T, prev)
  IN IF evicts /\ Distance(T, prev) < BufMax /\ size <= BufMax
       THEN Grown(ring, size) ELSE ring

(* First touch: the row of tick T, advanced from the tick before it. *)
Touched(ring, players, T) ==
  IF At(ring, T).tick = T THEN ring
  ELSE [ring EXCEPT ![T % Cardinality(DOMAIN ring)] = Advanced(ring, players, T)]

(* The code asserts that a tick that is not resident is not sealed, and asks
   for a resync when a tick is too far from one it still needs. *)
MayTouch(ring, upto, T) ==
  /\ At(ring, T).tick = T \/ T > upto
  /\ \A r \in DOMAIN ring :
       ring[r].tick > upto => Distance(T, ring[r].tick) < BufMax

-----------------------------------------------------------------------------
(* ecs_input_set *)

(* Mutant: the fill does not stop at an input that is already there. *)
Open_Overwrites(ring, upto, s, T) ==
  LET row == At(ring, T)
  IN row.tick = T \/ row.tick = Nil \/ row.tick <= upto

(* The past ticks, back from T, whose rows may take player s's input as a
   prediction: rows without one, and rows that nobody needs any more. *)
Open(ring, upto, s, T) ==
  LET row == At(ring, T)
  IN IF row.tick = T THEN row.input[s] = Empty
                     ELSE row.tick = Nil \/ row.tick <= upto

Gap(ring, upto, s, T) ==
  LET reach == {P \in 1..T - 1 : P > upto /\ T - P < Cardinality(DOMAIN ring)}
  IN {P \in reach : \A Q \in P..T - 1 : Open(ring, upto, s, Q)}

Stored(ring, s, T, v, conf) ==
  LET row == At(ring, T)
  IN [ring EXCEPT ![T % Cardinality(DOMAIN ring)] =
        [row EXCEPT !.input[s] = v,
                    !.confirmed = IF conf THEN @ \cup {s} ELSE @]]

Backfilled(ring, players, upto, s, T, v) ==
  LET Source(t) == {P \in Gap(ring, upto, s, T) : P % Cardinality(DOMAIN ring) = t}
      Filled(P) == IF At(ring, P).tick = P THEN At(ring, P)
                   ELSE Advanced(ring, players, P)
  IN [t \in DOMAIN ring |->
        IF Source(t) = {} THEN ring[t]
        ELSE [Filled(Min(Source(t))) EXCEPT !.input[s] = v]]

(* What ecs_input_set does to the ring; a prediction never replaces a
   confirmed input. *)
WithInput(old, players, upto, s, T, v, conf) ==
  LET ring == Touched(MakeRoom(old, upto, T), players, T)
      kept == ~ conf /\ s \in At(ring, T).confirmed
  IN IF kept THEN ring
     ELSE Backfilled(Stored(ring, s, T, v, conf), players, upto, s, T, v)

(* What ecs_input_cmd_append does to the ring; a sealed tick drops it. *)
WithCommand(old, players, upto, s, T, c) ==
  LET ring == Touched(MakeRoom(old, upto, T), players, T)
  IN IF T <= upto THEN old
     ELSE [ring EXCEPT ![T % Cardinality(DOMAIN ring)].cmds[s] = Append(@, c)]

-----------------------------------------------------------------------------
(* Players and ticks *)

(* in_find_free_slot *)
LowestFree(players) == Min(Slot \ players)

(* Mutant: the commands of the column are left. *)
Scrubbed_KeepsCmds(row, s) ==
  IF row.tick = Nil THEN row
  ELSE [row EXCEPT !.input[s] = Empty, !.confirmed = @ \ {s}]

(* A recycled column is scrubbed in every resident row. *)
Scrubbed(row, s) ==
  IF row.tick = Nil THEN row
  ELSE [row EXCEPT !.input[s] = Empty, !.confirmed = @ \ {s}, !.cmds[s] = <<>>]

Joined(ring, s) == [t \in DOMAIN ring |-> Scrubbed(ring[t], s)]

(* in_tick_all_confirmed: players who are gone do not count. *)
AllConfirmed(row, players) == players \subseteq row.confirmed

(* ecs_input_tick_confirmed: nothing more has to arrive for T. *)
TickConfirmed(ring, players, upto, T) ==
  \/ T <= upto \/ players = {}
  \/ At(ring, T).tick = T /\ AllConfirmed(At(ring, T), players)

(* ecs_input_grow_buf: the sizes it may be given, below the cap it asserts. *)
Wider(ring) ==
  {n \in Doubled(Cardinality(DOMAIN ring)) : n > Cardinality(DOMAIN ring)}
=============================================================================
