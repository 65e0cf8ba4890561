----------------------------- MODULE InputSync -----------------------------
(***************************************************************************)
(* Input packets (ecs_input_serialize_tick, ecs_input_deserialize_tick)    *)
(* from a server to a client over a network that loses, duplicates and     *)
(* reorders them.  Each peer has an input table of its own.                *)
(*                                                                         *)
(* The server collects the inputs of a tick, seals it, filling in zeros    *)
(* for the players it has not heard of, and from then on sends packets of  *)
(* it that repeat the Redundancy ticks before.  The client predicts, takes *)
(* packets in, and seals a tick once all of its inputs are confirmed.      *)
(***************************************************************************)
EXTENDS InputRows

CONSTANTS Zero,        \* stride zero bytes
          Moves,       \* the inputs that players make
          Redundancy,  \* ticks repeated in a packet, the caller's choice
          Mtu,         \* bits of a packet
          HeaderBits, ValueBits, CommandBits

Same == "same"  \* on the wire, a flag: the value of the entry before

ASSUME ValueAssumption == Zero \in Value /\ Moves \subseteq Value
ASSUME SameAssumption == Same \notin Value
ASSUME PacketAssumption == Redundancy \in 0..15 /\ Mtu \in Nat \ {0}
ASSUME BitsAssumption == HeaderBits \in Nat /\ ValueBits \in Nat /\ CommandBits \in Nat

VARIABLES serverRows, clientRows, clientLive, clientFrontier,
          net,     \* the packets sent; the network may deliver any, at any time
          sealed,  \* history: what the server sealed, tick after tick
          zeroed,  \* history: ticks that came in a packet made without them
          doubled  \* history: ticks of the packets that made the client's ring grow

server == <<serverRows, sealed, net>>
client == <<clientRows, clientLive, clientFrontier, zeroed, doubled>>
peers == <<server, client>>

(* ecs_input_set on either side.  All players are in at the server, which seals
   tick by tick. *)
ServerInput(ring, s, T, v) ==
  WithInput(ring, Slot, Len(sealed), s, T, v, TRUE)

ClientInput(ring, s, T, v, conf) ==
  WithInput(ring, clientLive, clientFrontier, s, T, v, conf)

PeersInit ==
  /\ serverRows = EmptyRing
  /\ clientRows = EmptyRing /\ clientLive = {} /\ clientFrontier = 0
  /\ net = {} /\ sealed = <<>>
  /\ zeroed = {} /\ doubled = {}

-----------------------------------------------------------------------------
(* Encoding.  A player's block lists the ticks T, T - 1, ... of the cascade;
   each entry has the raw value, or Same as the entry before (Zero before the
   first), and the commands.  A player with no data has no block: one gate
   bit is sent for him, the empty sequence here. *)

Back == 0..Redundancy  \* how far back from T an entry is

(* The row of tick T - r, if the ring holds it. *)
Holds(ring, T, r) == r < T /\ At(ring, T - r).tick = T - r

(* Mutant: the floor at tick 1 is missing. *)
Cell_NoFloor(ring, T, r, s) ==
  LET row == At(ring, T - r)
  IN IF row.input[s] # Empty THEN row.input[s] ELSE Zero

(* in_resolve_cascade_slot: what is not in the ring counts as zero. *)
Cell(ring, T, r, s) ==
  IF Holds(ring, T, r) /\ At(ring, T - r).input[s] # Empty
    THEN At(ring, T - r).input[s] ELSE Zero

Commands(ring, T, r, s) ==
  IF Holds(ring, T, r) THEN At(ring, T - r).cmds[s] ELSE <<>>

(* in_slot_has_any_data *)
HasData(ring, T, s) ==
  \E r \in Back : Cell(ring, T, r, s) # Zero \/ Commands(ring, T, r, s) # <<>>

Raw(ring, T, r, s) ==
  LET before == IF r = 0 THEN Zero ELSE Cell(ring, T, r - 1, s)
  IN IF Cell(ring, T, r, s) = before THEN Same ELSE Cell(ring, T, r, s)

(* Mutant: no entries for the ticks below 1. *)
Block_StopsAtOne(ring, T, s) ==
  IF ~ HasData(ring, T, s) THEN <<>>
  ELSE [e \in 1..Min({Redundancy + 1, T}) |->
          [raw |-> Raw(ring, T, e - 1, s), cmds |-> Commands(ring, T, e - 1, s)]]

(* The body of a player's block, an entry for every tick of the cascade. *)
Block(ring, T, s) ==
  IF ~ HasData(ring, T, s) THEN <<>>
  ELSE [e \in 1..Redundancy + 1 |->
          [raw |-> Raw(ring, T, e - 1, s), cmds |-> Commands(ring, T, e - 1, s)]]

(* Two flags per entry, then what follows them; one gate bit per player. *)
Bits(block) ==
  1 + MapThenSumSet(LAMBDA e : 2 + (IF block[e].raw = Same THEN 0 ELSE ValueBits)
                                 + Len(block[e].cmds) * CommandBits,
                    DOMAIN block)

Fits(block, n) ==
  HeaderBits + MapThenSumSet(LAMBDA m : Bits(block[m]), 1..n) <= Mtu

(* The players from slot 0 on whose blocks fit. *)
Fitted(T, block) ==
  LET fit == Max({0} \cup {n \in 1..PlayerMax : Fits(block, n)})
  IN [tick |-> T, blocks |-> [n \in 1..fit |-> block[n]]]

(* ecs_input_serialize_tick *)
Packet(ring, T) == Fitted(T, [n \in 1..PlayerMax |-> Block(ring, T, n - 1)])

-----------------------------------------------------------------------------
(* Decoding and applying *)

(* Mutant: an unchanged value is taken for zero. *)
Decoded_FromBaseline(block, r) ==
  IF block[r + 1].raw = Same THEN Zero ELSE block[r + 1].raw

(* The value r ticks back: the last one that was sent raw. *)
Decoded(block, r) ==
  LET raw == {q \in 0..r : block[q + 1].raw # Same}
  IN IF raw = {} THEN Zero ELSE block[Max(raw) + 1].raw

(* ecs_input_cmd_append of each command of an entry. *)
WithChain(ring, s, P, cmds) ==
  LET chain[x \in 0..Len(cmds)] ==
        IF x = 0 THEN ring
        ELSE WithCommand(chain[x - 1], clientLive, clientFrontier, s, P, cmds[x])
  IN chain[Len(cmds)]

(* Mutant: commands are appended whatever is there. *)
Entered_Again(acc, block, T, s, r) ==
  LET input == ClientInput(acc.ring, s, T - r, Decoded(block, r), TRUE)
  IN [ring |-> WithChain(input, s, T - r, block[r + 1].cmds),
      ok |-> acc.ok /\ MayTouch(acc.ring, clientFrontier, T - r)]

(* One entry of a block: the input is written as confirmed, and the commands
   appended unless the player has some at that tick, from an earlier packet.
   That is read off before the input is written, at the position tick T - r had
   when the packet came in: the code keeps buf_mask in a local.  ok: no
   assertion failed. *)
Entered(acc, block, T, s, r) ==
  LET row == acc.ring[(T - r) % Cardinality(DOMAIN clientRows)]
      known == row.tick = T - r /\ row.cmds[s] # <<>>
      input == ClientInput(acc.ring, s, T - r, Decoded(block, r), TRUE)
  IN [ring |-> IF known THEN input
               ELSE WithChain(input, s, T - r, block[r + 1].cmds),
      ok |-> acc.ok /\ MayTouch(acc.ring, clientFrontier, T - r)]

(* A block: entries below tick 1 are read and dropped. *)
BlockEntered(first, block, T, s) ==
  LET last == Min({Len(block), T})
      acc[e \in 0..last] ==
        IF e = 0 THEN first ELSE Entered(acc[e - 1], block, T, s, e - 1)
  IN acc[last]

(* ecs_input_deserialize_tick: blocks of players who are not in are read and
   dropped. *)
Received(p) ==
  LET acc[n \in 0..Len(p.blocks)] ==
        IF n = 0 THEN [ring |-> clientRows, ok |-> TRUE]
        ELSE IF n - 1 \in clientLive
               THEN BlockEntered(acc[n - 1], p.blocks[n], p.tick, n - 1)
        ELSE acc[n - 1]
  IN acc[Len(p.blocks)]

-----------------------------------------------------------------------------
(* The server *)

(* A confirmed input, or a command, of a tick that is still open. *)
ServerSet(s, T, v) ==
  /\ T > Len(sealed) /\ MayTouch(serverRows, Len(sealed), T)
  /\ serverRows' = ServerInput(serverRows, s, T, v)
  /\ UNCHANGED <<client, sealed, net>>

ServerCommand(s, T, c) ==
  LET ring == WithCommand(serverRows, Slot, Len(sealed), s, T, c)
  IN /\ T > Len(sealed) /\ MayTouch(serverRows, Len(sealed), T)
     /\ Len(At(ring, T).cmds[s]) <= MaxCmds
     /\ serverRows' = ring
     /\ UNCHANGED <<client, sealed, net>>

(* A missing input becomes a confirmed zero. *)
Provided(ring, s, T) ==
  IF At(ring, T).tick = T /\ s \in At(ring, T).confirmed THEN ring
  ELSE ServerInput(ring, s, T, Zero)

AllProvided(T) ==
  LET ring[n \in 0..PlayerMax] ==
        IF n = 0 THEN serverRows ELSE Provided(ring[n - 1], n - 1, T)
  IN ring[PlayerMax]

(* ecs_input_advance_to_tick *)
ServerSeal ==
  LET T == Len(sealed) + 1
      ring == AllProvided(T)
  IN /\ T \in Tick
     /\ serverRows' = ring
     /\ sealed' = Append(sealed, [input |-> At(ring, T).input,
                                  cmds |-> At(ring, T).cmds])
     /\ UNCHANGED <<client, net>>

(* The ticks of the cascade that the ring does not hold any more. *)
Missing(ring, T) == {T - r : r \in {x \in Back : x < T /\ ~ Holds(ring, T, x)}}

(* A sealed tick is sent, as often as the server likes and however old it is.
   What the ring had lost of it is history, and not in the packet. *)
ServerSend(T) ==
  /\ T <= Len(sealed)
  /\ net' = net \cup {[packet |-> Packet(serverRows, T), lost |-> Missing(serverRows, T)]}
  /\ UNCHANGED <<serverRows, client, sealed>>

-----------------------------------------------------------------------------
(* The client *)

(* ecs_input_alloc_slot: the next player joins. *)
Join ==
  LET s == LowestFree(clientLive)
  IN /\ clientLive # Slot
     /\ clientLive' = clientLive \cup {s}
     /\ clientRows' = Joined(clientRows, s)
     /\ UNCHANGED <<server, clientFrontier, zeroed, doubled>>

(* A predicted input. *)
Predict(s, T, v) ==
  /\ s \in clientLive /\ T > clientFrontier /\ MayTouch(clientRows, clientFrontier, T)
  /\ clientRows' = ClientInput(clientRows, s, T, v, FALSE)
  /\ UNCHANGED <<server, clientLive, clientFrontier, zeroed, doubled>>

(* The ring stays as wide as it is while the packet is taken in. *)
Roomy(p) == Cardinality(DOMAIN Received(p).ring) =
              Cardinality(DOMAIN clientRows)

Cascade(T) == {T - r : r \in {x \in Back : x < T}}

(* The program stops in ecs_input_set if an assertion fails. *)
Receive(p, lost) ==
  LET result == Received(p)
  IN /\ result.ok
     /\ clientRows' = result.ring
     /\ zeroed' = zeroed \cup lost
     /\ doubled' = IF Roomy(p) THEN doubled ELSE doubled \cup Cascade(p.tick)
     /\ UNCHANGED <<server, clientLive, clientFrontier>>

(* ecs_input_grow_buf *)
ClientGrow(size) ==
  /\ size \in Wider(clientRows)
  /\ clientRows' = Grown(clientRows, size)
  /\ UNCHANGED <<server, clientLive, clientFrontier, zeroed, doubled>>

(* The simulation goes on when the next tick is confirmed. *)
ClientSeal ==
  /\ clientFrontier + 1 \in Tick
  /\ TickConfirmed(clientRows, clientLive, clientFrontier, clientFrontier + 1)
  /\ clientFrontier' = clientFrontier + 1
  /\ UNCHANGED <<server, clientRows, clientLive, zeroed, doubled>>

PeersNext ==
  \/ \E s \in Slot, T \in Tick :
       \/ \E v \in Moves : ServerSet(s, T, v) \/ Predict(s, T, v)
       \/ \E c \in Command : ServerCommand(s, T, c)
  \/ ServerSeal \/ \E T \in Tick : ServerSend(T)
  \/ Join \/ ClientSeal
  \/ \E size \in 1..BufMax : ClientGrow(size)
  \/ \E m \in net : Receive(m.packet, m.lost)

PeersSpec == PeersInit /\ [][PeersNext]_peers

-----------------------------------------------------------------------------
(* Packets carry one entry per tick of the cascade for a player with data;
   rows sit where they belong in both tables. *)
PeersTypeOK ==
  /\ InPlace(serverRows) /\ InPlace(clientRows)
  /\ clientLive \subseteq Slot /\ clientFrontier \in 0..MaxTick
  /\ sealed \in Seq([input : [Slot -> Value], cmds : [Slot -> Seq(Command)]])
  /\ zeroed \subseteq 1..Len(sealed) /\ doubled \subseteq 1..Len(sealed)
  /\ \A m \in net :
       LET p == m.packet
       IN /\ p.tick \in 1..Len(sealed) /\ Len(p.blocks) <= PlayerMax
          /\ m.lost \subseteq 1..p.tick
          /\ \A n \in DOMAIN p.blocks :
               Len(p.blocks[n]) \in {0, Redundancy + 1}

(* What the client takes for confirmed is what the server sealed, and of the
   commands it has none or all of them, once each and in order: whichever
   packets arrive, however often, in whatever order, among predictions and
   over rows that the ring has grown, carried or filled backward.  Nothing is
   excused but what these two bring about.  A packet made after the server's
   ring had lost a tick says zero of it, and the zero is confirmed.  A packet
   that makes the client's ring grow has the commands of its ticks looked for
   in the wrong row, and they may be appended a second time. *)
ReceivedIsSealed ==
  \A T \in Tick, s \in clientLive :
    LET row == At(clientRows, T)
    IN row.tick = T =>
         /\ s \in row.confirmed =>
              /\ T <= Len(sealed)
              /\ row.input[s] # sealed[T].input[s] => T \in zeroed /\ row.input[s] = Zero
         /\ row.cmds[s] # <<>> =>
              /\ T <= Len(sealed)
              /\ row.cmds[s] # sealed[T].cmds[s] => T \in doubled

(* "Every packet for a given tick is the same authoritative set" (input.h),
   which the client's test for commands it already has relies on: packets of a
   tick differ in nothing but what the server's ring had lost of its cascade,
   whatever the server took in or evicted, and however its ring grew, between
   sending one and the other. *)
SameWire == \A p, q \in net : p.packet.tick = q.packet.tick /\ p.lost = q.lost => p = q

(* A tick that the client seals is the tick that the server sealed: every
   player's input and every command, none missing, but for a tick that came
   in a packet made without it, or that made the client's ring grow. *)
FinalIsShared ==
  [][clientFrontier' > clientFrontier =>
       LET T == clientFrontier'
           row == At(clientRows, T)
       IN \A s \in clientLive :
            /\ row.input[s] # sealed[T].input[s] => T \in zeroed /\ row.input[s] = Zero
            /\ row.cmds[s] # sealed[T].cmds[s] => T \in zeroed \cup doubled]_peers
=============================================================================
