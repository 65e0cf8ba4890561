\* Two players, two ticks, rings of one row that may double.
CONSTANTS
  PlayerMax = 2
  BufInit = 1
  BufMax = 2
  MaxTick = 2
  MaxCmds = 1
  Value = {z, x}
  Zero = z
  Moves = {x}
  Empty = Empty
  Command = {c}
  Redundancy = 1
  HeaderBits = 46
  ValueBits = 8
  CommandBits = 17
  Mtu = 120
SPECIFICATION PeersSpec
INVARIANTS
  PeersTypeOK
  ReceivedIsSealed
  SameWire
PROPERTIES
  FinalIsShared
CHECK_DEADLOCK FALSE
