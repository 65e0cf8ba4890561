\* One player and a ring of two rows that may double once: gaps of several ticks, growth,
\* and positions of the small ring used by two ticks.
CONSTANTS
  PlayerMax = 1
  BufInit = 2
  BufMax = 4
  MaxTick = 4
  MaxCmds = 1
  Value = {x, y}
  Empty = Empty
  Command = {c}
SPECIFICATION Spec
SYMMETRY Bytes
INVARIANTS
  TypeOK
  HeardIsKept
  NothingMadeUp
  RecycledIsClean
PROPERTIES
  NoLiveRowLost
