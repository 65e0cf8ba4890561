\* Three L1 nodes of one slot and two values: nodes come and go beside others, an
\* any-bit differs from an all-bit, stale bytes differ from fresh ones.
CONSTANTS
  Fan3 = {a1}
  Fan2 = {b1, b2, b3}
  Fan1 = {c1}
  Value = {x, y}
  Zero = x
  Absent = Absent
SPECIFICATION Spec
SYMMETRY Positions
INVARIANTS
  TypeOK
  TreeWellFormed
  WalksReachAll
  NoNodeLost
  ChecksumIsView
  SnapshotIsConfirmed
PROPERTIES
  RollbackClearsTick
  ImplementsStore
