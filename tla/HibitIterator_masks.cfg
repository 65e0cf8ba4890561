\* One tree with two L1 nodes of two slots: flush and propagation at every level.
CONSTANTS
  Fan3 = {0}
  Fan2 = {0, 1}
  Fan1 = {0, 1}
  Value = {x}
  Zero = x
  Absent = Absent
  A = A
  B = B
  Component = {A}
  Tag = {}
  Query <- OneTree
SPECIFICATION Spec
INVARIANTS
  TypeOK
  SummariesExact
PROPERTIES
  RollbackSettles
  IterationEnds
CONSTRAINT MisreadEnds
