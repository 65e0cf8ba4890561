\* A tree with two values and a tag tree, two slots: the bytes an iteration stored, and
\* blocks that hold an excluded component in part.
CONSTANTS
  Fan3 = {0}
  Fan2 = {0}
  Fan1 = {s1, s2}
  Value = {x, y}
  Zero = x
  Absent = Absent
  A = A
  B = B
  Component = {A, B}
  Tag = {B}
  Query <- TwoTrees
SPECIFICATION Spec
INVARIANTS
  YieldsMatches
  StoresAgree
CONSTRAINT MisreadEnds
SYMMETRY Alike
