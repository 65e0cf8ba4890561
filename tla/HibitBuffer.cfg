\* One leaf of two slots: a slot comes and goes in a node that is kept and in one that
\* is released; four addresses, one for each image.
CONSTANTS
  Fan3 = {a1}
  Fan2 = {b1}
  Fan1 = {c1, c2}
  Value = {null, p1, p2, p3, p4}
  Zero = null
  Absent = Absent
  Elem = {x, y}
  Free = Free
  MaxSize = 2
SPECIFICATION Spec
SYMMETRY Addresses
INVARIANTS
  TypeOK
  OwnedOnce
PROPERTIES
  ImplementsLists
