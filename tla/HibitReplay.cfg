\* Two slots of one L1 node and two values: scripts that write, overwrite and remove.
CONSTANTS
  Fan3 = {a1}
  Fan2 = {b1}
  Fan1 = {c1, c2}
  Value = {x, y}
  Zero = x
  Absent = Absent
  MaxScript = 3
SPECIFICATION Spec
SYMMETRY Positions
INVARIANTS
  ReplayAgrees
