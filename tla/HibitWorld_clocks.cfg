\* Two components of two slots in one L1 node each: calls on one slot disturb the masks
\* that carry the news of the other, and a rollback asks every tree.
CONSTANTS
  Component = {p, q}
  Fan3 = {a1}
  Fan2 = {b1}
  Fan1 = {c1, c2}
  Value = {x}
  Zero = x
  Absent = Absent
  MaxTick = 2
  Sent <- SameSlots
SPECIFICATION Spec
SYMMETRY Positions
INVARIANT TypeOK
PROPERTIES
  AdvanceIsJustified
  FreshWriteAdvances
  SpeculationIsolated
  LoadStartsOver
