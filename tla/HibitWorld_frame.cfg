\* The documented order: run the pipeline, then roll back.
CONSTANTS
  Component = {p}
  Fan3 = {a1}
  Fan2 = {b1}
  Fan1 = {c1}
  Value = {x}
  Zero = x
  Absent = Absent
  MaxTick = 2
  Sent <- SameSlots
SPECIFICATION ServerSpec
PROPERTY ConfirmedFrameAdvances
