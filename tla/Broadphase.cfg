\* Nodes of three lanes and up to ten items: trees of three levels whose last nodes are
\* not full, a query that keeps siblings waiting on both, and a growth of the arrays.
CONSTANTS
  Fan = 3
  FirstCap = 6
  Box <- Items
  Probe <- Probes
  Code <- RightFirst
  MaxItems = 10
SPECIFICATION Spec
INVARIANTS
  YieldsOverlaps
  NodesFit
  StackBounded
PROPERTIES
  QueryEnds
