\* Texts of up to ten tokens: a negated conjunction and a product over a sum, with every
\* limit of the compiler small enough to be passed.
CONSTANTS
  a = a
  b = b
  c = c
  Name = {a, b, c}
  Component = {a, b}
  MaxNodes = 8
  MaxTerms = 2
  MaxDnf = 3
  MaxClauses = 2
  MaxTokens = 10
SPECIFICATION Spec
INVARIANTS
  CompiledMeans
  RefusedForCause
SYMMETRY Alike
CHECK_DEADLOCK FALSE
