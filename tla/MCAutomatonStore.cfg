CONSTANTS
  Names     = {a, b, c}
  Labels    = {x, empty}
  Addresses = {p, q, r}
SYMMETRY Symmetry
SPECIFICATION Spec
INVARIANTS
  StoresAgree
PROPERTIES
  EdgesStaySorted
  ImplementsGraph
\* A text has been read or refused.
CHECK_DEADLOCK FALSE
