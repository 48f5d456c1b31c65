CONSTANTS
  Names     = {a, b, c}
  Labels    = {x, empty}
  Addresses = {p, q, r}
SYMMETRY Symmetry
SPECIFICATION Spec
INVARIANT
  UnknownIsRefused
CHECK_DEADLOCK FALSE
