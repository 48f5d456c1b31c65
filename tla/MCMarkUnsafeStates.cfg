CONSTANTS
  EmptyState = "empty"
  Automata   <- TwoOrThreeStateAutomata
SPECIFICATION Spec
INVARIANTS
  SafeIsDeserved
  OrderIrrelevant
  ServiceKeepsItsActions
  ReachableStatesStay
PROPERTIES
  VerdictStays
  FilteringEnds
\* The filters end.
CHECK_DEADLOCK FALSE
