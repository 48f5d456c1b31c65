CONSTANTS
  EmptyState = "empty"
  Automata   <- TwoStateAutomata
SPECIFICATION Spec
INVARIANT SetSafeOnce
CHECK_DEADLOCK FALSE
