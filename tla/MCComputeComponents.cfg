CONSTANTS
  EmptyState = "none"
  Automata   <- SmallGraphs
SPECIFICATION PassSpec
INVARIANTS
  ResultIsComponents
  SuccessorsFirst
\* The search ends.
CHECK_DEADLOCK FALSE
