CONSTANTS
  Pairs        <- SmallPairs
  Unobservable = ""
SPECIFICATION Spec
INVARIANTS
  AcceptedIsSimulation
  RejectedIsJust
\* The check ends.
CHECK_DEADLOCK FALSE
