CONSTANTS
  Places         <- NetPlaces
  Transitions    <- NetTransitions
  Incoming       <- NetIncoming
  Outgoing       <- NetOutgoing
  Bound          <- NetBound
  MinTime        <- NetMinTime
  MaxTime        <- NetMaxTime
  InputPlaces    = {"in"}
  OutputPlaces   = {}
  InitialMarking <- NetInitialMarking
  FinalMarkings  <- NetFinalMarkings
  MaxSize        <- NetMaxSize
  Label          <- NetLabel
  TransitionList <- NetTransitionList
  Violation      = beyond
SPECIFICATION Spec
INVARIANTS
  CallersWait
  BehaviorIsExact
\* The construction ends.
CHECK_DEADLOCK FALSE
