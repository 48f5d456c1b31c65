CONSTANTS
  Places         <- NetPlaces
  Transitions    <- NetTransitions
  Incoming       <- NetIncoming
  Outgoing       <- NetOutgoing
  Bound          <- NetBound
  MinTime        <- NetMinTime
  MaxTime        <- NetMaxTime
  InputPlaces    = {"in"}
  OutputPlaces   = {}
  InitialMarking <- NetInitialMarking
  FinalMarkings  <- NetFinalMarkings
  MaxSize        <- NetMaxSize
  Horizon        = 5
SPECIFICATION StepsSpec
INVARIANTS
  TypeOK
  ClockMatchesTokens
  ClockWithinInterval
  NoTimelock
  TokensCovered
  ClockIsAge
  MissesNothing
PROPERTIES
  ImplementsAtomicFiring
  ClockSurvives
  ImplementsTimePetriNet
\* A state beyond a bound is never expanded.
CHECK_DEADLOCK FALSE
