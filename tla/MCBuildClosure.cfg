CONSTANTS
  Places         <- NetPlaces
  Transitions    <- NetTransitions
  Incoming       <- NetIncoming
  Outgoing       <- NetOutgoing
  Bound          <- NetBound
  MinTime        <- NetMinTime
  MaxTime        <- NetMaxTime
  InputPlaces    = {"in"}
  OutputPlaces   = {}
  InitialMarking <- NetInitialMarking
  FinalMarkings  <- NetFinalMarkings
  MaxSize        <- NetMaxSize
  Label          <- NetLabel
  PlaceList      <- NetPlaceList
  TransitionList <- NetTransitionList
  SeedSets       <- NetSeedSets
  MaxDepth       = 6
SPECIFICATION BuildSpec
INVARIANTS
  ClosureIsExact
  LoopMeansMetTwice
  OrderIrrelevant
PROPERTY BuildEnds
\* buildClosure returns.
CHECK_DEADLOCK FALSE
