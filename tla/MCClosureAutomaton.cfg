CONSTANTS
  Places         <- NetPlaces
  Transitions    <- NetTransitions
  Incoming       <- NetIncoming
  Outgoing       <- NetOutgoing
  Bound          <- NetBound
  MinTime        <- NetMinTime
  MaxTime        <- NetMaxTime
  InputPlaces    = {"req"}
  OutputPlaces   = {"resp"}
  InitialMarking <- NetInitialMarking
  FinalMarkings  <- NetFinalMarkings
  MaxSize        <- NetMaxSize
  Label          <- NetLabel
  PlaceList      <- NetPlaceList
  TransitionList <- NetTransitionList
  MaxDepth       = 6
SPECIFICATION Spec
INVARIANTS
  NothingDangles
  TracksNet
  InventsNothing
  ResultIsComplete
  NeverThrowsTwice
PROPERTY ConstructionEnds
\* The construction ends.
CHECK_DEADLOCK FALSE
