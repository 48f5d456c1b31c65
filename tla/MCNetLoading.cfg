CONSTANTS
  PlaceNames      = {"a", "b"}
  TransitionNames = {"u", "tb"}
  Bounds          = {1}
  Intervals       <- SomeIntervals
  Tokens          = {0, 1}
  MaxArcs         = 2
  MaxSize         = 7
  PartnerName     <- NamesOfPartners
SPECIFICATION LoadSpec
INVARIANTS
  ArcsAgree
  LoadedNetIsSound
  MaximalNetIsExact
\* A net is refused, closed, or left with nothing to delete.
CHECK_DEADLOCK FALSE
