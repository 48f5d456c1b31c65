CONSTANTS
  EmptyState = "empty"
  Automata   <- SmallAutomata
SPECIFICATION RegionSpec
INVARIANTS
  VisitedMeansOneRegion
  RegionsAreExact
\* The construction ends.
CHECK_DEADLOCK FALSE
