SPECIFICATION FairSpec
CHECK_DEADLOCK FALSE
INVARIANTS
  ClockTellsPhase
  NothingUnexpected
PROPERTIES
  NobodyHangs
  ImplementsOrderedShutdown
