SPECIFICATION ThreadServersSpec
CONSTANTS
  CLIENTS = 3
  N_THREADS = 3
  MAX_KILLED = 1
  Fds = {4, 5, 6}
  MAX_THREADS = 2
  Stored = 6
  Requests <- MCRequests
  Versions = {"Practica1", "RP1", "Practica3"}
CHECK_DEADLOCK FALSE
INVARIANTS
  ServesOwnOrLater
  DescriptorsHeld
  OwnUnlessRaced
  SemaphoreCounts
  CounterIsExact
PROPERTIES
  AnsweredUnlessRaced
  Practica1ClientsEnd
