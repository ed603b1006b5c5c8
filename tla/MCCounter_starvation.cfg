SPECIFICATION FairMutexSpec
CONSTANTS
  t1 = t1
  t2 = t2
  t3 = t3
  Threads = {t1, t2, t3}
  Priorities = {1}
  Ratios = {1}
  Stored = {1}
  Garbage = {0}
  MaxCounter = 2
PROPERTIES
  NoWriterStarves
