SPECIFICATION Spec
CONSTANTS
  t1 = t1
  t2 = t2
  t3 = t3
  Threads = {t1, t2, t3}
  Priorities = {0, 1}
  Ratios = {1}
  Stored = {6}
  Garbage = {0, 7}
  MaxCounter = 8
INVARIANTS
  CounterIsTheFilesValue
