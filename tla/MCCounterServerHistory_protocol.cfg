SPECIFICATION FairHistorySpec
CONSTANTS
  t1 = t1
  t2 = t2
  c1 = c1
  c2 = c2
  c3 = c3
  Threads = {t1, t2}
  Clients = {c1, c2, c3}
  NoClient = NoClient
  Backlog = 0
  Priorities = {1}
  Ratios = {1}
  Stored = {}
  Garbage = {0, 7}
  MaxCounter = 20
INVARIANTS
  OneThreadPerConnection
  IncrementAnswersDistinct
  AnswersNeverGoBack
PROPERTIES
  EveryRequestAnswered
