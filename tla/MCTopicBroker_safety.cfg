SPECIFICATION BrokerSpec
CONSTANTS
  c1 = c1
  c2 = c2
  c3 = c3
  c4 = c4
  cpu = cpu
  mem = mem
  net = net
  Clients = {c1, c2, c3}
  Topics = {cpu, mem, net}
  NoName = NoName
  NoClient = NoClient
  TOPICS_MAX = 2
  PUBLISHERS_MAX = 1
  SUBSCRIBERS_MAX = 2
  Modes = {"SEQUENTIAL", "PARALLEL", "FAIR"}
  MAX_PUBLISHED = 2
SYMMETRY Symmetry
CHECK_DEADLOCK FALSE
INVARIANTS
  TopicInOneSlot
  ListedAreOpen
  EmptyTopicIsTransient
  ForwardedToListed
  DataWithoutGaps
PROPERTIES
  OnlyOwnRemoval
