SPECIFICATION Spec
CONSTANTS
  c1 = c1
  c2 = c2
  c3 = c3
  c4 = c4
  c5 = c5
  cpu = cpu
  mem = mem
  net = net
  Clients = {c1, c2, c3, c4, c5}
  Topics = {cpu, mem, net}
  NoName = NoName
  TOPICS_MAX = 2
  PUBLISHERS_MAX = 2
  SUBSCRIBERS_MAX = 3
SYMMETRY Symmetry
CHECK_DEADLOCK FALSE
INVARIANTS
  GetSubscribersComplete
