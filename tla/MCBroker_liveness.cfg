SPECIFICATION FairBrokerSpec
CONSTANTS
  p1 = p1
  p2 = p2
  s1 = s1
  s2 = s2
  cpu = cpu
  mem = mem
  Clients = {p1, s1, s2}
  Publishers = {p1}
  Mortal = {}
  Topics = {cpu}
  NoName = NoName
  NoClient = NoClient
  Fds = {4, 5, 6}
  TOPICS_MAX = 1
  PUBLISHERS_MAX = 1
  SUBSCRIBERS_MAX = 2
  MAX_PUBLISHED = 1
CHECK_DEADLOCK FALSE
PROPERTIES
  DataArrives
