SPECIFICATION Spec
CONSTANTS
  p1 = p1
  p2 = p2
  Peers = {p1, p2}
  ChannelSize = 1
  MaxView = 3
  MaxU64 = 4
  Message <- FewMessages
INVARIANTS
  TypeOK
  FreshMessagesLeave
  HandledAtMostOnce
PROPERTIES
  ImplementsNetwork
  DiscardedIsExpired
  GossipReachesWorkers
CHECK_DEADLOCK FALSE
