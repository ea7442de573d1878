SPECIFICATION FairSpec
CONSTANTS
  Conns = {x1, x2, x3, x4}
  NoConn = NoConn
  Clients = {c1, c2}
  MinSize = 1
  MaxSize = 2
  MaxIdTime = 1
INVARIANTS QueueSound ProducerSleepsOnlyWhenReady
PROPERTIES SupplyFollowsDemand
CHECK_DEADLOCK FALSE
