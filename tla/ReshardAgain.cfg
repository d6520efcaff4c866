SPECIFICATION Spec
CONSTANTS
  b1 = b1
  b2 = b2
  t1 = t1
  t2 = t2
  t3 = t3
  s1 = s1
  s2 = s2
  p1 = p1
  p2 = p2
  Shards = {s1, s2}
  Blocks = {b2}
  Txs = {t1, t2, t3}
  Contents <- OneEach
  Peers = {p1, p2}
  PeerShards <- MCPeerShards
  ShardViews <- LessOrMore
  Handlers = {h1}
  PageSize = 2
  MaxArrivals = 0
  MaxChanges = 2
  MaxFailures = 0
  MaxCrashes = 0
  MaxDays = 2
PROPERTIES AssignedDataStays
CHECK_DEADLOCK FALSE
