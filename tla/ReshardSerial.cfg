SPECIFICATION FairSpec
CONSTANTS
  b1 = b1
  b2 = b2
  t1 = t1
  t2 = t2
  t3 = t3
  s1 = s1
  s2 = s2
  p1 = p1
  p2 = p2
  Shards = {s1, s2}
  Blocks = {b1, b2}
  Txs = {t1, t2, t3}
  Contents <- FewerRows
  Peers = {p1}
  PeerShards <- OnePeer
  ShardViews <- ThreeViews
  Handlers = {h1}
  PageSize = 1
  MaxArrivals = 1
  MaxChanges = 2
  MaxFailures = 1
  MaxCrashes = 1
  MaxDays = 2
INVARIANTS CurrentIsSaved
PROPERTIES ReshardsEnd ExpiredVanish ChangesAreTakenOver
CHECK_DEADLOCK FALSE
