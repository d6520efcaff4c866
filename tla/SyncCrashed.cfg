SPECIFICATION FairSpec
CONSTANTS
  v1 = v1
  v2 = v2
  s1 = s1
  s2 = s2
  b1 = b1
  b2 = b2
  b3 = b3
  Views = {v1}
  Shards = {s1, s2}
  Blocks = {b1, b2, b3}
  ViewShards <- OneWide
  BlockShards <- MCBlockShards
  Listing <- OneListing
  PageSize = 1
  Faults <- NoFaults
  Retries = 0
  MaxRequests = 1
  MaxCrashes = 1
INVARIANT SyncedMeansStored
CHECK_DEADLOCK FALSE
