SPECIFICATION FairSpec
CONSTANTS
  v1 = v1
  v2 = v2
  s1 = s1
  s2 = s2
  b1 = b1
  b2 = b2
  b3 = b3
  Views = {v1, v2}
  Shards = {s1, s2}
  Blocks = {b2, b3}
  ViewShards <- BothShards
  BlockShards <- MCBlockShards
  Listing <- TwoListings
  PageSize = 1
  Faults <- OneInTrouble
  Retries = 1
  MaxRequests = 2
  MaxCrashes = 0
INVARIANTS SyncedMeansStored SyncedIsPolled
PROPERTIES KnownViewsSync PassesEnd
CHECK_DEADLOCK FALSE
