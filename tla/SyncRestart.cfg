SPECIFICATION FairSpec
CONSTANTS
  v1 = v1
  v2 = v2
  s1 = s1
  s2 = s2
  b1 = b1
  b2 = b2
  b3 = b3
  Views = {v1, v2}
  Shards = {s1, s2}
  Blocks = {b1, b2, b3}
  ViewShards <- WideAndNarrow
  BlockShards <- MCBlockShards
  Listing <- ShardListings
  PageSize = 1
  Faults <- CallFaults
  Retries = 0
  MaxRequests = 2
  MaxCrashes = 1
INVARIANTS SInv SavedPagesStored MarkedIsStored SyncedIfResumable
CHECK_DEADLOCK FALSE
