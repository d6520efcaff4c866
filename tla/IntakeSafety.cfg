SPECIFICATION FairSpec
CONSTANTS
  b1 = b1
  b2 = b2
  tx1 = tx1
  tx2 = tx2
  tx3 = tx3
  w1 = w1
  w2 = w2
  w3 = w3
  w4 = w4
  s1 = s1
  s2 = s2
  v1 = v1
  v2 = v2
  NoShard = NoShard
  BadCaip = BadCaip
  Calls = {c1, c2}
  Blocks = {b1, b2}
  Txs = {tx1, tx2, tx3}
  Wallets = {w1, w2, w3, w4}
  Shards = {s1, s2}
  Validators = {v1, v2}
  InitDid = {tx2}
  BadData = {tx2}
  Refused <- MCRefused
  Deliveries <- MCDeliveries
  ShardOf <- MCShardOf
  Signers <- MCSigners
  ShardViews <- MCViews
  MaxValPerBlock = 2
  MaxCrashes = 1
  MaxFailures = 1
INVARIANTS OneOwner AnnouncedIsIndexed RowsJustified
PROPERTIES ImplementsLedger CallsReturn AdmittedIsAnnounced
