SPECIFICATION Spec
CONSTANTS
  Blocks = {"b1", "b2", "b3"}
  Txs = {1, 2, 3}
  Wallets = {"w1", "w2"}
  Dids = {"d1", "d2"}
  BlockTx <- MCBlockTx
  BlockTs <- MCBlockTs
  Targets <- MCTargets
  DidOf <- MCDidOf
  Links <- MCLinks
  Reader = "w1"
  PageSize = 1
  StartTime = 3
  FirstTimes = {0, 1}
  MaxRuns = 1
  MaxErrors = 1
INVARIANTS ReadingsAreExact AccountsAgree LinkedIsFound
PROPERTY ReadingsEnd
CHECK_DEADLOCK FALSE
