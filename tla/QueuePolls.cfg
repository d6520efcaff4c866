SPECIFICATION FairSpec
CONSTANTS
  NumEndpoints = 2
  Hashes = {h1, h2}
  PageSize = 1
  MaxRequests = 2
  SerialCommits = TRUE
  MaxId = 3
  Quota <- LongAndShort
  MaxFaults = 1
  MaxCrashes = 1
  MaxChanges = 1
INVARIANTS NothingSkipped RedeliveryBounded
PROPERTIES OffsetMonotone EveryRowOffered EveryBlockStored
