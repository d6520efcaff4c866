SPECIFICATION Spec
CONSTANTS
  NumEndpoints = 1
  Hashes = {h1, h2}
  PageSize = 2
  MaxRequests = 2
  SerialCommits = FALSE
  MaxId = 2
  Quota <- JustTwo
  MaxFaults = 0
  MaxCrashes = 0
  MaxChanges = 0
INVARIANT NothingSkipped
