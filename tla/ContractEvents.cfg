SPECIFICATION FairSpec
CONSTANTS
  VNodes = {v1, v2}
  SNodes = {s1}
  LaterStates = {"Slashed"}
  Sizes = {"one", "two"}
  MaxEvents = 3
  MaxCrashes = 1
INVARIANTS CInv AddedAreKnown QuietAgrees
PROPERTY SettlesOnContract
CHECK_DEADLOCK FALSE
