SPECIFICATION FairSpec
CONSTANTS
  MaxPtys = 2
  MaxCrashes = 2
  Outlives = TRUE
INVARIANTS HostAndClientAgree GivenUpIsFollowedByAKill
PROPERTIES StartsOnce ContractKept GivenUpLeavesTheHost KillsAreReported
CHECK_DEADLOCK FALSE
