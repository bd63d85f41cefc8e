SPECIFICATION FairSpec
CONSTANTS
  Renderers = {r1, r2}
  High = 2
  Low = 1
  PendHigh = 2
  PendLow = 1
  Released = 3
  MaxBehind = 5
  MaxCommands = 1
INVARIANTS PauseFollowsTheCounts CountIsOwed
PROPERTIES PausesEnd
CHECK_DEADLOCK FALSE
