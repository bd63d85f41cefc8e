SPECIFICATION Spec
CONSTANTS
  Columns = {"code", "review", "wait"}
  StartColumn = "wait"
  AutoSpawn = {"code", "review"}
  Isolated = {"review"}
  MaxSessions = 3
  MaxStops = 1
  MaxGestures = 5
  AutoResume = {TRUE}
  IdsAtLaunch = {TRUE}
  Outcomes = {"running"}
  LateRollbacks = FALSE
PROPERTIES PausesStick
CHECK_DEADLOCK FALSE
