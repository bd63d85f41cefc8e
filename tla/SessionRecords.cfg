SPECIFICATION FairSpec
CONSTANTS
  Columns = {"code", "review", "wait"}
  StartColumn = "wait"
  AutoSpawn = {"code", "review"}
  Isolated = {"review"}
  MaxSessions = 3
  MaxStops = 2
  MaxGestures = 3
  AutoResume = {TRUE, FALSE}
  IdsAtLaunch = {TRUE, FALSE}
  Outcomes = {"running", "queued", "fails", "throws"}
  LateRollbacks = FALSE
INVARIANTS RecordsMatchRegistry
PROPERTIES LaunchesFollowTheRecords PausedTrackStaysDown NothingIsStranded PassesEnd
CHECK_DEADLOCK FALSE
