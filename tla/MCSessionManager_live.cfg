SPECIFICATION FairSpec
CONSTANTS
  t1 = t1 t2 = t2
  s1 = s1 s2 = s2 s3 = s3
  c1 = c1 c2 = c2
  Sessions = {s1, s3}
  Tasks = {t1, t2}
  TaskOf <- TwoSingle
  Columns = {c1}
  Exempt = {}
  NoLimit = NoLimit
  StartColumn <- OneColumn
  Limits = {0, 1}
  ColumnLimits = {NoLimit}
  MaxMoves = 0
  PausesQueued = TRUE
  Idle = Idle
PROPERTIES PromotionHappens EverySpawnSettles EverySuspendSettles
CHECK_DEADLOCK FALSE
