SPECIFICATION Spec
CONSTANTS
  t1 = t1 t2 = t2
  s1 = s1 s2 = s2 s3 = s3
  c1 = c1 c2 = c2
  Sessions = {s1, s3}
  Tasks = {t1, t2}
  TaskOf <- TwoSingle
  Columns = {c1, c2}
  Exempt = {}
  NoLimit = NoLimit
  StartColumn <- OneColumn
  Limits = {0, 2}
  ColumnLimits = {1, NoLimit}
  MaxMoves = 2
  PausesQueued = TRUE
  Idle = Idle
INVARIANTS NoLostWakeup SlotAccounting NoStrandedQueuedRow
PROPERTIES ColumnStartsInTurn
CHECK_DEADLOCK FALSE
