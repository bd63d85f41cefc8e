SPECIFICATION Spec
CONSTANTS
  Tasks = {t1, t2, t3, t4}
  Columns = {c1, c2}
  Exempt = {t4}
  NoLimit = NoLimit
  MaxAgentsChoices = {1, 2, NoLimit}
  EntryTimes = {0, 1}
INVARIANTS BlockedCountIsExact OrdersAgree
PROPERTIES BlockedIsStable
CHECK_DEADLOCK FALSE
