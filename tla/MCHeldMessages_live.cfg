SPECIFICATION FairSpec
CONSTANTS
  m1 = m1 m2 = m2 k1 = k1 k2 = k2 a1 = a1 a2 = a2
  Messages = {m1}
  Sessions = {a1, a2}
  ReportsStart = {a1}
  Claims = {k1}
  NoClaim = NoClaim
  NoSession = NoSession
  WritesFail = TRUE
  ClearsFail = FALSE
  MovesRollBack = FALSE
INVARIANTS DoneHoldsNothing
PROPERTIES ClaimsMoveOn
CHECK_DEADLOCK FALSE
