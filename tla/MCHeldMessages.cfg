SPECIFICATION Spec
CONSTANTS
  m1 = m1 m2 = m2 k1 = k1 k2 = k2 a1 = a1 a2 = a2
  Messages = {m1, m2}
  Sessions = {a1, a2}
  ReportsStart = {a1}
  Claims = {k1, k2}
  NoClaim = NoClaim
  NoSession = NoSession
  WritesFail = TRUE
  ClearsFail = FALSE
  MovesRollBack = TRUE
SYMMETRY Alike
INVARIANTS HeldInv DeliveredOnce ClaimsAreCarried RidesCanSettle NothingWaitsOnALiveAgent
PROPERTIES DeliveredWasTaken ContractKept
CHECK_DEADLOCK FALSE
