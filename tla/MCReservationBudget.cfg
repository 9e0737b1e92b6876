CONSTANTS
  Ids = {c1, c2, c3}
  Owners = {o1, o2, o3}
  Amounts = {0, 1, 2, 4}
  Cap = 4
  NoCost = NoCost
SYMMETRY Interchangeable
SPECIFICATION LedgerSpec
INVARIANTS LedgerTypeOK LedgerLoads OneExecutionInFlight
PROPERTIES LostCallStopsSpending SettledRowsStand
CHECK_DEADLOCK FALSE
