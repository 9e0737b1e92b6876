CONSTANTS
  Ids = {c1, c2, c3}
  Owners = {o1, o2}
  Workers = {w1, w2}
  Amounts = {0, 1}
  Cap = 2
  NoCost = NoCost
  None = None
  MaxAttempts = 2
SYMMETRY Interchangeable
SPECIFICATION Spec
INVARIANTS TypeOK TracedBeforeSend SpendWithinCap CompleteCoverageIsTrue
           JournalAgreesWithLedger SettledAtTheCharge NoBlindRetry
PROPERTY LostCallStopsDispatch
CHECK_DEADLOCK FALSE
