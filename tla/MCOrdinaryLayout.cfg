\* A job and one resumed from it; one suggestion by the operator.
CONSTANTS
  j1 = j1
  j2 = j2
  m1 = m1
  Jobs = {j1, j2}
  Manual = {m1}
  N = 2
  MaxEvents = 2
  MaxGeneration = 2
  None = None
SPECIFICATION Spec
INVARIANTS TypeOK SuggestionsKeepEdits AutomaticPayments
PROPERTY DeliverySpec
SYMMETRY RunJobs
CHECK_DEADLOCK FALSE
