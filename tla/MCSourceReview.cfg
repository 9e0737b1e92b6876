CONSTANTS
  Drafts = {d1, d2}
  Settings = {s1, s2}
  Reviewers = {r1, r2}
  Nonces = {n1}
  MaxGeneration = 2
  MaxJobs = 2
  Plain = Plain
  None = None
  d1 = d1
  d2 = d2
  s1 = s1
  s2 = s2
  r1 = r1
  r2 = r2
  n1 = n1
SPECIFICATION Spec
SYMMETRY Interchangeable
INVARIANTS TypeOK
PROPERTIES SourceSpec
CHECK_DEADLOCK FALSE
