\* Three pages, two workers, runs without bound.
CONSTANTS
  Pages <- ThreePages
  Workers = 2
  NoState = NoState
SPECIFICATION FairSpec
INVARIANTS TypeOK MissingEvidenceIsRecorded RunEvidence
PROPERTIES PageSpec RunEnds
CHECK_DEADLOCK FALSE
