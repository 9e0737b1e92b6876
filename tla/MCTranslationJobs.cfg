\* Two jobs of one folder, one page each, one recovery.
CONSTANTS
  Folders = {f1}
  MaxJobs = 2
  Pages = 1
  MaxRecoveries = 1
  None = None
SPECIFICATION FairSpec
INVARIANT TypeOK
PROPERTIES JobSpec EveryJobEnds
CHECK_DEADLOCK FALSE
