\* One folder, two jobs of it: what a document says and the code does not do.
CONSTANTS
  Folders = {f1}
  MaxJobs = 2
  Pages = 1
  MaxRecoveries = 1
  None = None
SPECIFICATION Spec
PROPERTY NothingIsSentAfterCancel
CHECK_DEADLOCK FALSE
