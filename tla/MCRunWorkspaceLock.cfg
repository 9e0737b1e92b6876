\* Two entries deep, as export_partial_docx inside run; one folder, its lock file replaced twice.
CONSTANTS
  p1 = p1
  p2 = p2
  p3 = p3
  t1 = t1
  t2 = t2
  d1 = d1
  None = None
  Processes = {p1, p2, p3}
  Threads = {t1, t2}
  Dirs = {d1}
  MaxDepth = 2
  MaxFiles = 3
SPECIFICATION Spec
SYMMETRY Interchangeable
INVARIANTS TypeOK RegisteredIsLocked GivenBack ProcessesExclude IntrusionIsNoticed
CHECK_DEADLOCK FALSE
