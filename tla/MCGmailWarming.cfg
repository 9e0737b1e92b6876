\* Two messages, of which one names its reply address; one thread of the bridge.
CONSTANTS
  m1 = m1
  m2 = m2
  t1 = t1
  t2 = t2
  Messages = {m1, m2}
  Explicit = {m1}
  Size = 2
  Loop = loop
  Threads = {t1}
  MaxDrafts = 2
  None = None
SPECIFICATION Spec
INVARIANT WarmingHasALoader
CHECK_DEADLOCK FALSE
