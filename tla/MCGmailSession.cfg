\* Two messages, of which one names its reply address; two threads of the bridge.
CONSTANTS
  m1 = m1
  m2 = m2
  t1 = t1
  t2 = t2
  Messages = {m1, m2}
  Explicit = {m1}
  Size = 2
  Loop = loop
  Threads = {t1, t2}
  MaxDrafts = 2
  None = None
SPECIFICATION Spec
INVARIANTS TypeOK ConfirmedInOrder OnlyCleanupAbandons NoSecondDraft
SYMMETRY BridgeThreads
CHECK_DEADLOCK FALSE
