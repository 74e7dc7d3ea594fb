CONSTANTS
  Workers = {w1, w2}
  Tasks = {t1, t2, t3}
  Waiters = {x1}
  None = None
SPECIFICATION FairSpec
CHECK_DEADLOCK FALSE
INVARIANT
  OnePlace
  ShutdownDrains
PROPERTY
  AcceptedRuns
