CONSTANTS
  t1 = t1
  t2 = t2
  t3 = t3
  None = None
  Trans = {t1, t2, t3}
  NoAuth = {t3}
  Races = {"posted", "unhandled", "handled", "rerun", "late", "denied", "timestamp", "exit", "setStatus"}
  Assigned = {"Waiting"}
SPECIFICATION Spec
INVARIANTS QueueConsistent
PROPERTIES StartsInOrder
CHECK_DEADLOCK FALSE
