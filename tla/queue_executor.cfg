CONSTANTS
  t1 = t1
  t2 = t2
  t3 = t3
  None = None
  Trans = {t1, t2, t3}
  NoAuth = {t3}
  Races = {"rerun", "late", "denied", "timestamp", "setStatus"}
  Assigned = {"Waiting"}
SPECIFICATION FairSpec
INVARIANTS NoUseAfterDelete
PROPERTIES QuitsWithNothingUnderway ImplementsExecutor
CHECK_DEADLOCK FALSE
