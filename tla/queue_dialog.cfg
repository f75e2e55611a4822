CONSTANTS
  t1 = t1
  t2 = t2
  t3 = t3
  None = None
  Trans = {t1, t2, t3}
  NoAuth = {t2, t3}
  Races = {"unhandled"}
  Assigned = {}
SPECIFICATION Spec
PROPERTIES CompletionIsFinal
CHECK_DEADLOCK FALSE
