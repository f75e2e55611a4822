CONSTANTS
  f1 = f1
  f2 = f2
  None = None
  NLocks = 3
  Contended <- OneLock
  Sessions = 0
  Roles = {"CommitChanges"}
  Frontends <- ExactFrontends
  ConfFiles = {f1}
  DebFits = {TRUE}
  DpkgStarts = {TRUE, FALSE}
SPECIFICATION WorkerFairSpec
PROPERTIES CancelEndsPrompts
CHECK_DEADLOCK FALSE
