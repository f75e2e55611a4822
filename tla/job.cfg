CONSTANTS
  f1 = f1
  f2 = f2
  None = None
  NLocks = 2
  Contended <- OneLock
  Sessions = 1
  Roles <- DistinctRoles
  Frontends <- AllOrNothing
  ConfFiles = {f1, f2}
  DebFits = {TRUE}
  DpkgStarts = {TRUE, FALSE}
SPECIFICATION FairSpec
INVARIANTS CommitsLocked CancelledCommitsNothing UntrustedNeedsApproval SuccessMeansInstalled
PROPERTIES ReplacesWithConsent JobEnds
CHECK_DEADLOCK FALSE
