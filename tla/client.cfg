CONSTANTS
  Clients <- MCClients
  Settable = {"debconfPipe"}
  MaxSteps = 1
SPECIFICATION FairSpec
INVARIANTS HonestEnd CatchesUp
PROPERTIES ImplementsStream EndIsReported
CHECK_DEADLOCK FALSE
