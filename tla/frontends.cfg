CONSTANTS
  Tools = {"batch", "gst", "deb"}
  Plugins = 2
  AutoReset = {TRUE, FALSE}
  MaxObjects = 3
  MaxPrompts = 2
SPECIFICATION FairSpec
INVARIANTS FaultsExplained DeletesTheFinished ExitCodeHonest
PROPERTIES PromptsAreAnswered
CHECK_DEADLOCK FALSE
