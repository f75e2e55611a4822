CONSTANTS
  Tools = {"deb"}
  Plugins = 1
  AutoReset = {TRUE}
  MaxObjects = 3
  MaxPrompts = 0
SPECIFICATION Spec
INVARIANT DebAfterDependencies
CHECK_DEADLOCK FALSE
