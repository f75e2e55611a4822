CONSTANTS
  app = app
  lib = lib
  tool = tool
  Packages = {app, lib, tool}
  CacheOrder <- MCOrder
  NameOrder <- MCOrder
  Installed = {lib, tool}
  Upgradeable = {}
  AutoInstalled = {}
  Requires <- MCRequires
  Used = {"setInstall", "setRemove", "setReInstall"}
  Sizes = {0, 2}
  None = None
SPECIFICATION Spec
CHECK_DEADLOCK FALSE
INVARIANTS StacksBounded
PROPERTIES ImplementsTimeline MovesForgetNothing
