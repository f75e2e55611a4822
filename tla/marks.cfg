CONSTANTS
  app = app
  plugin = plugin
  tool = tool
  base = base
  Packages <- MCPackages
  CacheOrder <- MCCacheOrder
  NameOrder <- MCNameOrder
  Installed = {tool, base}
  Upgradeable = {base}
  AutoInstalled = {base}
  Requires <- MCRequires
  Used <- Operations
SPECIFICATION MarkSpec
INVARIANTS CommitDoesWhatIsShown
CHECK_DEADLOCK FALSE
