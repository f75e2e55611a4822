CONSTANTS
  base = base
  tool = tool
  plugin = plugin
  lonely = lonely
  foreign = foreign
  ghost = ghost
  Packages <- MCPackages
  CacheOrder <- MCCacheOrder
  NameOrder <- MCNameOrder
  Installed = {tool, base}
  Upgradeable = {base}
  AutoInstalled = {base}
  Requires <- MCRequires
  Used = {"setInstall", "setPurge", "markUpgrade"}
  Bare <- MCBare
  OtherFiles <- MCOtherFiles
  HashOrders <- MCHashOrders
  Debs <- MCDebs
  ArchAll = {lonely}
  Variant <- MCVariant
  MultiArch <- MCMultiArch
  Unmeetable = {lonely}
  Needed <- MCNeeded
  Refused <- MCRefused
  MaxVersion = 3
  Unmet = {3}
  NoField = 101
  Percentage <- MCPercentage
  Roll <- MCRoll
  Requests <- MCRequests
  Native <- MCNative
  GstVersion <- MCGstVersion
  GstFields <- MCGstFields
SPECIFICATION ChoiceSpec
INVARIANTS OfferedIsMet VerdictIsRight DetailsAreComplete RememberedIsTrue PluginsAreProvided
PROPERTIES SelectionsAreKept
CHECK_DEADLOCK FALSE
