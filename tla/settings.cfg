CONSTANTS
  Keys = {"a", "b"}
  Partial = {"", "deb"}
  Texts = {"none", "signed1", "signed2", "see", "note"}
  Archs = {"amd64", "i386"}
  Comments = {"", "c"}
  NoArch = "noarch"
  NoText = "none"
  NoComment = ""
  Files = {"f1", "f2"}
  FileLists <- MCFileLists
  Contents <- MCContents
  NewEntries <- MCNewEntries
  Boilerplate <- MCBoilerplate
  Missing = Missing
  MaxCalls = 3
  Configs = {"backend", "own"}
  SettingKeys = {"A", "B", "C"}
  Values = {1, 2}
  NoValue = NoValue
  OldLines <- MCOldLines
  Begins <- MCBegins
  MaxWrites = 3
  PinPackages = {"p", "q", "q:foreign"}
  PinName <- MCPinName
  PinOrder <- MCPinOrder
  OldPins <- MCOldPins
  MaxPins = 4
SPECIFICATION SettingsSpec
INVARIANTS SavedIsReloaded NextProgramAgrees PinsAsWanted
PROPERTY OnlyRemovedIsLost
CHECK_DEADLOCK FALSE
