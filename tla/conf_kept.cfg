CONSTANTS
  Keys = {"a", "b"}
  Partial = {"", "deb"}
  Texts = {"none", "signed1", "signed2", "see", "note"}
  Archs = {"amd64", "i386"}
  Comments = {"", "c"}
  NoArch = "noarch"
  NoText = "none"
  NoComment = ""
  Files = {"f1", "f2"}
  FileLists <- MCFileLists
  Contents <- MCContents
  NewEntries <- MCNewEntries
  Boilerplate <- MCBoilerplate
  Missing = Missing
  MaxCalls = 0
  Configs = {"own"}
  SettingKeys = {"A", "B", "C"}
  Values = {1}
  NoValue = NoValue
  OldLines <- MCOldLines
  Begins <- MCBegins
  MaxWrites = 4
  PinPackages = {"p", "q", "q:foreign"}
  PinName <- MCPinName
  PinOrder <- MCPinOrder
  OldPins <- MCOldPins
  MaxPins = 0
SPECIFICATION SettingsSpec
INVARIANT WritesAreKept
CHECK_DEADLOCK FALSE
