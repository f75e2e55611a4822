CONSTANTS
  Keys = {"a", "b"}
  Partial = {"", "deb"}
  Texts = {"none", "signed1", "signed2", "see", "note"}
  Archs = {"amd64", "i386"}
  Comments = {"", "c"}
  NoArch = "noarch"
  NoText = "none"
  NoComment = ""
  Files = {"f1", "f2"}
  FileLists <- MCFileLists
  Contents <- MCContents
  NewEntries <- MCNewEntries
  Boilerplate <- MCBoilerplate
  Missing = Missing
  MaxCalls = 0
  Configs = {"backend", "own"}
  SettingKeys = {"A", "B", "C"}
  Values = {1, 2}
  NoValue = NoValue
  OldLines <- MCOldLines
  Begins <- MCBegins
  MaxWrites = 0
  PinPackages = {"p", "q", "q:foreign"}
  PinName <- MCPinName
  PinOrder <- MCPinOrder
  OldPins = {}
  MaxPins = 5
SPECIFICATION SettingsSpec
INVARIANT UnpinUnpins
CHECK_DEADLOCK FALSE
