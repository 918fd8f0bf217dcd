SPECIFICATION Spec
CONSTANTS
  p1 = p1
  p2 = p2
  p3 = p3
  d1 = d1
  d2 = d2
  None = None
  Blank = Blank
  Manager = Manager
  Packages = {p1, p2}
  ProjectName <- MCProjectName
  Dialogs = {d1, d2}
  Installed <- OneInstalled
  MaxExtracts = 2
  MaxRemoves = 0
  MaxKills = 1
INVARIANTS
  TypeOK
  UniqueRecords
  RecordedFilesInPlace
  SuccessOutcome
PROPERTIES
  InstalledUntouched
  RegistryReleased
