SPECIFICATION Spec
CONSTANTS
  p1 = p1
  p2 = p2
  p3 = p3
  d1 = d1
  d2 = d2
  None = None
  Blank = Blank
  Manager = Manager
  Packages = {p1, p3}
  ProjectName <- MCProjectName
  Dialogs = {d1}
  Installed <- NoneInstalled
  MaxExtracts = 2
  MaxRemoves = 0
  MaxKills = 0
INVARIANTS
  OwnFiles
