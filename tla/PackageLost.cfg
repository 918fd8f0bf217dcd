SPECIFICATION Spec
CONSTANTS
  p1 = p1
  p2 = p2
  p3 = p3
  d1 = d1
  d2 = d2
  None = None
  Blank = Blank
  Manager = Manager
  Packages = {p1, p2}
  ProjectName <- MCProjectName
  Dialogs = {d1}
  Installed <- OneInstalled
  MaxExtracts = 1
  MaxRemoves = 1
  MaxKills = 0
INVARIANTS
  SuccessMeansRecorded
