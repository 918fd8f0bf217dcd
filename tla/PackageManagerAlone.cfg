SPECIFICATION Spec
CONSTANTS
  p1 = p1
  p2 = p2
  p3 = p3
  d1 = d1
  d2 = d2
  None = None
  Blank = Blank
  Manager = Manager
  Packages = {p1, p2, p3}
  ProjectName <- MCProjectName
  Dialogs = {}
  Installed <- ThreeInstalled
  MaxExtracts = 0
  MaxRemoves = 3
  MaxKills = 0
INVARIANTS
  RemoveSparesOthers
