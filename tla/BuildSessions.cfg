SPECIFICATION Spec
CONSTANTS
  exe = exe
  dll = dll
  mixed = mixed
  a1 = a1
  a2 = a2
  b1 = b1
  c1 = c1
  r1 = r1
  None = None
  Truncated = Truncated
  Projects = {exe, dll, mixed}
  Nodes = {a1, a2, b1, c1, r1}
  Tree <- MCTree
  Raw = {r1}
  DllProjects = {dll}
  UpxProjects = {exe}
  PipeCapacity = 1
  MaxOutput = 2
  MaxBuilds = 3
  MaxKills = 1
INVARIANTS
  TypeOK
  ReleasedAsBuilt
  ParserEmptied
  OnlyChildrenBlock
PROPERTIES
  ReleaseKept
  CompilerAnswers
  ImplementsRelease
CHECK_DEADLOCK FALSE
