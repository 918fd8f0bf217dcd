SPECIFICATION Spec
CONSTANTS
  Words <- MCWords
  Packets <- MCPackets
INVARIANTS
  TypeOK
  FilterFollowsNesting
  AcceptedIsClosed
  AcceptedIsBalanced
  HangsAtNonStatement
  SamplesAccepted
PROPERTIES
  EachObjectAdvances
  ImplementsFilterCode
