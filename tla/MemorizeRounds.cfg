SPECIFICATION Spec
CONSTANTS
  Types <- MCTypes
  Lines <- MCLines
  Decimal <- MCDecimal
  Numbers = {"0", "1"}
  MaxLines = 2
  MaxObjects = 2
  MaxSaves = 2
  MaxCrashes = 1
INVARIANTS
  TypeOK
  RoundTrip
  StableAfterFirst
  CutShortIsNoticed
CHECK_DEADLOCK FALSE
