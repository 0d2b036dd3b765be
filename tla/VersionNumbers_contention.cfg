SPECIFICATION VersionsSpec
CONSTANTS
  Callers = {c1, c2, c3}
  MaxInserts = 2
  LastSecond = 2
CHECK_DEADLOCK FALSE
SYMMETRY Symmetry
INVARIANTS
  VersionsTypeOK
  GivenStays
PROPERTY LaterIsHigher
