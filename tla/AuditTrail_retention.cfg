SPECIFICATION Spec
CONSTANTS
  Calls = {p1, p2}
  Targets = 2
  Limits = {1, None}
  Age = 0
  MaxTime = 2
  MaxRows = 4
  MaxItems = 2
  None = None
SYMMETRY Symmetry
INVARIANTS
  ChainHolds
  DeliveredBeforeMarked
