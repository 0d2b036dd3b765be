SPECIFICATION Spec
CONSTANTS
  Jobs = {j1}
  Workers = {w1, w2}
  Slots = {e1, e2}
  None = None
  MaxAttempts = 2
  AttemptCap = 3
  LeaseSeconds = {5, 10}
  Steps = {5}
  Clocks <- AheadAndBehind
  Horizon = 5
  External <- AllEvents
SYMMETRY Symmetry
INVARIANTS
  TypeOK
  LeaseAgreement
  MapsAgree
PROPERTIES
  SettledStaysSettled
  LeaseHonoured
