SPECIFICATION Spec
CONSTANTS
  Jobs = {j1, j2}
  Workers = {w1}
  None = None
  Calls = {c1, c2}
  MaxAttempts = 1
  AttemptCap = 1
  LeaseLength = 1
  Backoff = 1
  Targets <- Reports
  Failures = TRUE
  Replays = TRUE
  StatementsFail = TRUE
  Clocks = {0, 1}
  Horizon = 0
  Crossing = {}
SYMMETRY Symmetry
INVARIANTS
  TypeOK
  TablesAgree
PROPERTY KeepsLease
