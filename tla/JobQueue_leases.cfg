SPECIFICATION FairSpec
CONSTANTS
  Jobs = {j1, j2}
  Workers = {w1}
  Slots = {e1}
  None = None
  MaxAttempts = 1
  AttemptCap = 1
  LeaseSeconds = {5}
  Steps = {5}
  Clocks <- AheadAndBehind
  Horizon = 5
  External <- ReplayRequests
PROPERTIES
  ImplementsLease
  PendingIsServed
  LeasesEnd
