SPECIFICATION FairBreakerSpec
CONSTANTS
  Calls = {c1, c2, c3}
  FailureThreshold = 3
  OpenDuration = 2
INVARIANTS
  BreakerTypeOK
  NextCallIsSound
PROPERTIES
  OpenIsKept
  Recovers
