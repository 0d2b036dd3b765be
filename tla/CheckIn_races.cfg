SPECIFICATION FairSpec
CONSTANTS
  CheckIns = {i1}
  Files = {f1, f2}
  First = f1
  Plans <- DistinctOrEqual
  Requests = {r1, r2}
  None = None
  S3Fails = TRUE
  DatabaseFails = TRUE
  MaxThrows = 1
  MaxManifests = 2
CHECK_DEADLOCK FALSE
INVARIANTS
  TypeOK
  ManifestBacked
  LogIsRight
  CleanOutcome
PROPERTY CompensationEnds
