SPECIFICATION FairSpec
CONSTANTS
  c1 = c1
  f1 = f1
  f2 = f2
  t1 = t1
  t2 = t2
  t3 = t3
  t4 = t4
  CheckIns = {c1}
  Files = {f1, f2}
  FilesOf <- OneCheckIn
  KindOf <- TwoKinds
  Pipelines = {"image", "raw_camera"}
  Sweeps = {timer, admin}
  Sla = 1
  Cooldown = 1
  MaxAnnounced = 1
  None = None
  Order <- FourTriggers
  Selects <- Selectors
  ActionOf <- Actions
  Posts <- PostedTypes
  MaxAttempts = 2
  Administered = {t3}
INVARIANTS
  AnnouncedOnce
PROPERTIES
  CompletedStays
  ReachesReceiver
  CascadesEnd
