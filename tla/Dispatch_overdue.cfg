SPECIFICATION FairPoller
CONSTANTS
  c1 = c1
  f1 = f1
  CheckIns = {c1}
  Files = {f1}
  FilesOf <- OneCheckIn
  KindOf <- OneKind
  Pipelines = {"image"}
  Sweeps = {timer}
  Sla = 1
  Cooldown = 1
  MaxAnnounced = 1
  None = None
PROPERTIES
  OverdueIsGivenUp
