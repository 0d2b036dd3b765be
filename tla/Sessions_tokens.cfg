SPECIFICATION Spec
CONSTANTS
  Users = {u1}
  Tokens = {k1, k2, k3}
  Codes = {d1}
  Calls = {r1, r2}
  MaxSessions = 1
  Threshold = 2
  None = None
SYMMETRY Symmetry
INVARIANTS
  RegistryAgrees
  OneLinePerGrant
  LockedAtThreshold
