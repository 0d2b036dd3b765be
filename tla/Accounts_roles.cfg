SPECIFICATION Spec
CONSTANTS
  Users = {u1, u2}
  Projects = {p1}
  ProjectRoles = {"viewer"}
  Group = "administrator"
  Calls = {r1, r2}
  MaxOverlapped = 0
  None = None
SYMMETRY Symmetry
INVARIANTS
  OneRow
  SuperAdminRemains
  GroupIsReplaced
