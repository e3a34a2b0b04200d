\* What documents and comments say and the code does not do. TLC stops at the
\* first it finds violated; without that one it finds the next.
CONSTANTS
  rs = rs ra = ra rb = rb rc = rc u1 = u1 u2 = u2
  pa = pa px = px pn = pn m1 = m1 q1 = q1 q2 = q2 q3 = q3
  None = None
  Roles = {rs, ra, rb, rc}
  Users = {u1, u2}
  Perms = {pa, px, pn}
  Areas = {m1}
  Names = {"SUPER_ADMIN", "ADMIN", "USER", "OTHER"}
  Codes = {"roles:assign_permission", "x", "y"}
  Requests = {q1, q2, q3}
  Workloads <- Documented
  SeededRole <- MCSeededRole
  SeededPerm <- MCSeededPerm
  SeededLink <- MCSeededLink
SPECIFICATION Spec
SYMMETRY Symmetry
CHECK_DEADLOCK FALSE
INVARIANTS
  AssignedRolesStayActive
  PolicyLetsDelegate
PROPERTIES
  DelegatorHoldsPermission
