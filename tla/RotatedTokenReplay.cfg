CONSTANTS
  u1 = u1 u2 = u2 ro1 = ro1
  j1 = j1 j2 = j2 j3 = j3 j4 = j4 j5 = j5
  r1 = r1 r2 = r2 r3 = r3
  None = None
  Users = {u1}
  Roles = {ro1}
  Jtis = {j1, j2, j3}
  Requests = {r1, r2}
SPECIFICATION Spec
SYMMETRY Symmetry
CHECK_DEADLOCK FALSE
PROPERTIES
  RotatedTokenReplayRevokes
