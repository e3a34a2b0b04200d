CONSTANTS
  m1 = m1 m2 = m2 n1 = n1 n2 = n2 n3 = n3 n4 = n4 s1 = s1 s2 = s2 p1 = p1 p2 = p2
  c1 = c1 c2 = c2 q1 = q1 q2 = q2 q3 = q3
  None = None
  Modules = {m1, m2}
  Menus = {n1, n2, n3, n4}
  Services = {s1, s2}
  Paths = {p1, p2}
  Codes = {s1, s2, c1, c2}
  Requests = {q1, q2, q3}
  Ops = {"createModule", "updateModule", "removeModule",
         "createMenu", "updateMenu", "removeMenu",
         "createService", "removeService", "provision"}
  SeededMenus <- MCSeededMenus
  SeededCode <- MCSeededCode
  Asks <- MCAsks
  SeededServices = {s1}
  Scenarios = {"menus", "routes", "paths", "services"}
SPECIFICATION MCSpec
SYMMETRY Symmetry
CHECK_DEADLOCK FALSE
INVARIANTS
  TypeOK
  RequestsKnow
  TreeInv
  CodesKept
