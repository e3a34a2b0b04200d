CONSTANTS
  admin = admin clerk = clerk auditor = auditor m1 = m1 m2 = m2 n1 = n1 n2 = n2 n3 = n3
  s1 = s1 s2 = s2 k1 = k1 Param = Param None = None
  Roles = {admin, clerk, auditor}
  FullAccess = {admin}
  Configured = {auditor}
  Modules = {m1, m2}
  Menus = {n1, n2, n3}
  Services = {s1, s2}
  Patterns <- MCPatterns
  Paths <- MCPaths
  Methods = {"GET"}
  Strategies = {"API_KEY", "MTLS"}
  HeaderSets <- MCHeaderSets
  Calls = {k1}
  SeededMenus <- MCSeededMenus
  SeededRoutes <- MCSeededRoutes
  MaxChanges = 3
  NoReason = None
  Octets <- Boundaries
  Groups <- FullGroups
  Scenarios = {"calls", "tree", "headers", "targets"}
SPECIFICATION MCSpec
CHECK_DEADLOCK FALSE
INVARIANTS
  CallsUseWhatWasInForce
  RefusalsHaveAReason
  ShownMenusAreAllowed
  IdentityIsTheGateways
  RefusedByRange
  MappedAlike
