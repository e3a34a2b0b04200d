\* What documents and comments say and the code does not do. TLC stops at the
\* first it finds violated; without that one it finds the next.
CONSTANTS
  admin = admin clerk = clerk m1 = m1 n1 = n1 n2 = n2 n3 = n3 n4 = n4
  u1 = u1 u2 = u2 us = us l1 = l1 l2 = l2 c1 = c1 c2 = c2 None = None
  Roles = {admin, clerk}
  FullAccess = {admin}
  Granted <- OnlyTheTop
  Modules = {m1}
  Menus = {n1, n2, n3}
  Urls = {u1, u2, us}
  Static = {us}
  Loads = {l1, l2}
  Workloads <- EditsAndSessions
  Codes = {c1, c2}
  ServiceUrls = {u1, u2}
  ServiceRoles = {admin}
  MaxEdits = 2
  PageMenus = {n1, n2, n3, n4}
  External = {n3}
  MaxCalls = 3
  Scenarios = {"navigation", "wizard", "page"}
SPECIFICATION ViewsSpec
CHECK_DEADLOCK FALSE
INVARIANTS
  EveryMenuHasRoute
  EachMenuOnce
  MenuIsOfActiveRole
  PageShowsItsMenu
PROPERTIES
  SavedMenuIsUpdated
  OnlyWhatAnswered
