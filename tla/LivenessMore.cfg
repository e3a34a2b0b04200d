CONSTANTS
  u1 = u1 ro1 = ro1 j1 = j1 j2 = j2 q1 = q1 q2 = q2 t1 = t1
  c1 = c1 c2 = c2 s1 = s1 m1 = m1 n1 = n1 n2 = n2 n3 = n3 p1 = p1
  p2 = p2 admin = admin clerk = clerk us = us l1 = l1 l2 = l2 r1 = r1
  r2 = r2 k1 = k1 k2 = k2 k3 = k3 Missing = Missing Empty = Empty Undefined = Undefined None = None
  Writable = TRUE
  Processes = {p1, p2}
  Deployments <- Boot
  MaxFaults = 0
  MaxCrashes = 0
  Scenarios = {"navigation", "page"}
SPECIFICATION LiveSpecification
CHECK_DEADLOCK FALSE
PROPERTIES
  NavigationSettles
  LoadingEnds
