CONSTANTS
  t1 = t1 t2 = t2
  c1 = c1 c2 = c2 c3 = c3
  s1 = s1 s2 = s2
  None = None
  Undefined = Undefined
  Tabs = {t1, t2}
  Calls = {c1, c2}
  Sessions = {s1, s2}
  MaxToken = 3
  OtherOrigin = FALSE
SPECIFICATION Spec
SYMMETRY Symmetry
PROPERTIES
  LogoutEndsSession
