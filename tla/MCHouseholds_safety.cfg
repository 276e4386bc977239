CONSTANTS
  Reqs = {r1, r2}
  p1 = p1
  p2 = p2
  p3 = p3
  p4 = p4
  a1 = a1
  c1 = c1
  s1 = s1
  s2 = s2
  g1 = g1
  g2 = g2
  g3 = g3
  q1 = q1
  q2 = q2
  l1 = l1
  l2 = l2
  Seeds = {p1, p2, p3, p4, a1, c1, s1, s2, g1, g2, g3, q1, q2, l1, l2}
  SeedRow <- HouseholdRows
  Contacts = {"phone", "mail"}
  Numbers = {"n1", "n2", "n3"}
  Values <- AnyRecord
  None = None
SPECIFICATION Spec
SYMMETRY Symmetry
CHECK_DEADLOCK FALSE
INVARIANTS
  TypeOK
  HouseholdsDistinct
  OnePrimaryAmongKnown
PROPERTIES
  PrimaryButForAdded
  NoBlindWrite
