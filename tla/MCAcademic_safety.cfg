CONSTANTS
  Reqs = {r1, r2, r3}
  y1 = y1
  t1 = t1
  c1 = c1
  c2 = c2
  s1 = s1
  k1 = k1
  p1 = p1
  p2 = p2
  p3 = p3
  h1 = h1
  h2 = h2
  a1 = a1
  a2 = a2
  Seeds = {y1, t1, c1, c2, s1, k1, p1, p2, p3, h1, h2, a1, a2}
  SeedRow <- SchoolRows
  Codes = {"a", "A", "b"}
  Lower <- UpperAndLower
  Numbers = {"n1", "n2"}
  Days = {1, 2}
  Values <- DatesOrNone
  None = None
SPECIFICATION MCSpec
SYMMETRY Symmetry
CHECK_DEADLOCK FALSE
INVARIANTS
  TypeOK
  OneCurrentYear
  OneHolder
PROPERTIES
  UnsoundOnlyByRace
  FlagTakenOnlyByRace
  ImplementsVersionedRows
