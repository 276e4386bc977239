CONSTANTS
  Reqs = {r1, r2, r3}
  Students = {e1, e2}
  S0 = S0
  None = None
SPECIFICATION Spec
SYMMETRY Symmetry
CHECK_DEADLOCK FALSE
INVARIANTS
  TypeOK
  OneSessionPerDate
  AnnouncedOnce
PROPERTY NoReopen
