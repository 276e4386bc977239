CONSTANTS
  Reqs = {r1, r2, r3}
  Students = {s1, s2}
  Cohorts = {c1, c2}
  Rolls = {1}
  E0 = E0
  None = None
SPECIFICATION Spec
SYMMETRY Symmetry
CHECK_DEADLOCK FALSE
INVARIANTS
  TypeOK
  OneActiveEnrollment
  RollNumbersUnique
  ActedUponOnce
