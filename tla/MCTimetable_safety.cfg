CONSTANTS
  Reqs = {r1, r2, r3}
  Teachers = {t1, t2}
  Cohorts = {c1}
  Names = {n1, n2}
  LastDate = 2
  Today = 1
  P0 = P0
  S0 = S0
  None = None
SPECIFICATION Spec
SYMMETRY Symmetry
CHECK_DEADLOCK FALSE
INVARIANTS
  TypeOK
  CohortClashOnlyRaced
PROPERTY ImplementsVersionedRows
