SPECIFICATION Spec
CONSTANTS
  Reqs = {r1, r2, r3}
  T0 = T0
  K0 = K0
  MaxFailed = 2
  None = None
SYMMETRY Symmetry
CHECK_DEADLOCK FALSE
INVARIANTS
  LoginSessionsCurrent
  NoLostFailure
PROPERTIES
  NoLoginWhenBarred
  DeletedKeepsPassword
