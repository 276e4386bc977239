CONSTANTS
  Jobs = {j1, j2, j3}
  TenantRoles = {custom}
  Picks <- ThreePicks
SPECIFICATION SyncSpec
SYMMETRY Symmetry
CHECK_DEADLOCK FALSE
INVARIANTS
  CatalogueTypeOK
  ReadersNeverWrite
  PlatformRoutesNotForTenants
PROPERTIES
  CatalogueRestored
