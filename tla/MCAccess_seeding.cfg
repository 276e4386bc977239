CONSTANTS
  Jobs = {j1, j2, j3}
  TenantRoles = {custom}
  Picks <- ThreePicks
SPECIFICATION SyncSpec
CHECK_DEADLOCK FALSE
PROPERTIES
  RolesSeeded
