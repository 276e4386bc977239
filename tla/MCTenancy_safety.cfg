CONSTANTS
  Reqs = {r1, r2}
  u0 = u0
  u1 = u1
  u2 = u2
  o1 = o1
  o2 = o2
  s1 = s1
  s2 = s2
  s3 = s3
  ra = ra
  rb = rb
  rc = rc
  m1 = m1
  m2 = m2
  Users = {u0, u1, u2}
  Admins = {u0}
  Orgs = {o1, o2}
  Schools = {s1, s2, s3}
  SchoolOrg <- TwoOrgs
  Roles = {ra, rb, rc}
  PlatformRoles = {rc}
  RoleOrg <- OneOfEach
  Perms = {"admin", "staff"}
  Needs <- AllNeed
  Seeds = {m1, m2}
  Seed <- TwoSeeds
  SeedPerms <- AllPerms
  Unused = {u2, s2}
  None = None
SPECIFICATION Spec
SYMMETRY Symmetry
CHECK_DEADLOCK FALSE
INVARIANTS
  TypeOK
  OneMembership
  RoleRowWrittenOnce
PROPERTIES
  PrincipalExact
  MembersOnly
