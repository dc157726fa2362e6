SPECIFICATION MCSpec
CONSTANTS
  a = a
  b = b
  n1 = n1
  n2 = n2
  s1 = s1
  s2 = s2
  s3 = s3
  r1 = r1
  r2 = r2
  c1 = c1
  c2 = c2
  Users = {a, b, n1, n2}
  Sessions = {s1, s2, s3}
  Requests = {r1, r2}
  Clis = {c1, c2}
  Nobody = Nobody
  Operations <- MCOperations
  OverrideWrites <- MCOverrideWrites
  Leaving = {s3}
  Failures = TRUE
  PermissionKeys <- MCPermissionKeys
  RoleNames = {"user", "admin"}
  RoleGrants <- MCRoleGrants
  DefaultRole = "user"
  UnknownNames = {}
  NoRole = NoRole
INVARIANTS
  TypeOK
  RightsAreInForce
  StaleRolesAreExcused
  BootstrapLeavesNothingBehind
PROPERTIES
  DenialsAreObeyed
  BootstrapTouchesItsOwn
CHECK_DEADLOCK FALSE
