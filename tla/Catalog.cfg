SPECIFICATION MCSpec
CONSTANTS
  n1 = n1
  n2 = n2
  a1 = a1
  a2 = a2
  f1 = f1
  f2 = f2
  p1 = p1
  p2 = p2
  ro1 = ro1
  r1 = r1
  r2 = r2
  e1 = e1
  e2 = e2
  MaxSecrets = 2
  None = None
  Tenants <- TwoTenants
  Apps <- TwoApps
  Features <- TwoFeatures
  Permissions <- TwoPermissions
  Roles <- OneRole
  Requests <- TwoRequests
  Editors <- TwoEditors
SYMMETRY Symmetry
INVARIANT RolesAsSaved
INVARIANT ForeignGrantOnlyByMove
INVARIANT ShownSecretWorks
INVARIANT SecretReachesScreen
PROPERTY OnlyMovesCrossTenants
CHECK_DEADLOCK FALSE
