SPECIFICATION MCSpec
CONSTANTS
  p = p
  r1 = r1
  r2 = r2
  k1 = k1
  k2 = k2
  u1 = u1
  n1 = n1
  n2 = n2
  role1 = role1
  role2 = role2
  x1 = x1
  j1 = j1
  j2 = j2
  a1 = a1
  a2 = a2
  a3 = a3
  ip1 = ip1
  ip2 = ip2
  z1 = z1
  z2 = z2
  s1 = s1
  s2 = s2
  None = None
  Nil = Nil
  Requests <- MCRequests
  Codes <- TwoCodes
  Users <- OneUser
  Tenants <- TwoTenants
  Roles <- TwoRoles
  PermCodes <- OnePermission
  RoleTenant <- RoleOfEach
  Jobs <- TwoJobs
  Attempts <- ThreeAttempts
  Accounts <- TwoAccounts
  Addresses <- TwoAddresses
  MaxFail = 2
  WindowSec = 2
  MaxNow = 2
  Answers <- ThreeAttempts
  Signatures <- TwoSignatures
  MaxCount = 3
  Nobody = Nobody
  NoSignature = NoSignature
SYMMETRY Symmetry

INVARIANT UsedTwiceOnlyTogether
INVARIANT RolesFollowMembership
INVARIANT CodesWereHeld
INVARIANT FailuresAreLimited
INVARIANT RevokedForCause
INVARIANT RefusedForLater
PROPERTY RecoveryLeavesNothing
PROPERTY NoLoginPastMfa
PROPERTY ShownCodesWork
PROPERTY CounterFallsOnlyTogether
PROPERTY WriteBackOnlyInRaces
CHECK_DEADLOCK FALSE
