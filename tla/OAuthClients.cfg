SPECIFICATION MCSpec
CONSTANTS
  u1 = u1
  c1 = c1
  c2 = c2
  n1 = n1
  g1 = g1
  g2 = g2
  t1 = t1
  t2 = t2
  t3 = t3
  r1 = r1
  r2 = r2
  None = None
  Offline = "offline_access"
  Users <- MCUsers
  Tenants <- MCTenants
  Scopes <- MCScopes
  Requests <- OneRequest
  Clients <- TwoClients
  Configs <- TwoConfigs
  Codes <- TwoCodes
  Tokens <- ThreeTokens
  MaxTime = 2
SYMMETRY Symmetry
INVARIANT OnlyRacesIssueWhileArchived
INVARIANT WithinConsent
INVARIANT AbsoluteExpiry
PROPERTY OwnerOnlyAndFinal
