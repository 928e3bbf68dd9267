SPECIFICATION MCSpec
CONSTANTS
  u1 = u1
  u2 = u2
  u3 = u3
  n1 = n1
  n2 = n2
  a1 = a1
  a2 = a2
  i1 = i1
  x1 = x1
  x2 = x2
  x3 = x3
  r1 = r1
  r2 = r2
  None = None
  Users <- TwoUsers
  Tenants <- TwoTenants
  Emails <- TwoAddresses
  Invitations <- OneInvitation
  Transfers <- OneTransfer
  Requests <- TwoRequests
SYMMETRY Symmetry
INVARIANT StaleOnlyByRace
INVARIANT AdmissionUsesInvitation
PROPERTY OwnerLostOnlyByRace
CHECK_DEADLOCK FALSE
