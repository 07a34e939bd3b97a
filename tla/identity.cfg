SPECIFICATION IdentitySpec
CONSTANTS
  r1 = r1
  r2 = r2
  r3 = r3
  s1 = s1
  Requests = {r1, r2, r3}
  Seeds = {s1}
  NoOne = NoOne
  MaxLoginAttempts = 2
  SellerMaxAttempts = 2
  Workloads <- MCWorkloads
  SellerWorkloads <- MCSellerWorkloads
  InitialUsers <- MCInitialUsers
  InitialSellers <- MCInitialSellers
  Details <- MCDetails
  AccountOf <- MCAccountOf
SYMMETRY Perms
CHECK_DEADLOCK FALSE
INVARIANTS
  EndedSessionsStayEnded
  RotationIsSingleUse
  ClosedAccountStaysOut
  AttemptsCountedExactly
  UserDocumentInv
  SellerDocumentInv
