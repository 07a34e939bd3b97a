SPECIFICATION Spec
CONSTANTS
  r1 = r1
  r2 = r2
  r3 = r3
  s1 = s1
  u1 = u1
  u2 = u2
  Requests = {r1, r2, r3}
  NoOne = NoOne
  Workloads <- MCWorkloads
  CacheKeys <- MCKeys
  Sellers = {s1}
  Raters = {u1, u2}
  Ratings = {2, 5}
  InitialStock = 1
  MaxOutages = 1
CHECK_DEADLOCK FALSE
INVARIANTS
  ProductInv
  StaleOnlyIfOverlapped
  ReviewsInv
PROPERTIES
  CacheConverges
