SPECIFICATION FairSpec
CONSTANTS
  o1 = o1
  o2 = o2
  r1 = r1
  s1 = s1
  w1 = w1
  w2 = w2
  Orders = {o1, o2}
  Refs = {r1}
  NoRef = NoRef
  RefOf <- OneRef
  Sellers = {s1}
  Platform = Platform
  SellerOf <- OneSeller
  PayoutIds = {}
  NoPayout = NoPayout
  Handlers = {w1, w2}
  Targets = {}
  NItems = 1
  MaxRestocks = 1
  MaxRefunds = 0
  MaxDuplicates = 0
  MaxCrashes = 1
CHECK_DEADLOCK FALSE
PROPERTIES
  ChargeReachesOrders
