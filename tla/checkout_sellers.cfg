SPECIFICATION Spec
CONSTANTS
  w1 = w1
  w2 = w2
  w3 = w3
  u1 = u1
  u2 = u2
  k1 = k1
  p1 = p1
  p2 = p2
  s1 = s1
  e1 = e1
  Users = {u1}
  Products = {p1, p2}
  Keys = {k1}
  NoKey = NoKey
  Sellers = {s1}
  Platform = Platform
  ProductSeller <- TwoOwners
  MaxQty = 1
  Requests = {w1, w2}
  Buyer <- DoubleClickBuyer
  Key <- NoKeys
  WithCoupon = {w1}
  ByPaystack = {w1}
  CartEdits = {e1}
  InitialStock <- OneEach
  InitialCart <- OneEachCart
  UsageLimit = 5
  UsageLimitPerUser = 1
  MaxAttempts = 2
  MaxReturned = 0
  MaxCrashes = 0
CHECK_DEADLOCK FALSE
PROPERTIES
  ImplementsShop
