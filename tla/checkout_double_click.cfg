SPECIFICATION FairSpec
CONSTANTS
  w1 = w1
  w2 = w2
  w3 = w3
  u1 = u1
  u2 = u2
  k1 = k1
  p1 = p1
  p2 = p2
  s1 = s1
  e1 = e1
  Users = {u1, u2}
  Products = {p1}
  Keys = {k1}
  NoKey = NoKey
  Sellers = {s1}
  Platform = Platform
  ProductSeller <- TwoOwners
  MaxQty = 1
  Requests = {w1, w2, w3}
  Buyer <- DoubleClickBuyer
  Key <- SameKey
  WithCoupon = {w1, w2, w3}
  ByPaystack = {w1}
  CartEdits = {}
  InitialStock <- OneEach
  InitialCart <- OneEachCart
  UsageLimit = 5
  UsageLimitPerUser = 1
  MaxAttempts = 2
  MaxReturned = 1
  MaxCrashes = 1
CHECK_DEADLOCK FALSE
INVARIANTS
  CheckoutInv
  OneCheckoutPerKey
  CouponUsedPerCheckout
  AnswerMatchesOutcome
PROPERTIES
  ImplementsShop
  Answered
