SPECIFICATION Spec
CONSTANTS
  o1 = o1
  o2 = o2
  r1 = r1
  s1 = s1
  w1 = w1
  w2 = w2
  Orders = {o1}
  Refs = {r1}
  NoRef = NoRef
  RefOf <- OneRef
  Sellers = {s1}
  Platform = Platform
  SellerOf <- OneSeller
  PayoutIds = {}
  NoPayout = NoPayout
  Handlers = {w1, w2}
  Targets = {"delivered", "cancelled"}
  NItems = 2
  MaxRestocks = 1
  MaxRefunds = 1
  MaxDuplicates = 1
  MaxCrashes = 1
SYMMETRY Symmetry
CONSTRAINT OneFault
INVARIANTS
  TypeOK
  RefundFollowsPayment
  OneMailPerPayment
  CancelledWasRestocked
PROPERTIES
  PaymentHistoryKept
