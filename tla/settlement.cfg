SPECIFICATION SettlementSpec
CONSTANTS
  o1 = o1
  o2 = o2
  r1 = r1
  s1 = s1
  s2 = s2
  w1 = w1
  a1 = a1
  a2 = a2
  p1 = p1
  p2 = p2
  Orders = {o1, o2}
  Refs = {r1}
  NoRef = NoRef
  RefOf <- OneRef
  Sellers = {s1, s2}
  Platform = Platform
  SellerOf <- OneSeller
  PayoutIds = {p1, p2}
  NoPayout = NoPayout
  Handlers = {w1}
  Targets = {"delivered"}
  NItems = 1
  MaxRestocks = 1
  MaxRefunds = 1
  MaxDuplicates = 0
  MaxCrashes = 0
  Runs = {a1, a2}
  Registered = {s1}
  MaxTransfers = 1
  MaxFaults = 1
SYMMETRY Symmetry
CONSTRAINT OneKindOfTrouble
INVARIANTS
  PayoutsInv
PROPERTIES
  PayoutsTagEligible
  ImplementsLedger
