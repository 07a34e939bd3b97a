SPECIFICATION Spec
CONSTANTS
  Checkouts = {1, 2}
  Baskets <- MCBaskets
  Platform = "platform"
  Grain = 10
  Base = "NGN"
  Whole = {"JPY"}
  Tables <- MCTables
  Fallback <- MCFallback
  Threshold = 10
  Percent <- MCPercent
  MaxRefreshes = 1
CHECK_DEADLOCK FALSE
INVARIANTS
  SplitInv
  ChargeInv
  SellersGetTheirShare
