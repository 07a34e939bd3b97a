SPECIFICATION BackOfficeSpec
CONSTANTS
  c1 = c1
  c2 = c2
  c3 = c3
  c4 = c4
  p1 = p1
  p2 = p2
  NoOne = NoOne
  Webhook = Webhook
  Calls = {c1, c2, c3, c4}
  Pages = {p1, p2}
  Docs = {1, 2}
  InitialStock = 2
  MaxLost = 1
  MaxSales = 1
  Targets = {"placed", "shipped"}
  Workloads <- MCWorkloads
SYMMETRY Perms
CHECK_DEADLOCK FALSE
INVARIANTS
  RowsInv
  RefundDeskInv
  FormsInv
PROPERTIES
  StatusRevertsNeedAnother
