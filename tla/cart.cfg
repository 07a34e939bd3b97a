SPECIFICATION Spec
CONSTANTS
  c1 = c1
  c2 = c2
  c3 = c3
  p1 = p1
  p2 = p2
  i1 = i1
  i2 = i2
  Requests = {c1, c2, c3}
  NoOne = NoOne
  Pages = {p1, p2}
  Items = {i1, i2}
  Stock <- MCStock
  InitialCarts <- MCCarts
  Workloads <- MCWorkloads
  MaxQty = 2
  MaxForms = 2
  MaxLost = 1
SYMMETRY Perms
CHECK_DEADLOCK FALSE
INVARIANTS
  CartInv
  ShownCartSettles
  LostEditNeedsOverlap
