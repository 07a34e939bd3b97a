SPECIFICATION Spec
CONSTANTS
  c1 = c1
  c2 = c2
  c3 = c3
  s1 = s1
  o1 = o1
  t1 = t1
  t2 = t2
  Requests = {c1, c2, c3}
  Seeds = {s1}
  NoOne = NoOne
  Tabs = {t1, t2}
  Workloads <- MCWorkloads
  Other = o1
  MaxExpiries = 1
  MaxLost = 1
  MaxForeign = 1
CONSTRAINT OneCompany
CHECK_DEADLOCK FALSE
INVARIANTS
  BrowserInv
  FalseAlarmNeedsOverlap
  SignedOutStays
PROPERTIES
  CallsSettle
