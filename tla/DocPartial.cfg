CONSTANTS
  m1 = m1
  m2 = m2
  a = a
  b = b
  o1 = o1
  o2 = o2
  c1 = c1
  c2 = c2
  k1 = k1
  n1 = n1
  d1 = d1
  d2 = d2
  d3 = d3
  t1 = t1
  t2 = t2
  f1 = f1
  p1 = p1
  p2 = p2
  x1 = x1
  x2 = x2
  None = None
  Requests = {p1, p2}
  Batches = {{p1, p2}}
  Req <- MCReq
  Merchants = {m1, m2}
  Users = {a}
  OutTradeNos = {o1, o2}
  Numbers <- MCNumbers
  Budget <- MCBudget
  Receivable <- MCReceivable
  OpenedFirst <- MCOpenedFirst
  OpenedBook = {5}
  MaxAttempts = 3
  MaxFaults = 0
SPECIFICATION FairSpec
PROPERTY PatchIsPartial
CHECK_DEADLOCK FALSE
