\* Batches of concurrent requests for one user and its accounts, with a fault.
CONSTANTS
  m1 = m1
  m2 = m2
  a = a
  b = b
  o1 = o1
  o2 = o2
  c1 = c1
  c2 = c2
  k1 = k1
  n1 = n1
  d1 = d1
  d2 = d2
  d3 = d3
  t1 = t1
  t2 = t2
  f1 = f1
  p1 = p1
  p2 = p2
  x1 = x1
  x2 = x2
  None = None
  Requests = {c1, c2, k1, n1, f1, d1, d2, d3, t1, t2, p1, x1, x2}
  Batches <- MCBatches
  Req <- MCReq
  Merchants = {m1, m2}
  Users = {a}
  OutTradeNos = {o1, o2}
  Numbers <- MCNumbers
  Budget <- MCBudget
  Receivable <- MCReceivable
  OpenedFirst <- MCOpenedFirst
  OpenedBook = {5}
  MaxAttempts = 2
  MaxFaults = 1
SPECIFICATION FairSpec
INVARIANTS OwnerHasDefault PartiesBelong AnswerIsTrue
PROPERTIES DefaultNeverMoves Answered
CHECK_DEADLOCK FALSE
