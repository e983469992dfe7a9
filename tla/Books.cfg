\* Expiring and other income, payments, transfers and refunds over midnights.
CONSTANTS
  i1 = i1
  i2 = i2
  i3 = i3
  p1 = p1
  c1 = c1
  r1 = r1
  r2 = r2
  budget = budget
  user = user
  peer = peer
  shop = shop
  Txns = {i1, i2, i3, p1, c1, r1, r2}
  Accounts <- MCAccounts
  Req <- MCReq
  BookEnabled <- MCBookEnabled
  AllowOverdraft <- MCAllowOverdraft
  MaxOverdraftLimit <- MCMaxOverdraftLimit
  NoExpire = 12
  MaxDays = 6
  WindowsPerDay = 2
  MaxClock = 5
SPECIFICATION Spec
INVARIANTS AccountIsSumOfBooks Conservation CreditNeverRefused SpreadAsReference RefundsTile NoOverdraft AvailableIsSpendable
PROPERTY FirstExpiryFirst
CHECK_DEADLOCK FALSE
