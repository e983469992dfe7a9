SPECIFICATION Spec
CONSTANTS
  m1 = m1
  m2 = m2
  m3 = m3
  Merchants = {m1, m2, m3}
  AccountTypes = {"BUDGET", "CUSTOMER", "WRITEOFF", "GENERAL"}
  Mapping <- MCMapping
  Sequence = {0, 5, 9, 36, 90, 99, 100}
  merchantSeqDigits = 2
  customerSeqDigits = 2
  accountSeqDigits = 2
  MaxCalls = 2
INVARIANTS CodesWellFormed CodesDistinct MistypedIsRefused
CHECK_DEADLOCK FALSE
