\* Every listing, with up to four rows written and moved while pages are read.
SPECIFICATION Spec
CONSTANTS
  None = None
  Rows = {1, 2, 3, 4}
  MaxClock = 1
  Asked <- MCAsked
  DefaultSize = 1
  MaxSize = 3
  Lists = {"transactions", "adminTransactions", "changeLogs", "outbox", "audit", "merchants", "customers", "accounts"}
  MaxFaults = 1
INVARIANTS PagesInOrder ScanIsComplete MemoryAsDatabase
CHECK_DEADLOCK FALSE
