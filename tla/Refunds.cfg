\* Two instances: a transfer that is refused until another one funds it, and two
\* refunds of it that together exceed it.
SPECIFICATION Spec
CONSTANTS
  t1 = t1
  t2 = t2
  r1 = r1
  r2 = r2
  user = user
  shop = shop
  n1 = n1
  n2 = n2
  MaxLoad = 3
  Txns = {t1, t2, r1, r2}
  Nodes = {n1, n2}
  Shards = {0, 1}
  Accounts <- MCAccounts
  Req <- MCReq
  ShardOf <- MCTwoShards
  InitBalance <- MCPoor
  AllowOverdraft <- MCAllowOverdraft
  MaxOverdraftLimit <- MCMaxOverdraftLimit
  MaxPending = 2
  CapUpdates = {}
  HookUpdates = {}
  MaxFaults = 0
  MaxCrashes = 0
SYMMETRY NodeSymmetry
CONSTRAINT BoundedLoad
INVARIANTS Conservation RefundableIsJournal BalanceIsJournal
PROPERTIES ImplementsContract
