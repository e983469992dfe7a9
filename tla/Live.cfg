\* One instance, queues of one txn, a crash.
SPECIFICATION FairSpec
CONSTANTS
  t1 = t1
  t2 = t2
  r1 = r1
  r2 = r2
  user = user
  shop = shop
  n1 = n1
  n2 = n2
  MaxLoad = 9
  Txns = {t1, t2}
  Nodes = {n1}
  Shards = {0}
  Accounts <- MCAccounts
  Req <- MCReq
  ShardOf <- MCShardOf
  InitBalance <- MCPoor
  AllowOverdraft <- MCAllowOverdraft
  MaxOverdraftLimit <- MCUnlimited
  MaxPending = 1
  CapUpdates = {}
  HookUpdates = {}
  MaxFaults = 0
  MaxCrashes = 1
INVARIANTS PendingIsQueued
PROPERTIES EventuallyTerminal
