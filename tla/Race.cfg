\* Two instances, one transfer the payer could pay twice, a fault, a crash,
\* a capability that is withdrawn and a webhook that is switched off.
SPECIFICATION Spec
CONSTANTS
  t1 = t1
  t2 = t2
  r1 = r1
  r2 = r2
  user = user
  shop = shop
  n1 = n1
  n2 = n2
  MaxLoad = 3
  Txns = {t1}
  Nodes = {n1, n2}
  Shards = {0}
  Accounts <- MCAccounts
  Req <- MCReq
  ShardOf <- MCShardOf
  InitBalance <- MCRich
  AllowOverdraft <- MCAllowOverdraft
  MaxOverdraftLimit <- MCMaxOverdraftLimit
  MaxPending = 2
  CapUpdates = {{"credit_in", "transfer"}}
  HookUpdates = {FALSE}
  MaxFaults = 1
  MaxCrashes = 1
SYMMETRY NodeSymmetry
CONSTRAINT BoundedLoad
INVARIANTS ExactlyOnce EventWithSettlement
