\* Two setups and a rotation of the secret that share a pool, with two faults.
SPECIFICATION FairSpec
CONSTANTS
  s1 = s1
  s2 = s2
  s3 = s3
  c1 = c1
  k1 = k1
  r1 = r1
  k2 = k2
  p1 = p1
  p2 = p2
  u1 = u1
  u2 = u2
  None = None
  Users = {u1, u2}
  UserOf <- MCUserOf
  Setups = {s1, s2}
  Creates = {}
  AdminCreates = {}
  Rotates = {}
  AdminRotates = {r1}
  Processes = {p1, p2}
  ServedBy <- MCServedBy
  PoolSize = 3
  MaxFaults = 2
INVARIANTS InitializedIsComplete OneInitialization SecretsAgree
PROPERTIES InitializedIsFinal SetupGoesThrough
CHECK_DEADLOCK FALSE
