\* One event, two instances: two pollers and a hinted worker, a change of configuration, a fault.
CONSTANTS
  m1 = m1
  a = a
  b = b
  pa = pa
  pb = pb
  ha = ha
  Events = {1}
  Merchants = {m1}
  MerchantOf <- MCMerchantOf
  Instances = {a, b}
  Pollers = {pa, pb}
  Hinted = {ha}
  InstanceOf <- MCInstanceOf
  MaxRetries = 2
  BatchSize = 1
  QueueSize = 1
  MaxVersion = 1
  MaxConfigs = 1
  MaxFaults = 1
SPECIFICATION FairSpec
INVARIANTS OneHolder SuccessIsEarned GivesUp
PROPERTIES TerminalIsFinal Converges
CHECK_DEADLOCK FALSE
