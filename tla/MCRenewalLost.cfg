SPECIFICATION FairSpec
CONSTANTS
  t1 = t1
  t2 = t2
  r1 = r1
  r2 = r2
  a1 = a1
  a2 = a2
  Tenants = {t1}
  Renewers = {r1}
  Allocators = {a1}
  Month = 2
  Base <- Staggered
  BatchSize = 1
  PublishMaxRetries = 2
  MaxDeliver = 3
  Faults <- PublishFaults
  MaxFaults = 2
  Managed = {t1}
  MaxExtensions = 0
  MaxAssigns = 0
  MaxNow = 2
CHECK_DEADLOCK FALSE
PROPERTIES
  RenewedIsCredited
