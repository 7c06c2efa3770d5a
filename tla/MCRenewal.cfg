SPECIFICATION FairSpec
CONSTANTS
  t1 = t1
  t2 = t2
  r1 = r1
  r2 = r2
  a1 = a1
  a2 = a2
  Tenants = {t1, t2}
  Renewers = {r1, r2}
  Allocators = {a1}
  Month = 1
  Base <- Staggered
  BatchSize = 1
  PublishMaxRetries = 2
  MaxDeliver = 2
  Faults <- AllFaults
  MaxFaults = 1
  Managed = {t1}
  MaxExtensions = 1
  MaxAssigns = 1
  MaxNow = 2
CHECK_DEADLOCK FALSE
INVARIANTS
  TypeOK
  CreditedOncePerInvoice
  EveryDayBilledOnce
PROPERTIES
  CancelledIsFinal
  DueIsRenewed
  PublishedIsCredited
