SPECIFICATION Spec
CONSTANTS
  h1 = h1
  h2 = h2
  m1 = m1
  m2 = m2
  m3 = m3
  t1 = t1
  t2 = t2
  s1 = s1
  Handlers = {h1, h2}
  Messages = {m1, m2, m3}
  Tenants = {t1, t2}
  Senders = {s1}
  TenantOf <- SentTo
  SenderOf <- SentBy
  OccurredAt <- SentAt
  Faults <- AllFaults
  MaxFaults = 1
  MaxDeliveries = 2
  MaxToggles = 2
INVARIANTS TwoCallsStoreOne
CHECK_DEADLOCK FALSE
