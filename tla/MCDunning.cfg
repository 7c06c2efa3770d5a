SPECIFICATION FairSpec
CONSTANTS
  Subs = {s1}
  WarnDays = 1
  OutboundBlockDays = 2
  ReadonlyDays = 3
  CancelDays = 4
  BatchSize = 1
  MonthDays = 2
  FreeDays = {2}
  MaxDay = 4
  MaxInvoices = 2
  MaxGrants = 1
  MaxFaults = 1
  None = None
INVARIANTS TypeOK SanctionExplained
PROPERTIES CancelledIsLeftAlone PaidRecovers UnpaidIsCancelled
