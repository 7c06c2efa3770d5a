SPECIFICATION FairSpec
CONSTANTS
  Subs = {s1, s2}
  WarnDays = 1
  OutboundBlockDays = 2
  ReadonlyDays = 3
  CancelDays = 4
  BatchSize = 1
  MonthDays = 2
  FreeDays = {}
  MaxDay = 4
  MaxInvoices = 1
  MaxGrants = 0
  MaxFaults = 0
  None = None
PROPERTIES UnpaidIsCancelled
