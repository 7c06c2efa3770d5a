SPECIFICATION FairSpec
CONSTANTS
  Procs = {p1, p2}
  Txids = {x1, x2}
  EventTypes = {"paid"}
  Faults = {"throttle", "record", "get", "save", "crash"}
  MaxFaults = 1
  MaxBatch = 2
INVARIANTS TypeOK OneApplierPerEvent
PROPERTIES PaidOrAlerted
CHECK_DEADLOCK FALSE
