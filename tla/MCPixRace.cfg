SPECIFICATION Spec
CONSTANTS
  Procs = {p1, p2}
  Txids = {x1}
  EventTypes = {"paid"}
  Faults = {}
  MaxFaults = 0
  MaxBatch = 1
SYMMETRY Symmetry
INVARIANTS AckedMeansApplied
CHECK_DEADLOCK FALSE
