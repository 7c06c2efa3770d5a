SPECIFICATION Spec
CONSTANTS
  Masters = {m1, m2}
  Procs = {p1}
  Grants = {g1, g2}
  Requests = {q1}
  Sizes = {1}
  DayEquivalence = 2
  PerGrantCap = 2
  PerTenantWindowCap = 3
  Faults = {"consume"}
  MaxFaults = 1
  NoOne = NoOne
SYMMETRY Symmetry
INVARIANTS
  RevokedTransferredNothing
CHECK_DEADLOCK FALSE
