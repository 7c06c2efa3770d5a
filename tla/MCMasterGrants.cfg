SPECIFICATION Spec
CONSTANTS
  Masters = {m1, m2}
  Procs = {p1, p2}
  Grants = {g1, g2, g3}
  Requests = {q1, q2}
  Sizes = {1, 3}
  DayEquivalence = 2
  PerGrantCap = 2
  PerTenantWindowCap = 3
  Faults = {"create", "get", "refresh", "load", "save", "credit", "consume"}
  MaxFaults = 1
  NoOne = NoOne
SYMMETRY Symmetry
INVARIANTS
  TypeOK
  ConsumedTookEffect
  OverCapIsFourEyes
  OvershootIsBounded
CHECK_DEADLOCK FALSE
