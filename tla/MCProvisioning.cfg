SPECIFICATION MCSpec
CONSTANTS
  Store = {s1, s2}
  Token = {k1, k2, k3, k4}
  NoToken = NoToken
  Lease = 3
  Margin = 1
  Capacity = 1
  MaxFaults = 3
  MaxLate = 2
INVARIANTS
  TypeOK
  LeaseBelief
  ReadyIsServing
  AdmittedFits
PROPERTIES
  LifeKept
  JobDecided
