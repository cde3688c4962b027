SPECIFICATION Spec
CONSTANTS
  Tees = {t1}
  Arns = {a, b}
  KeyPairs = {k1}
  RegionOf <- MCRegionOf
  Configs <- OneConfig
  InitialKey = k1
  MaxFaults = 1
  MaxRuns = 1
  None = None
  Corrupt = Corrupt
  t1 = t1
  t2 = t2
  a = a
  b = b
  k1 = k1
  k2 = k2
  k3 = k3
INVARIANT PrimaryLossTolerated
CHECK_DEADLOCK FALSE
