SPECIFICATION Spec
CONSTANTS
  Tees = {t1, t2}
  Arns = {a, b}
  KeyPairs = {k1, k2, k3}
  RegionOf <- MCRegionOf
  Configs <- SomeConfigs
  InitialKey = None
  MaxFaults = 1
  MaxRuns = 3
  None = None
  Corrupt = Corrupt
  t1 = t1
  t2 = t2
  a = a
  b = b
  k1 = k1
  k2 = k2
  k3 = k3
INVARIANT TypeOK
INVARIANT EveryPathOpens
PROPERTIES OneIdentity NoSpuriousRefusal
SYMMETRY TeeSymmetry
CHECK_DEADLOCK FALSE
