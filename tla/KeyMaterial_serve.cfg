SPECIFICATION FairSpec
CONSTANTS
  Tees = {t1}
  Arns = {a, b}
  KeyPairs = {k1, k2, k3}
  RegionOf <- MCRegionOf
  Configs <- AllConfigs
  InitialKey = k1
  MaxFaults = 2
  MaxRuns = 2
  None = None
  Corrupt = Corrupt
  t1 = t1
  t2 = t2
  a = a
  b = b
  k1 = k1
  k2 = k2
  k3 = k3
PROPERTY NoSpuriousRefusal
PROPERTY FirstHealthyKeyServes
CHECK_DEADLOCK FALSE
PROPERTY RunsEnd
