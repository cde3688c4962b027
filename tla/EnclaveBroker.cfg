SPECIFICATION FairSpec
CONSTANTS
  Callers = {tee, other}
  Cid <- MCCid
  Configs <- MCConfigs
  Prefixes = {p}
  Sizes = {3, 5}
  Limit = 5
  SaveOverhead = 2
  ObjectOverhead = 1
  Slots = {s1, s2}
  MaxStarts = 2
  None = None
  tee = tee
  other = other
  cid = cid
  s1 = s1
  s2 = s2
  p = p
  q = q
INVARIANTS TypeOK ToldHolds
PROPERTIES SavedIsLoadable CallersReturn
CHECK_DEADLOCK FALSE
