SPECIFICATION FairSpec
CONSTANTS
  Threads = {h1, h2}
  Keys = {m}
  Bodies = {x, y}
  MaxRequests = 3
  None = None
  h1 = h1
  h2 = h2
  m = m
  x = x
  y = y
INVARIANT TypeOK
PROPERTIES StorePromise Answered
CHECK_DEADLOCK FALSE
