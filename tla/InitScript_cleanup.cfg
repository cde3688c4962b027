SPECIFICATION FairSpec
CONSTANTS
  Timeout = 4
  MaxFailures = 2
INVARIANT TypeOK
 
PROPERTY ScriptEnds
CHECK_DEADLOCK FALSE
