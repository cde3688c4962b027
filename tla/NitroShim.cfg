SPECIFICATION Spec
CONSTANTS
  None = None
  Error = Error
INVARIANT TypeOK
PROPERTY KeepsCallPromise
