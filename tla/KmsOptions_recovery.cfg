SPECIFICATION Spec
CONSTANTS
  Contexts = {c1, c2}
  None = None
INVARIANT TypeOK
INVARIANT OptionsFailEarly
INVARIANT OnlyContextBinds
