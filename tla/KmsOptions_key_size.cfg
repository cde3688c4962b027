SPECIFICATION Spec
CONSTANTS
  Contexts = {c1}
  None = None
INVARIANT EitherKeySizeProvisions
