SPECIFICATION Spec
CONSTANTS
  Chars <- MCChars
  Spellings <- MCSpellings
  Files <- MCFiles
  Default <- MCDefault
  None = None
INVARIANT NamedObjectIsManifest
CHECK_DEADLOCK FALSE
