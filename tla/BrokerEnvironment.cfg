SPECIFICATION Spec
CONSTANTS
  Chars <- MCChars
  Spellings <- MCSpellings
  Files <- MCFiles
  Default <- MCDefault
  None = None
INVARIANTS AllowedIsBelow SameSettingsSamePlace ScriptInitializes
CHECK_DEADLOCK FALSE
