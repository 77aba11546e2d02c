SPECIFICATION Spec
CONSTANTS
  Chars <- MCChars
  MaxNameSize = 3
  MaxLen = 4
INVARIANTS
  NameValidationMatchesSpec
