CHECK_DEADLOCK FALSE
CONSTANTS
  Texts <- MCTexts
  MaxLength = 2
  MaxArgs = 2
  NDEBUG = FALSE
SPECIFICATION Spec
INVARIANTS
  SuffixIfNotPlain
