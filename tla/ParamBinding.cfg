CHECK_DEADLOCK FALSE
CONSTANTS
  Texts <- MCTexts
  MaxLength = 5
  MaxArgs = 6
  NDEBUG = TRUE
SPECIFICATION Spec
INVARIANTS
  TypeOK
  ListsFollowTheText
  MethodIsAccepted
  EveryArgumentOnce
  FilledFromTheLeft
  GivesUpOnlyWhenUnbindable
