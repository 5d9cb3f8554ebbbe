SPECIFICATION Spec
CONSTANTS
  Length = 4
  Damages = 16
  Corpus <- MCCorpus
CHECK_DEADLOCK FALSE
INVARIANTS
  EachTokenOnce
  BracketsMatch
  ReadAsWritten
