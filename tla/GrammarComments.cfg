SPECIFICATION Spec
CONSTANTS
  Length = 1
  Damages = 1
  Corpus <- RefusedCorpus
CHECK_DEADLOCK FALSE
INVARIANT ReadAsWritten
