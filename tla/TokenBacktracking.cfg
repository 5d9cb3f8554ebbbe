SPECIFICATION Reader
CONSTANTS
  Alphabet = {"alpha", "space", "other", "hash", "single"}
  MaxLength = 4
  Wide = {"newline", "double", "hash", "op", "colon", "dot", "alpha", "digit"}
  WideLength = 3
  Inputs <- MCInputs
  MaxTokens = 5
  MaxFrames = 3
CHECK_DEADLOCK FALSE
INVARIANTS
  TypeOK
  TokenInHand
  FramesShowWhatTheySaw
  TerminatesOnlyAtFirstToken
  StreamIsTiled
PROPERTIES
  LexedOnce
  CursorSpec
  ReadingEnds
