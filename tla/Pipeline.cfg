SPECIFICATION Spec
CONSTANTS
  Runs = {"first", "long", "last"}
  Pieces <- MCPieces
  None = "none"
  MaxAtOnce = 2
  MaxFaults = 1
CHECK_DEADLOCK FALSE
INVARIANTS
  TypeOK
  RunsWhatItCompiled
PROPERTIES
  LoadedIsFinal
