SPECIFICATION Spec
CONSTANTS
  Statements = {"literal", "call", "absent", "return", "assign", "index", "read", "holder", "block", "if", "while", "case", "begin"}
  Names = {"x", "p"}
  Parameters = {"p"}
  RescueLists <- MCRescueLists
  MaxOperands = 2
  MaxStatements = 4
  MaxTests = 3
CHECK_DEADLOCK FALSE
INVARIANTS
  TypeOK
  BlocksEndOnce
  PhisMatchPredecessors
  OperandsAreDefined
  HandlersNest
  EnsureIsPassed
  RunsAsWritten
