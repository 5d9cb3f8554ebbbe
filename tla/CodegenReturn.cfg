SPECIFICATION Spec
CONSTANTS
  Statements = {"literal", "return"}
  Names = {}
  Parameters = {}
  RescueLists = {}
  MaxOperands = 1
  MaxStatements = 2
  MaxTests = 1
CHECK_DEADLOCK FALSE
INVARIANTS
  VerifierAccepts
