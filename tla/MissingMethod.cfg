SPECIFICATION Spec
CONSTANTS
  ProgramNames = {"Kernel", "A"}
  ProgramMethods = {}
  BuiltinsNamed = {3, 5}
  ConstNames <- MCConstNames
  MethodNames <- MCMethodNames
  Arities <- MCArities
  Named <- MCNamed
  Supers <- MCSupers
  Receivers <- MCReceivers
  Flags <- MCFlags
  Initialize = "initialize"
  New = "new"
  HeapSize = 9
  MaxDepth = 2
  MaxDefs = 0
  NULL = NULL
  NullDeref = NullDeref
  WildRead = WildRead
CHECK_DEADLOCK FALSE
INVARIANT MissingMethodRaises
