SPECIFICATION Spec
CONSTANTS
  ProgramNames = {"A"}
  ProgramMethods = {"m"}
  BuiltinsNamed = {3}
  ConstNames <- MCConstNames
  MethodNames <- MCMethodNames
  Arities <- MCArities
  Named <- MCNamed
  Supers <- MCSupers
  Receivers <- MCReceivers
  Flags <- MCFlags
  Initialize = "initialize"
  New = "new"
  HeapSize = 9
  MaxDepth = 2
  MaxDefs = 2
  NULL = NULL
  NullDeref = NullDeref
  WildRead = WildRead
CHECK_DEADLOCK FALSE
CONSTRAINT Small
INVARIANTS
  TypeOK
  TagMatchesType
  ChainsEnd
  BodyIsBound
  OneNameEach
  NearestWins
PROPERTIES
  ConstantsAreFinal
  IdentityIsFinal
  MethodsAreNeverLost
