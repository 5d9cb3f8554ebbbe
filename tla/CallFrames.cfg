SPECIFICATION Spec
CONSTANTS
  Methods <- MCMethods
  Meta <- MCMeta
  Main = "top_required"
  Blocks = {b1, b2}
  Nil = Nil
  Null = Null
  ArgCounts = {0, 1, 6, 8}
  MaxDepth = 4
CHECK_DEADLOCK FALSE
INVARIANTS
  TypeOK
  BlockIsTheCallers
  HashFollowsArguments
  ArgumentsArrive
