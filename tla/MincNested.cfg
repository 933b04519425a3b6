SPECIFICATION Spec
CONSTANTS
  Code <- Nested
  Statements <- NestedStatements
  Symbols <- TwoSymbols
  Declarations <- OneDeclaration
  Objs <- FiveObjs
  MAXSTACK = 3
  MAXDISPARGS = 2
  MAX_LISTS = 9
  MaxNotes = 1
  MaxLen = 2
  MaxStatements = 4
INVARIANT UnrefsLive
CHECK_DEADLOCK FALSE
