SPECIFICATION Spec
CONSTANTS
  Code <- Script
  Statements <- ScriptStatements
  Symbols <- TwoSymbols
  Declarations <- Redeclarations
  Objs <- SevenObjs
  MAXSTACK = 3
  MAXDISPARGS = 2
  MAX_LISTS = 3
  MaxNotes = 2
  MaxLen = 2
  MaxStatements = 3
INVARIANTS RefsExact ListsClosed
PROPERTY NotesKeepFields
CHECK_DEADLOCK FALSE
