SPECIFICATION FairSpec
CONSTANTS
  Lexemes = {"call", ";", "if", "{", "}", ")", "bad", "/*", "*/", "//", "newline"}
  MaxLexemes = 6
  MaxScripts = 2
INVARIANTS RunsOnceInOrder RunsAll LevelCovers LevelReturns
PROPERTIES LeakLasts Returns
CHECK_DEADLOCK FALSE
