SPECIFICATION FairSpec
CONSTANTS
  Scores <- SomeScores
  MaxNotes = 2
  MaxLoads = 2
  None = "none"
INVARIANTS
  NotesAccounted
  FlushLeavesNothing
  SentWhatRan
PROPERTIES
  NotesEnd
  RefusalEnds
CHECK_DEADLOCK FALSE
