SPECIFICATION FairSpec
CONSTANTS
  Notes <- LateNotes
  Slot <- LateSlot
  Bus <- LateBus
  PlayList <- LatePlayList
  RTBUFSAMPS = 2
  Starts <- LateStarts
  Durs <- LateDurs
  ULong = 1000
  MaxSamp = 4
INVARIANTS TypeOK InBuffer EndsOnTime RefsCounted
PROPERTY QueuedNotesEnd
CHECK_DEADLOCK FALSE
