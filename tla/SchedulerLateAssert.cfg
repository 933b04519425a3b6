SPECIFICATION Spec
CONSTANTS
  Notes <- LateNotes
  Slot <- LateSlot
  Bus <- LateBus
  PlayList <- LatePlayList
  RTBUFSAMPS = 2
  Starts <- LateStarts
  Durs <- LateDurs
  ULong = 1000
  MaxSamp = 6
INVARIANT ChunkstartAssert
CHECK_DEADLOCK FALSE
