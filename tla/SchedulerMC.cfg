SPECIFICATION FairSpec
CONSTANTS
  Notes <- MixNotes
  Slot <- MixSlot
  Bus <- ChainBus
  PlayList <- ChainPlayList
  RTBUFSAMPS = 2
  Starts <- MixStarts
  Durs <- MixDurs
  ULong = 1000
  MaxSamp = 4
INVARIANTS SliceComplete FramesRun AuxReady NoFault DueFirst
PROPERTY NotesEnd
