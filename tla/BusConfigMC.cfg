SPECIFICATION Spec
CONSTANTS
  MAXBUS = 9
  NCHANS = 8
  Names = {"FX"}
  Configs <- AllSlots
  MaxConfigs = 4
INVARIANTS Acyclic PlayedOnce PlayedInOrderOnOnePath AllPlayed
