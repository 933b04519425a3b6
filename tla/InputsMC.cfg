SPECIFICATION Spec
CONSTANTS
  Files = {f1, f2}
  Arrays = {a1, a2}
  AUDIO = AUDIO
  BufNames = {MMBUF}
  max_input_fds = 3
  MAX_MM_BUFS = 1
  MaxInsts = 2
  None = None
  USE_MM_BUF = USE_MM_BUF
INVARIANTS
  ReadsWhatWasAsked
  OpenedOnce
  LiveUntilEnded
CHECK_DEADLOCK FALSE
