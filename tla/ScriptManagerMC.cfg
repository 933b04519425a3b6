SPECIFICATION Spec
CONSTANTS
  f1 = f1
  t1 = t1
  t2 = t2
  Long = Long
  Empty = Empty
  None = None
  MAX_SCRIPTS = 2
  Numbers <- Wide
  Edited <- FirstOnly
  Files <- OneFile
  Texts <- TwoTexts
SYMMETRY TextSymmetry
INVARIANTS RunsWhatIsSaved LiveRunsLatest
PROPERTY FilesSaved
