SPECIFICATION Spec
CONSTANTS
  i1 = i1
  i2 = i2
  i3 = i3
  i4 = i4
  i5 = i5
  i6 = i6
  None = None
  Insts <- SixInsts
  Starts <- ThreeStarts
  Maxs <- Before2And3
  Cap = 6
SYMMETRY Symmetry
INVARIANTS Shape Frontier HeapOrder
PROPERTIES PrioQueueSpec Descends
