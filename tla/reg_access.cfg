SPECIFICATION Spec
CONSTANTS
  Threads = {t1, t2}
  NoThread = NoThread
  Bits = {b0}
  BarSize = 8
  ScratchOffsets = {6}
  ShapiScratch = 4
  Requests <- MCRequests
SYMMETRY Symmetry
INVARIANT TypeOK
INVARIANT LoopInsideBar
INVARIANT OnlyLastRegisterLost
INVARIANT GoneBoardDetected
INVARIANT LinkErrorIsReal
PROPERTY WritesAreExact
