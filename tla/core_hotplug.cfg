SPECIFICATION Spec
CONSTANTS
  Threads = {t1, t2}
  Files = {f1}
  Boards = {b1, b2}
  NoThread = NoThread
  NoFile = NoFile
  NoBoard = NoBoard
  PCIEDEV_NR_DEVS = 2
  Calls = {"rw", "single_read", "single_nested"}
  UserFaults = TRUE
  SerialHotplug = TRUE
  MaxRef = 2
  MaxCount = 2
SYMMETRY Symmetry
INVARIANT TypeOK
INVARIANT AccessUsesLiveBar
INVARIANT OneBoardPerStructure
INVARIANT FreeStructureIsQuiet
INVARIANT ModuleNumCounts
PROPERTY ImplementsFileHandles
CHECK_DEADLOCK FALSE
