SPECIFICATION Spec
CONSTANTS
  Threads = {t1, t2}
  Files = {f1}
  Boards = {b1, b2}
  NoThread = NoThread
  NoFile = NoFile
  NoBoard = NoBoard
  PCIEDEV_NR_DEVS = 2
  Calls = {"rw"}
  UserFaults = FALSE
  SerialHotplug = FALSE
  MaxRef = 2
  MaxCount = 2
INVARIANT OneBoardPerStructure
CHECK_DEADLOCK FALSE
