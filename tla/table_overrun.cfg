SPECIFICATION Spec
CONSTANTS
  Threads = {t1}
  Files = {f1}
  Boards = {b1, b2}
  NoThread = NoThread
  NoFile = NoFile
  NoBoard = NoBoard
  PCIEDEV_NR_DEVS = 1
  Calls = {"rw"}
  UserFaults = FALSE
  SerialHotplug = TRUE
  MaxRef = 1
  MaxCount = 2
INVARIANT TableNotOverrun
CHECK_DEADLOCK FALSE
