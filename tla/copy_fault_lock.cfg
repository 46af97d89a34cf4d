SPECIFICATION FairSpec
CONSTANTS
  Threads = {t1, t2}
  Files = {f1}
  Boards = {b1}
  NoThread = NoThread
  NoFile = NoFile
  NoBoard = NoBoard
  PCIEDEV_NR_DEVS = 1
  Calls = {"rw"}
  UserFaults = TRUE
  SerialHotplug = TRUE
  MaxRef = 1
  MaxCount = 2
PROPERTY CallsReturn
CHECK_DEADLOCK FALSE
