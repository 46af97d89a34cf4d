SPECIFICATION Spec
CONSTANTS
  Threads = {t1, t2}
  Files = {f1, f2}
  Boards = {b1, b2}
  NoThread = NoThread
  NoFile = NoFile
  NoBoard = NoBoard
  PCIEDEV_NR_DEVS = 1
  Calls = {"rw"}
  UserFaults = TRUE
  SerialHotplug = FALSE
  MaxRef = 2
  MaxCount = 0
SYMMETRY Symmetry
INVARIANT FileOnItsList
INVARIANT HandlesTracked
INVARIANT RefCoversList
INVARIANT RemoveDetachesFiles
CHECK_DEADLOCK FALSE
