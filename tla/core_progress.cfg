SPECIFICATION FairSpec
CONSTANTS
  Threads = {t1, t2}
  Files = {f1}
  Boards = {b1}
  NoThread = NoThread
  NoFile = NoFile
  NoBoard = NoBoard
  PCIEDEV_NR_DEVS = 1
  Calls = {"rw", "ioctl_rw", "ioctl_pre", "ioctl_info", "nolock"}
  UserFaults = FALSE
  SerialHotplug = TRUE
  MaxRef = 2
  MaxCount = 2
INVARIANT NoLockLeftBehind
INVARIANT NoHoldAndWait
PROPERTY CallsReturn
CHECK_DEADLOCK FALSE
