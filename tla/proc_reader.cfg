SPECIFICATION Spec
CONSTANTS
  Boards <- MCBoards
  Chip <- MCChip
  NoBoard = NoBoard
  desy_chain = desy_chain
  desy_bars = desy_bars
  desy_cycle = desy_cycle
  shapi_chain = shapi_chain
  shapi_bar = shapi_bar
  plain = plain
  NUMBER_OF_BARS = 3
  Offsets = {1, 2}
  Elsewhere = {desy_bars, plain}
  Vectors = {0, 1}
  PCIEDEV_NR_DEVS = 1
  MaxRefused = 0
  MaxKept = 2
  MaxWalk = 4
INVARIANT ReaderOnLiveProject
CHECK_DEADLOCK FALSE
