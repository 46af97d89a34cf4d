SPECIFICATION FairSpec
CONSTANTS
  Threads = {t1, t2}
  NoThread = NoThread
  Calls = {"short", "remove"}
  MaxIter = 2
PROPERTY GuiltyIsReclaimed
