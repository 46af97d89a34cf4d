SPECIFICATION FairSemSpec
CONSTANTS
  Threads = {t1, t2}
  NoThread = NoThread
  Calls = {"short", "nested", "leaky", "remove"}
  MaxIter = 2
  Files = {f1}
  NoFile = NoFile
INVARIANT SemTypeOK
INVARIANT MutualExclusion
INVARIANT SemaphoreConserved
INVARIANT OpenFilesAreListed
INVARIANT GoneFilesWereAbandoned
INVARIANT ToldPrograms
PROPERTY ImplementsRevocableLock
PROPERTY EntryIsBounded
