SPECIFICATION FairSpec
CONSTANTS
  Tasks = {t1, t2, t3}
  Ids = {a1, a2}
  Mutexes = {m1, m2, m3, m4, m5}
  NoId = NoId
  NoTask = NoTask
  NoMutex = NoMutex
  Cancellation = TRUE
INVARIANT WaitersKeepEntry
PROPERTIES ImplementsKeyedMutex WaiterServed
