SPECIFICATION FairSpec
CONSTANTS
  Threads = {t1, t2}
  MaxData = 1
  MaxWrite = 1
  QueueLen = 1
  Memory = {TRUE}
  Losable = {}
  Eager = FALSE
  Early = FALSE
CHECK_DEADLOCK FALSE
PROPERTIES ReadersHear
