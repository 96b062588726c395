SPECIFICATION Spec
CONSTANTS
  Threads = {t1}
  MaxData = 1
  MaxWrite = 2
  QueueLen = 1
  Memory = {TRUE}
  Losable = {}
  Eager = FALSE
  Early = FALSE
CHECK_DEADLOCK FALSE
INVARIANTS NoUseAfterFree
