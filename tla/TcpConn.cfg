SPECIFICATION FairSpec
CONSTANTS
  Threads = {t1, t2, t3}
  MaxData = 2
  MaxWrite = 2
  QueueLen = 2
  Memory = {TRUE, FALSE}
  Losable = {"ESTABLISHED", "CLOSE_WAIT", "FIN_WAIT", "CLOSING", "LAST_ACK"}
  Eager = TRUE
  Early = TRUE
CHECK_DEADLOCK FALSE
INVARIANTS NoSleepOnData FreedOnlyByLoss
PROPERTIES NothingAfterClose AckWakesWriter
