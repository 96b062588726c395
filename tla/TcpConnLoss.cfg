SPECIFICATION FairSpec
CONSTANTS
  Threads = {t1}
  MaxData = 1
  MaxWrite = 2
  QueueLen = 1
  Memory = {TRUE}
  Losable = {"ESTABLISHED", "CLOSE_WAIT", "FIN_WAIT", "CLOSING", "LAST_ACK"}
  Eager = FALSE
  Early = FALSE
CHECK_DEADLOCK FALSE
PROPERTIES LossHeard
