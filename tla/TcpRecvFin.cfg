SPECIFICATION Spec
CONSTANTS
  M = 64
  ISN = 60
  N = 6
  MaxSeg = 5
  TCP_WND = 6
  MSS = 3
  TCP_WND_UPDATE_THRESHOLD = 2
  Answers = {"ERR_OK"}
  Memory = {TRUE}
  FinBeyond = TRUE
INVARIANTS NoPanic
CHECK_DEADLOCK FALSE
