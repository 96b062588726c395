SPECIFICATION Spec
CONSTANTS
  M = 64
  ISN = 60
  N = 8
  MaxSeg = 5
  TCP_WND = 6
  MSS = 3
  TCP_WND_UPDATE_THRESHOLD = 2
  Answers = {"ERR_OK", "ERR_MEM"}
  Memory = {TRUE, FALSE}
  FinBeyond = FALSE
INVARIANTS StreamPrefix OoseqOrdered WindowExact NoPanic
PROPERTIES EdgeNeverRetreats ImplementsByteStream
