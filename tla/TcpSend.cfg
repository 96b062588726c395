SPECIFICATION Spec
CONSTANTS
  M = 32
  ISS = 30
  N = 3
  Chunk = 2
  TCP_MSS = 2
  PeerMss = 2
  TCP_SND_BUF = 3
  TCP_SND_QUEUELEN = 3
  W = 22
  W8 = 5
  TCP_MAXRTX = 2
  TCP_SYNMAXRTX = 1
  PeerBuf = 2
  NetCap = 2
  Duplicates = {FALSE}
  Copy = TRUE
  NoDelay = FALSE
INVARIANTS NoByteLost SendAccounts PeerNotOverrun TimerArmed
PROPERTIES DeliversByteStream
CHECK_DEADLOCK FALSE
