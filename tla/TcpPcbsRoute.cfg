SPECIFICATION FairSpec
CONSTANTS
  p1 = p1  p2 = p2  p3 = p3  l1 = l1  l2 = l2  a = a  b = b
  Pcbs = {p1}
  LPcbs = {l1}
  Peers = {a}
  NoPeer = NoPeer
  Ports = {7}
  EphPorts = {100}
  Prios = {1}
  TCP_PRIO_NORMAL = 2
  TCP_PRIO_MAX = 3
  LISTEN_PRIO = 0
  TCP_MAXRTX = 1
  TCP_SYNMAXRTX = 1
  FinWaitTicks = 1
  SynRcvdTicks = 1
  MslTicks = 1
  MaxAge = 2
  Routes = {TRUE, FALSE}
  ErrfSet = TRUE
  AbortUnconnected = FALSE
PROPERTY ConnectEnds
