\* One signal, at any moment of the start.
SPECIFICATION FairSpec
CONSTANTS
  Conns = {c1}
  Fds = {f1}
  Lfd = lfd
  Listener = listener
  None = none
  ReqLen = 1
  HeaderLen = 1
  BufSize = 2
  MaxEvents = 2
  MaxSignals = 1
PROPERTIES
  GracefulStop
