\* Requests of three units that arrive in any pieces, their blank line within
\* the first two, read at most two units at a time, from two clients that
\* share one descriptor, under the fairness of the server's thread; no
\* symmetry, because of the liveness.
SPECIFICATION FairSpec
CONSTANTS
  Conns = {c1, c2}
  Fds = {f1}
  Lfd = lfd
  Listener = listener
  None = none
  ReqLen = 3
  HeaderLen = 2
  BufSize = 2
  MaxEvents = 2
  MaxSignals = 2
INVARIANTS
  NoLostEdge
  CompleteRequestAnswered
PROPERTIES
  AnsweredOnce
  Served
  StopLeavesLoop
  ImplementsConnectionLife
