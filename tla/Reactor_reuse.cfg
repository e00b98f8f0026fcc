\* Three clients for two descriptors: descriptors are closed and reused, two
\* clients share a batch, the third waits for a descriptor.  A request is one
\* piece, and a signal may come anywhere.
SPECIFICATION Spec
CONSTANTS
  Conns = {c1, c2, c3}
  Fds = {f1, f2}
  Lfd = lfd
  Listener = listener
  None = none
  ReqLen = 1
  HeaderLen = 1
  BufSize = 2
  MaxEvents = 2
  MaxSignals = 2
SYMMETRY Symmetry
INVARIANTS
  TypeOK
  CallbackChannelAlive
  OneOwnerPerDescriptor
  RetiredOnce
  EveryDescriptorIsOwned
