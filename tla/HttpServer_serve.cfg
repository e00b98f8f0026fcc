\* More clients than descriptors, so that descriptors are reused and those
\* that throwing requests leave open may run out.  One worker, beside the
\* accepting thread; the theorems hold for any number.
SPECIFICATION FairSpec
CONSTANTS
  Workers = {w1}
  Clients = {1, 2, 3}
  Requests <- MCRequests
  Symbols <- MCSymbols
  Routes <- MCRoutes
  Fds = {5, 6}
  Total = 2
  None = none
INVARIANTS
  TypeOK
  DescriptorsOwned
  WholeAnswers
  ParsedAsSent
PROPERTIES
  
  StopEnds
