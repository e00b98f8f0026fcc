\* Files of one line and names of one second: a full directory is purged, a
\* full file reopened, with a restart, a deletion and failures at any point.  The
\* process may end for good.
SPECIFICATION FairSpec
CONSTANTS
  MaxFileSize = 1
  MaxBackupFiles = 2
  BatchSize = 2
  TicksPerSecond = 2
  MaxLines = 4
  MaxTicks = 6
  MaxStarts = 2
  MaxDeletes = 1
INVARIANTS
  TypeOK
  DiskHoldsNewest
  FilesBounded
PROPERTIES
  EveryLineWritten
CHECK_DEADLOCK FALSE
