\* Tasks are added by their own threads while the timer is started and stopped.
SPECIFICATION FairSpec
CONSTANTS
  Tasks <- MCTasks
  Delay <- MCDelay
  Period <- MCPeriod
  MaxLate = 3
INVARIANTS
  TypeOK
  StoppedIsQuiet
  NothingLost
PROPERTIES
  TasksRun
  StopReturns
