\* The destructor against a worker on its way to sleep.
SPECIFICATION FairSpec
CONSTANTS
  N = 2
  Producers = {p1}
  Tasks = {t1}
  Blocking = {}
  NoTask = none
PROPERTIES
  DestructorReturns
