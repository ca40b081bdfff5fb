SPECIFICATION FairSpec
CONSTANTS
  Tasks = {t1, t2}
  Requests = {c1}
  NoTask = NoTask
  ListLimit = 1
  MaxStops = 2
  Faulty = {t2}
INVARIANT TypeOK
INVARIANT ActiveHasRunner
INVARIANT CancelStopsScan
PROPERTY EndedOnce
PROPERTY EveryTaskEnds
CHECK_DEADLOCK FALSE
