SPECIFICATION FairSpec
CONSTANTS
  MinNum = 1
  MaxNum = 1
  Producers = {p1}
  Tasks = {t1}
  NoTask = NoTask
PROPERTY EveryTaskRuns
CHECK_DEADLOCK FALSE
