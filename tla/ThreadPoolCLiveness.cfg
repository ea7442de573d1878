SPECIFICATION FairSpec
CONSTANTS
  MinNum = 2
  MaxNum = 2
  Capacity = 1
  Producers = {p1, p2}
  Tasks = {t1, t2, t3}
  NoTask = NoTask
  JoinProducers = TRUE
PROPERTIES PoolServes
CHECK_DEADLOCK FALSE
