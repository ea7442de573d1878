SPECIFICATION PoolsSpec
CONSTANTS
  Workers = {w1, w2}
  Clients = {c1, c2}
  Tasks = {t1, t2, t3}
  NoTask = NoTask
  PoolThreads = {w1, w2}
  Owners = {c1, c2}
  Jobs = {t1, t2, t3}
INVARIANTS Conservation NoLostWakeup DrainedAtJoin
PROPERTIES ImplementsChannel DetachedFifo PoolsServe
CHECK_DEADLOCK FALSE
