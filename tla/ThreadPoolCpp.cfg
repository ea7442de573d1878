SPECIFICATION FairSpec
CONSTANTS
  MinNum = 1
  MaxNum = 2
  Producers = {p1, p2}
  Tasks = {t1, t2}
  NoTask = NoTask
INVARIANTS Accounting
PROPERTIES ImplementsChannel DtorReturns
CHECK_DEADLOCK FALSE
