SPECIFICATION Spec
CONSTANTS
  MinNum = 1
  MaxNum = 2
  Capacity = 2
  Producers = {p1, p2}
  Tasks = {t1, t2, t3, t4}
  NoTask = NoTask
  JoinProducers = TRUE
SYMMETRY Symmetry
INVARIANTS Accounting
PROPERTIES ImplementsChannel
CHECK_DEADLOCK FALSE
