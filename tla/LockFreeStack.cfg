SPECIFICATION FairSpec
CONSTANTS
  Threads = {p, q, c}
  Pushers = {p, q, c}
  Poppers = {p, q, c}
  Addr = {a1, a2}
  Null = Null
  Values = {x, y, z}
CONSTRAINT Defined
INVARIANTS HeapSound
PROPERTIES ImplementsStack EveryValueIsPopped
