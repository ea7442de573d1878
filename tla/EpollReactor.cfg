SPECIFICATION FairSpec
CONSTANTS
  MAX_EVENTS = 2
  BUFLEN = 2
  ScanLen = 1
  Timeout = 1
  FdLimits = {2, 3}
  Clients = {a, b, c}
  NoFd = NoFd
  Talkers = {a}
  MaxSend = 3
INVARIANTS EchoPending
PROPERTIES NobodyIsForgotten
