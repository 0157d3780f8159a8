CONSTANTS
  Apps = {a1}
  JobIds = {j1}
  Conns = {c1, c2}
  Buffer = 1
  Window = 1
  Chunks = 1
  MaxCuts = 1
  Operator = Operator
  NoJob = NoJob
  NoEntry = NoEntry
  NoConn = NoConn
SPECIFICATION Spec
PROPERTY CancelIsShown
CHECK_DEADLOCK FALSE
