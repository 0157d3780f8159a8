CONSTANTS
  c1 = c1
  s = s
  j1 = j1
  j2 = j2
  Apps = {a1}
  Tags = {t1}
  JobIds = {j1, j2}
  Clients = {c1}
  Sched = s
  Callers <- CallersOfRun
  MaxPending = 1
  MaxRestarts = 1
  DbMayFail = FALSE
  NoJob = NoJob
  NoCache = NoCache
  Free = Free
SPECIFICATION LiveSpec
PROPERTY JobsAreSettled
CHECK_DEADLOCK FALSE
