CONSTANTS
  c1 = c1
  s = s
  j1 = j1
  j2 = j2
  Apps = {a1}
  Tags = {t1, t2}
  JobIds = {j1, j2}
  Clients = {c1}
  Sched = s
  Callers <- CallersOfRun
  MaxPending = 2
  MaxRestarts = 1
  DbMayFail = FALSE
  NoJob = NoJob
  NoCache = NoCache
  Free = Free
SPECIFICATION CSpec
SYMMETRY Symmetry
INVARIANTS
  OneDeployPerApp
  DeployHasRunningRow
  RunningRowHasDeploy
PROPERTY ImplementsQueue
CHECK_DEADLOCK FALSE
