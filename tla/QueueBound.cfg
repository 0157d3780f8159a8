\* Two requests for one application, each with a tag of its own.
CONSTANTS
  Apps = {a1}
  Tags = {t1, t2}
  JobIds = {j1, j2}
  Callers = {c1, c2}
  MaxPending = 1
  DbMayFail = FALSE
  NoJob = NoJob
  NoCache = NoCache
  Free = Free
SPECIFICATION Spec
INVARIANT QueueBound
