\* Two applications with three tags each; only jobs that have not ended.
CONSTANTS
  Apps = {a1, a2}
  Tags = {t1, t2, t3}
  JobIds = {j1, j2, j3}
  Callers = {c1, c2}
  MaxPending = 1
  DbMayFail = FALSE
  NoJob = NoJob
  NoCache = NoCache
  Free = Free
SPECIFICATION Spec
SYMMETRY Symmetry
CONSTRAINT OnlyPending
INVARIANTS
  SeqFollowsArrival
  Overshoot
