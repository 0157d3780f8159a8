\* Two applications and one tag, two jobs, two concurrent goroutines.
CONSTANTS
  Apps = {a1, a2}
  Tags = {t1}
  JobIds = {j1, j2}
  Callers = {c1, c2}
  MaxPending = 1
  DbMayFail = TRUE
  NoJob = NoJob
  NoCache = NoCache
  Free = Free
SPECIFICATION Spec
SYMMETRY Symmetry
INVARIANTS
  TypeOK
  UniqueActive
  CacheCoherent
PROPERTY ImplementsLifecycle
