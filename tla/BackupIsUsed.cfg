CONSTANTS
  MaxDeploys = 2
  Attempts = 5
  Faults = {}
  None = None
  Partial = Partial
  Foreign = Foreign
SPECIFICATION Spec
INVARIANT BackupIsUsed
CHECK_DEADLOCK FALSE
