CONSTANTS
  MaxDeploys = 3
  Attempts = 5
  Faults = {"db", "file", "unit"}
  None = None
  Partial = Partial
  Foreign = Foreign
SPECIFICATION Spec
INVARIANTS
  TypeOK
  OnlyWholeBinaries
  PreviousIsKept
  UndoneMeansUndone
  CancelIsHonoured
PROPERTY SuccessMeansRunning
CHECK_DEADLOCK FALSE
