CONSTANTS
  MaxDeploys = 2
  Attempts = 5
  Faults = {}
  None = None
  Partial = Partial
  Foreign = Foreign
SPECIFICATION Spec
PROPERTY ReplacedAtomically
CHECK_DEADLOCK FALSE
