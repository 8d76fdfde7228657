SPECIFICATION Spec
CONSTANTS
  CpuCount = 3
  None = None
  Limits = {TRUE}
  Excess = {}
CONSTRAINT Undisturbed
INVARIANTS TypeOK FinishedHasRun ApsAvailable OneByOne OwnStacks
