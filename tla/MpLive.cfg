SPECIFICATION LiveSpec
CONSTANTS
  CpuCount = 2
  None = None
  Limits = {TRUE, FALSE}
  Excess = {"refusedSwitch"}
CHECK_DEADLOCK FALSE
PROPERTIES CallsReturn EventsAreSignalled
