SPECIFICATION LiveSpec
CONSTANTS
  boot = boot  vars1 = vars1  data = data  v1 = v1  v2 = v2
  Target = {boot, vars1}
  WorkTarget = None
  BootTarget = boot
  Missing = {}
  Value = {v1, v2}
  Torn = Torn  Erased = Erased  None = None
  Size = 4
  Counts = {1}
  TornOverruns = FALSE
  DeviceErrors = FALSE
  CallersGoOn = FALSE
INVARIANTS TypeOK WritesStayInQueue BootBlockIntact
PROPERTIES UpdatesAreAtomic WritesAreCompleted
