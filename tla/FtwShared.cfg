SPECIFICATION Spec
CONSTANTS
  boot = boot  vars1 = vars1  data = data  v1 = v1  v2 = v2
  Target = {data}
  WorkTarget = data
  BootTarget = None
  Missing = {}
  Value = {v1, v2}
  Torn = Torn  Erased = Erased  None = None
  Size = 4
  Counts = {1}
  TornOverruns = FALSE
  DeviceErrors = TRUE
  CallersGoOn = FALSE
PROPERTIES UpdatesAreAtomic
