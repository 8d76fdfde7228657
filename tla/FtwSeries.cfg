SPECIFICATION Spec
CONSTANTS
  boot = boot  vars1 = vars1  data = data  v1 = v1  v2 = v2
  Target = {vars1}
  WorkTarget = None
  BootTarget = None
  Missing = {vars1}
  Value = {v1}
  Torn = Torn  Erased = Erased  None = None
  Size = 6
  Counts = {1, 2}
  TornOverruns = TRUE
  DeviceErrors = FALSE
  CallersGoOn = FALSE
INVARIANTS SeriesInOrder RecoveryCompletes
