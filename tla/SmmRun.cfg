SPECIFICATION Spec
CONSTANTS
  c1 = c1  c2 = c2  c3 = c3
  CPU = {c1, c2, c3}
  None = None
  SwitchesBsp = TRUE
  Stalls = FALSE
SYMMETRY Symmetry
INVARIANTS TypeOK OneBsp ApsFollowBsp NoNormalCode CodeAsserts ScheduledRuns MtrrsInPlace
