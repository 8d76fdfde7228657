SPECIFICATION LiveSpec
CONSTANTS
  c1 = c1  c2 = c2  c3 = c3
  CPU = {c1, c2}
  None = None
  SwitchesBsp = FALSE
  Stalls = FALSE
PROPERTIES EveryoneLeaves SmiIsHandled
