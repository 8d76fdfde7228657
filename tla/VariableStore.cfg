SPECIFICATION Spec
CONSTANTS
  n1 = n1  n2 = n2  n3 = n3  n4 = n4  v1 = v1  v2 = v2
  Name = {n1, n2, n3, n4}
  Value = {v1, v2}
  Absent = Absent
  None = None
  Space = 7
  RuntimeSpace = 6
  Excess = {}
SYMMETRY MCSymmetry
INVARIANTS WritesLandOnBlank
PROPERTIES SetIsAtomic RefusedOnlyWhenFull
