SPECIFICATION Spec
CONSTANTS
  Writers = {w1}
  Tasks = {l1, l2}
  MaxRequests = 1
SYMMETRY TaskSymmetry
INVARIANTS
  TypeOK
  OnlyFilledIsTaken
  MarksAreEarned
PROPERTIES
  SwapsExplained
  GoneIsKept
CHECK_DEADLOCK FALSE
