CONSTANTS
  Frame = {f1, f2, f3, f4, f5, f6}
  MaxAcc = 4
  MinSelected = 2
  SelectCount = 2
  MaxBehind = 3
  ConvertSlack = 1
SPECIFICATION Spec
CHECK_DEADLOCK FALSE
INVARIANTS
  AssertionsHold
SYMMETRY FrameSymmetry
