CONSTANTS
  Frame = {f1, f2, f3, f4, f5, f6}
  MaxAcc = 4
  MinSelected = 2
  SelectCount = 2
  MaxBehind = 2
  ConvertSlack = 1
SPECIFICATION FairSpec
INVARIANTS
  AssertionsHold
  FramesConserved
  WindowStable
  SelectedStable
PROPERTIES
  BuffersCirculate
