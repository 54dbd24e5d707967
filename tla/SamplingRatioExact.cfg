CONSTANTS
  AcqDenominators = {3, 4, 5, 6, 7, 8, 9, 10, 11, 12, 13, 14, 15, 16, 17, 18, 19, 20, 21, 22, 23, 24, 25, 26, 27, 28, 29, 30, 32, 36, 40, 48, 50, 52, 56, 60, 90, 100, 120}
  ClockDenominators = {1, 2, 3, 4, 5, 10}
SPECIFICATION Spec
CHECK_DEADLOCK FALSE
INVARIANTS ResolutionIsExact
