CONSTANTS
  stages = 2
  samples = 4
  TAPS = 3
  Values = {0, 1}
  CAP = 1
SPECIFICATION Spec
INVARIANT FilterCorrect
