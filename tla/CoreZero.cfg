\* CoreZero.cfg
CONSTANTS
  WordSize = 8
  NumRegs = 4
  ResetVector = 0
  Mtvec = 5
  DivSteps = 3
  MaxRises = 1
  Programs <- ZeroPrograms
SPECIFICATION Spec
INVARIANT ZeroRegisterReadsZero
