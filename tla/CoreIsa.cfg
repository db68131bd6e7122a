\* CoreIsa.cfg
CONSTANTS
  WordSize = 8
  NumRegs = 4
  ResetVector = 0
  Mtvec = 5
  DivSteps = 4
  MaxRises = 1
  Programs <- KernelPrograms
SPECIFICATION Spec
PROPERTY ImplementsIsa
