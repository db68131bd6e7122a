\* Operations that interrupts abandon at any cycle; programs without loops.
CONSTANTS
  WordSize = 8
  NumRegs = 4
  ResetVector = 0
  Mtvec = 5
  DivSteps = 6
  MaxRises = 2
  Programs <- LooplessPrograms
SPECIFICATION FairSpec
INVARIANTS TypeOK FetchCoherent RequestsAnswered
PROPERTIES TrapAgreement ImplementsIsa TrapsReturn ProgramEnds
