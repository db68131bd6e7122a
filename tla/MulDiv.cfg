\* Every operation on words of six bits, in either divider, and operations that
\* follow abandoned ones.
CONSTANTS
  Steps = 3
  Power <- Powers
  FastDivide = {TRUE, FALSE}
  Operations <- EveryOperation
  Again <- EndOperations
  Unforwarded <- Ends
  MaxStarts = 2
SPECIFICATION Spec
INVARIANTS ProductIsRight DivisionIsRight
