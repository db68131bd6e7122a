\* The interrupt program: times of two halves of three values, few events.
CONSTANTS
  Word = 3
  Delta = 2
  MaxHigh = 1
  MaxHits = 1
  MaxReceived = 2
SPECIFICATION FairSpec
INVARIANTS TypeOK ReadIsBetween NoFalseMatch TcIsComing
PROPERTIES PutcReturns RequestsServed
