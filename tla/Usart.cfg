\* Clean lines in every format but odd parity, lines with a spike, and boards
\* whose clocks differ by four percent.
CONSTANTS
  Lines <- FourLines
  Chars <- TwoChars
  MaxChars = 3
SPECIFICATION Spec
INVARIANTS CharactersIntact NothingLost PutcMeansReceived CorruptionIsFlagged
