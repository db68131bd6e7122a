\* Sessions of a few commands, typed with corrections, in either monitor.
CONSTANTS
  Size = 14
  Printable <- Alphabet
  Ignored = {"ctrl-a"}
  Commands <- TypedCommands
  MaxLines = 2
  MaxEdits = 1
  Behind <- Anything
  MemTop = 15
  DumpWords = 2
SPECIFICATION Spec
INVARIANT ScreenShowsLine
PROPERTIES CommandMeansLine AnswerShowsMemory
CHECK_DEADLOCK FALSE
