\* Twelve programs, from S-records to their end, with one reset.
CONSTANTS
  Contents <- Bytes
  Commands <- Shell
  Files <- SrecFiles
  Bases <- Origins
  LenCode = 16
  RomSize = 12
  Programs = {"linked_list", "global", "malloc", "test", "qsort_int", "hex_display", "usart",
              "clock", "interval", "direct", "vectored", "bootloader"}
  Sdata = 1
  Edata = 3
  Sbss = 3
  Ebss = 8
  RomToCopy = 8
  Garbage = {0, 7}
  MaxResets = 1
  ListHead = 3
  SbrkHeapEnd = 4
  MallocTop = 5
  Errno = 6
  EndOfData = 8
  StackLimit = 21
  Slack = {0, 1, 3}
  Word = 4
  PerSecond = 2
  MaxTime = 5
  SizeOfNode = 3
  Hundred = 4
  SizeOfInt = 2
  Realloced = 5
  SwitchValues <- Switches
  Characters = {65, 66}
  Sixty = 2
  FiveSeconds = 3
  Delta = 1
  EbreakEvery = 2
  LibraryCalls <- Calls_
  MaxEvents = 2
SPECIFICATION FairSpec
INVARIANTS RomIsProgram MainFindsItsData HeapIsSound StoresAreInside
INVARIANTS DigitsOfOneReading LedsShowLatest ShownTimeIsTrue IntervalIsLongEnough
PROPERTIES RegistersSurvive ServicesAgree DeadlineIsAhead MainReturns LinesServed StartupSpec
CHECK_DEADLOCK FALSE
