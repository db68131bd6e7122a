\* Uploads to a board that has sent its greeting; one character may be lost.
CONSTANTS
  Files <- SmallFiles
  Early = FALSE
  Overlap = 2
  MaxLost = 1
  MaxUnread = 1
  MaxStars = 1
  MaxRuns = 2
SPECIFICATION FairSpec
INVARIANTS AnsweredIsStored NothingOverwritten
PROPERTY UploadEnds
CHECK_DEADLOCK FALSE
