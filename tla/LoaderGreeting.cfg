\* Uploads that may start while the greeting is being sent.
CONSTANTS
  Files <- SmallFiles
  Early = TRUE
  Overlap = 2
  MaxLost = 0
  MaxUnread = 1
  MaxStars = 1
  MaxRuns = 1
SPECIFICATION Spec
INVARIANT DoneIsTransferred
CHECK_DEADLOCK FALSE
