CONSTANTS
  Base = 8
  Missing = Missing
  BookmarkEvery = 2
  BufCap = 150
  PageBytes = 64
  Trace <- MCShortTrace
  Drops = {0, 11}
  None = None
SPECIFICATION FileSpec
INVARIANT AllCompleteEventsRecovered
CHECK_DEADLOCK FALSE
