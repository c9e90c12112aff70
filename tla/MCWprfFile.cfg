CONSTANTS
  Base = 8
  Missing = Missing
  BookmarkEvery = 3
  BufCap = 150
  PageBytes = 64
  Trace <- MCTrace
  Drops = {0, 11}
  None = None
SPECIFICATION FileSpec
INVARIANTS
  KillRecoversPrefix
  PowerLossRecoversPrefix
  MetadataIsTrue
PROPERTY
  LogSpec
CHECK_DEADLOCK FALSE
