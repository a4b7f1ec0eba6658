\* PLS files with gaps, duplicates, keys that are no entries and lengths, and feeds.
SPECIFICATION Spec
CONSTANTS
  NULL = NULL
  None = None
  NoNumber = None
  GUINT_HALF = 8
  IntBits = 16
  Files <- MCFiles
  Feeds <- MCFeeds
INVARIANTS
  ScanTypeOK
  ReadInRounds
  DatesReadBack
  LengthsReadBack
  RecentDateIsKept
PROPERTY ScanEnds
\* The scan is over once all entries are found, a feed once all dates are read.
CHECK_DEADLOCK FALSE
