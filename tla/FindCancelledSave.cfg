\* A cancelled PLA file drops its stream twice.
SPECIFICATION FairSpec
CONSTANTS
  NULL = Null
  Null = Null
  NoNumber = NoNumber
  Playlists <- MCPlaylists
  Formats = {"pla"}
  Schemes <- MCSchemes
  Ignored = {"cdda"}
PROPERTY CancelledIsReturned
CHECK_DEADLOCK FALSE
