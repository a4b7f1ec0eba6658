\* Saving in every format, with failures, cancellation and changing ignore lists.
SPECIFICATION FairSpec
CONSTANTS
  NULL = Null
  Null = Null
  NoNumber = NoNumber
  Playlists <- MCPlaylists
  Formats = {"pls", "m3u", "xspf", "pla"}
  Schemes <- MCSchemes
  Ignored = {"cdda"}
INVARIANTS
  SaveTypeOK
  ReadsBack
  CountIsHonest
  StreamIsReleased
PROPERTY SavesAreAnswered
\* An answered save is over, and a crashed one too.
CHECK_DEADLOCK FALSE
