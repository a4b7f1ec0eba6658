\* The disc is taken out before the check for an audio CD, and nobody asked for the error.
SPECIFICATION Spec
CONSTANTS
  NONE = NONE
  Discs <- OneCd
  Places <- OneDrive
  MaxMoves = 1
PROPERTY AnsweredWithoutLocation
CHECK_DEADLOCK FALSE
