SPECIFICATION Spec
CONSTANTS
  NONE = NONE
  Discs <- MCDiscs
  Places <- MCPlaces
  MaxMoves = 3
INVARIANTS
  DiscTypeOK
  AnswersWereTrue
  RecognizedAtRest
  MrlFits
  ErrorsFit
  MountsOnce
PROPERTY DetectionsEnd
CHECK_DEADLOCK FALSE
