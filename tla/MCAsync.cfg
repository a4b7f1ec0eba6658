\* Background parses, synchronous ones, cancellation and the parser's life.
SPECIFICATION FairSpec
CONSTANTS
  Parses <- ParseNames
  Kind <- KindOf
  Size <- SizeOf
INVARIANTS
  AsyncTypeOK
  AnswerIsLast
  AliveWhileUsed
PROPERTIES
  KeepsService
  NothingLeaks
  EveryParseIsAnswered
\* When the application asks for nothing more and all is delivered, nothing moves.
CHECK_DEADLOCK FALSE
