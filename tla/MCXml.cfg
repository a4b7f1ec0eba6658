SPECIFICATION Spec
CONSTANTS
  Tokens <- MCTokens
  MAX_RECURSION = 4
  FlagSets <- MCFlags
  cdata = cdata
  TokenSize = 64
  MaxPieces = 3
  Trees <- MCTrees
  Documents <- MCDocuments
INVARIANTS
  XmlTypeOK
  TextItemsAreMerged
  GivenFromUtf8
  ReadsBackAsTree
PROPERTIES
  KeepsOutline
  LexerMovesOn
  AnsweredUnlessCutOff
CHECK_DEADLOCK FALSE
