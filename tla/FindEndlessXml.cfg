SPECIFICATION Spec
CONSTANTS
  Tokens <- MCTokens
  MAX_RECURSION = 4
  FlagSets <- MCFlags
  cdata = cdata
  TokenSize = 64
  MaxPieces = 2
  Trees <- MCTrees
  Documents <- MCDocuments
PROPERTY EveryDocumentIsAnswered
CHECK_DEADLOCK FALSE
