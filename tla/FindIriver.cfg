\* An iRiver playlist has no item handler and is not reported either.
SPECIFICATION Spec
CONSTANTS
  Docs <- DocsOfIriver
  World <- Iriver
  RECURSE_LEVEL_MAX = 4
  Roots <- DocsOfIriver
  OptionSets <- AllOptions
  IgnoreLists <- OnlyNoLists
  Toggles = {}
  LateIgnores = {}
  Restless = {}
INVARIANT ExpandedOrReported
