\* Refused unsafe links use up the recursion limit.
SPECIFICATION Spec
CONSTANTS
  Docs <- DocsOfLaunchers
  World <- Launchers
  RECURSE_LEVEL_MAX = 4
  Roots <- DocsOfLaunchers
  OptionSets <- AllOptions
  IgnoreLists <- OnlyNoLists
  Toggles = {}
  LateIgnores = {}
  Restless = {}
INVARIANT RefusedForDepthOnlyIfDeep
