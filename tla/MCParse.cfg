\* Every reader and every answer of parse_internal, for every setting of the
\* properties, with the fallback and without, under four sets of ignore lists;
\* and playlists in a circle, with properties and lists that change meanwhile.
SPECIFICATION FairSpec
CONSTANTS
  Docs <- MCDocs
  World <- MCWorld
  RECURSE_LEVEL_MAX = 4
  Roots <- MCRoots
  OptionSets <- AllOptions
  IgnoreLists <- SomeLists
  Toggles <- BothToggles
  LateIgnores <- GlobLater
  Restless <- CyclicRoots
INVARIANTS
  TypeOK
  DepthIsBounded
  FallbackIsScoped
  NoteBelongsToEntry
  SignalsAreNested
PROPERTIES
  KeepsPromise
  Terminates
