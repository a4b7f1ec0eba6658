\* Two playlists and two iterators, used with either.
SPECIFICATION Spec
CONSTANTS
  Playlists = {p1, p2}
  Iters = {i1, i2}
  Values = {v}
  Positions <- MCPositions
  MaxRows = 3
  NULL = NULL
INVARIANT RowsAreKept
PROPERTY KeepsRows
