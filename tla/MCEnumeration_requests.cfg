SPECIFICATION Spec
CONSTANTS
  MaxTab = 2
  Location = {home, a, coll}
  Home = home
  Virtual = {coll}
  LargeContent <- NoVersion
  Query = {none}
  NoQuery = none
  Order = {name}
  ByName = name
  Inputs = {"navigate", "tabs", "fileop", "disk", "watch", "refresh", "deadend"}
  MaxInputs = 2
INVARIANT TypeOK
INVARIANT ShownIsPlace
INVARIANT RestIsFresh
INVARIANT PendingIsServed
PROPERTY RowsOnlyAdvance
CHECK_DEADLOCK FALSE
