SPECIFICATION FairSpec
CONSTANTS
  MaxTab = 1
  Location = {home, a}
  Home = home
  Virtual = {}
  LargeContent <- SomeVersions
  Query = {none, text}
  NoQuery = none
  Order = {name, size}
  ByName = name
  Inputs = {"navigate", "view", "disk", "watch", "menu", "refresh"}
  MaxInputs = 3
INVARIANT RestIsInView
INVARIANT ViewIsServed
PROPERTY EveryRequestEnds
PROPERTY EveryTransformEnds
CHECK_DEADLOCK FALSE
