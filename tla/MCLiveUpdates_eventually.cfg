SPECIFICATION LiveFairSpec
CONSTANTS
  Tab = {t1}
  Watchable = {a}
  Viewed = {home, a}
  Home = home
  home = home
  a = a
  coll = coll
  Virtual = {}
  Roots <- MCRootsOne
  Closed = closed
  NoPaths = nopaths
  Inputs = {"navigate", "scope", "sizes", "name"}
  Quiet = 1
  MaxDelay = 2
  Retry = 1
  MaxInputs = 3
PROPERTY EveryChangeIsRead
CHECK_DEADLOCK FALSE
