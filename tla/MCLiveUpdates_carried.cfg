SPECIFICATION LiveSpec
CONSTANTS
  Tab = {t1, t2}
  Watchable = {a}
  Viewed = {home, a, coll}
  Home = home
  home = home
  a = a
  coll = coll
  Virtual = {coll}
  Roots <- MCRoots
  Closed = closed
  NoPaths = nopaths
  Inputs = {"navigate", "tabs", "scope", "name"}
  Quiet = 1
  MaxDelay = 1
  Retry = 0
  MaxInputs = 2
INVARIANT ChangeIsCarried
CHECK_DEADLOCK FALSE
