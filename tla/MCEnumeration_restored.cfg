SPECIFICATION Spec
CONSTANTS
  MaxTab = 2
  Location = {home, a}
  Home = home
  Virtual = {}
  LargeContent <- NoVersion
  Query = {none}
  NoQuery = none
  Order = {name}
  ByName = name
  Inputs = {"tabs", "watch"}
  MaxInputs = 2
INVARIANT LoadingIsShown
CHECK_DEADLOCK FALSE
