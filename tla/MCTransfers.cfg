SPECIFICATION FairSpec
CONSTANTS
  Sources = 2
  Keep = 1
  MaxUnfinished = 2
  MaxTransfers = 3
INVARIANT DecisionsAreTheUsers
INVARIANT UnfinishedIsListed
PROPERTY ListIsBounded
PROPERTY CancelEnds
PROPERTY TransfersEnd
CHECK_DEADLOCK FALSE
