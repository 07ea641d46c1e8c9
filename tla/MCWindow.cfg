SPECIFICATION MCSpec
CONSTANTS
  Window = {w1, w2}
  Edit = {e1, e2}
  MaxTries = 1
  MaxFailures = 1
  None = none
  Subject = {p, q, r}
  NoSubject = nosubject
  Unset = unset
  Room = 2
  Picture = {p, q, r}
  Reading = {x, y}
  NotRead = notread
  NoPictures = nopictures
  AtOnce = 1
  CacheLimit = 2
  ResultRoom = 1
  IconKey = {j, k}
  Blank = blank
  NoIcon = noicon
  AtMost = 2
  RequestRoom = 1
  ResolvedRoom = 1
  Foreign = foreign
  NoSession = nosession
  MaxChanges = 3
  MaxFaults = 2
INVARIANT TypeOK
INVARIANT ClosedIsSaved
INVARIANT PreviewIsOfItsFile
INVARIANT CacheIsOfItsReading
INVARIANT SlotsAreTheirKeys
INVARIANT ClosedSessionIsSaved
PROPERTY ImplementsFile
PROPERTY EditsAreSaved
PROPERTY ClosingEnds
PROPERTY AcceptedIsShown
PROPERTY VisibleArrives
PROPERTY WantedIconsArrive
PROPERTY SessionIsSaved
PROPERTY ForeignIsPreserved
CHECK_DEADLOCK FALSE
