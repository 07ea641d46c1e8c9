SPECIFICATION PreviewFairSpec
CONSTANTS
  Subject = {p, q, r}
  NoSubject = nosubject
  Unset = unset
  Room = 2
PROPERTY EveryPreviewEnds
CHECK_DEADLOCK FALSE
