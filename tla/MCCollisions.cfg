SPECIFICATION CollisionsSpec
CONSTANTS
  BatchSize = 3
  pic = pic
  pic1 = pic1
  pic2 = pic2
  FileName = {pic, pic1, pic2}
  NumberedNames <- MCNumbered
  Nothing = nothing
  SameNames = TRUE
INVARIANT ReplacedIsApproved
CHECK_DEADLOCK FALSE
