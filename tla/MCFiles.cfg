SPECIFICATION MCSpec
CONSTANTS
  File = {f, g}
  Path = {a, b, c}
  Bin = bin
  Aside = aside
  Gone = gone
  MaxEntries = 2
  MaxOperations = 3
  MaxOthers = 1
  MaxCommands = 2
  f1 = f1
  f2 = f2
  f3 = f3
  RowFile = {f1, f2, f3}
  FirstRows <- MCRows
  NoFile = nofile
  NoPress = nopress
  NoMenu = nomenu
  NoInline = noinline
  NoShell = noshell
  NoReveal = noreveal
  Astray = astray
  MaxClicks = 3
  Location = {home, pics, docs}
  MaxVisits = 4
  Folder = {k, l}
  NoFolder = nofolder
  NoScan = noscan
  MaxAnalyses = 5
  BatchSize = 3
  pic = pic
  pic1 = pic1
  pic2 = pic2
  FileName = {pic, pic1, pic2}
  NumberedNames <- MCNumbered
  Nothing = nothing
  SameNames = FALSE
INVARIANT TypeOK
INVARIANT NoFileIsLost
INVARIANT UndoOnce
INVARIANT SelectionIsUsers
INVARIANT PointersAreTheirFiles
INVARIANT BusyIsScanned
INVARIANT ReplacedIsApproved
PROPERTY PendingStays
PROPERTY RevealIsFresh
PROPERTY ImplementsTrail
SYMMETRY Symmetry
CHECK_DEADLOCK FALSE
