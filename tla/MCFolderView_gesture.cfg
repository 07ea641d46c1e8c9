SPECIFICATION FolderViewSpec
CONSTANTS
  f1 = f1
  f2 = f2
  f3 = f3
  RowFile = {f1, f2, f3}
  FirstRows <- MCRows
  NoFile = nofile
  NoPress = nopress
  NoMenu = nomenu
  NoInline = noinline
  NoShell = noshell
  NoReveal = noreveal
  Astray = astray
  MaxClicks = 3
CHECK_DEADLOCK FALSE
PROPERTY GestureKeepsToItsFiles
