\* Every board, bootloader and kernel; any call but the over-drive's may fail.
SPECIFICATION SysSpec
CONSTANTS
  Boards <- AllBoards
  Settings <- BoardClock
  Limits <- BoardLimit
  HalHSE <- BoardHSE_VALUE
  OverDriveMayFail = FALSE
  Threads <- TwoThreads
  MessageBytes = 2
INVARIANTS
  SysTypeOK
  WithinLimits
  CleanStart
  ToldOrSlow
  CoreClocked
  LoneMessageWhole
  InterruptsWhole
  LineAtSpeed
PROPERTIES
  WritesEnd
