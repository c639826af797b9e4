\* The boards whose RAM regions are apart.
SPECIFICATION Spec
CONSTANTS
  Boards <- SoundBoards
  Layout <- Layouts
  Grain = 16
  MaxRunning = 2
  MaxBlocks = 2
INVARIANTS
  TypeOK
  KernelRamApart
  AppsInRam
