\* Nucleo-F412ZG: RAM_PAGES against the linker script.
SPECIFICATION Spec
CONSTANTS
  Boards <- OverlappingBoard
  Layout <- Layouts
  Grain = 16
  MaxRunning = 2
  MaxBlocks = 2
INVARIANT
  KernelRamApart
