\* Nucleo-F746ZG: a 256K application page against the kernel's start.
SPECIFICATION Spec
CONSTANTS
  Boards <- OverlappingBoard
  Layout <- Layouts
  MaxApps = 2
INVARIANT
  KernelSurvives
