\* The boards whose kernel starts behind the application pages.
SPECIFICATION FlowSpec
CONSTANTS
  Boards <- SoundBoards
  Layout <- Layouts
  MaxApps = 2
  BootData = 16
  Signers <- SomeSigners
INVARIANTS
  FlowTypeOK
  BootSurvives
  KernelSurvives
  AppsSurvive
PROPERTIES
  RequestHonoured
  UpdateRepairs
  KeysDecide
