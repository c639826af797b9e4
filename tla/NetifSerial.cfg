\* Two clients, every request, ioctls serialized by the kernel.
SPECIFICATION Spec
CONSTANTS
  c1 = c1
  c2 = c2
  a1 = a1
  NoAddress = NoAddress
  Clients <- TwoClients
  Requests <- AllRequests
  Addresses <- OneAddress
  Serialized = TRUE
  Forwards <- AllForwards
  Configs <- ConfiguredOrNot
INVARIANTS
  TypeOK
  FailedStopForgotten
  TestsStillHold
  UnconfiguredStaysDown
PROPERTIES
  LinkLostOnlyByFailedStop
  ImplementsLinkMonitor
SYMMETRY Symmetric
