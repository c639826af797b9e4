\* Two clients whose ioctls interleave, on a configured device; liveness, hence no
\* symmetry.
SPECIFICATION Spec
CONSTANTS
  c1 = c1
  c2 = c2
  a1 = a1
  NoAddress = NoAddress
  Clients <- TwoClients
  Requests <- RaceRequests
  Addresses <- OneAddress
  Serialized = FALSE
  Forwards = {"register"}
  Configs <- OnlyConfigured
INVARIANTS
  ConfiguredBeforeUse
PROPERTIES
  PhyStaysPowered
  EveryIoctlReturns
  PolledLinkComesUp
