\* One client: does SET_LINK_DOWN power the PHY down?
SPECIFICATION Spec
CONSTANTS
  c1 = c1
  c2 = c2
  a1 = a1
  NoAddress = NoAddress
  Clients <- OneClient
  Requests <- LinkRequests
  Addresses <- OneAddress
  Serialized = TRUE
  Forwards <- NoForwards
  Configs <- OnlyConfigured
INVARIANT
  LinkDownPowersDown
