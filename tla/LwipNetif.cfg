\* Two threads under lwIP's core lock.
SPECIFICATION Spec
CONSTANTS
  Threads = {t1, t2}
  Bytes = {0, 1}
  Zero = 0
  CoreLocked = TRUE
  OPEN_MAX = 2
INVARIANTS
  TypeOK
  AddressFollows
  DescriptorsReturned
