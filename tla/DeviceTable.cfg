\* Nucleo-F746ZG: any three devices at a time, while
\* events are traced and programs read and print.
SPECIFICATION FilesSpec
CONSTANTS
  Devices <- F746ZGDevices
  Uses <- F746ZGUses
  Resources <- F746ZGResources
  Shared <- PA7
  Debug = "debug"
  Nobody = "nobody"
  MaxOpen = 3
  MaxDescriptors = 2
  Table <- devfs_order
  Mounts <- sysfs_list
  Files <- sos_config_fs
  Queues <- fifos
  QueueSize = 1
INVARIANTS
  TypeOK
  ResourcesKept
  NothingStrays
  StreamsApart
