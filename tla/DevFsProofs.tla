---------------------------- MODULE DevFsProofs ----------------------------
(***************************************************************************)
(* Proofs about DevFs and DeviceFiles: what the tables owe is all that     *)
(* devices and queues need, for any number of devices open at a time, in   *)
(* any order, and queues of any length; and the tables of the F746ZG, as   *)
(* its run takes them from MCDevFs, owe nothing.                           *)
(***************************************************************************)
EXTENDS MCDevFs, SequenceTheorems, TLAPS

\* No two devices name one of these resources.
Apart(resources) ==
  \A d, e \in Devices : d # e => Uses[d] \cap Uses[e] \cap resources = {}

KeptInv(resources) == TypeOK /\ Kept(resources)

(***************************************************************************)
(* Kept is inductive where no two devices share a resource: a device that  *)
(* is configured or closed gives away only what no other device names.     *)
(***************************************************************************)
LEMMA KeptStep ==
  ASSUME NEW R, R \subseteq Resources, Apart(R), KeptInv(R), [Next]_vars
  PROVE  KeptInv(R)'
<1> USE UsesAssumption, DebugAssumption, BoundsAssumption DEF KeptInv, TypeOK
<1>1. ASSUME NEW d \in Devices, OpenDevice(d) PROVE KeptInv(R)'
  <2>1. TypeOK'
    BY <1>1 DEF OpenDevice
  <2>2. Kept(R)'
    BY <1>1 DEF OpenDevice, Kept
  <2> QED BY <2>1, <2>2
<1>2. ASSUME NEW d \in Devices, SetDefaults(d) PROVE KeptInv(R)'
  <2>1. TypeOK'
    BY <1>2 DEF SetDefaults, Give
  <2>2. ASSUME NEW e \in configured', NEW r \in Uses[e] \cap R PROVE owner'[r] = e
    <3>1. e \in Devices /\ r \in Resources
      BY <1>2, <2>2 DEF SetDefaults
    <3>2. CASE e = d
      BY <3>1, <3>2, <1>2 DEF SetDefaults, Give
    <3>3. CASE e # d
      <4>1. r \notin Uses[d]
        BY <3>1, <3>3, <2>2 DEF Apart
      <4>2. owner'[r] = owner[r] /\ e \in configured
        BY <4>1, <3>1, <3>3, <1>2, <2>2 DEF SetDefaults, Give
      <4> QED BY <4>2, <2>2 DEF Kept
    <3> QED BY <3>2, <3>3
  <2> QED BY <2>1, <2>2 DEF Kept
<1>3. ASSUME NEW d \in Devices, Close(d) PROVE KeptInv(R)'
  <2>1. TypeOK'
    BY <1>3 DEF Close, Give, Open
  <2>2. ASSUME NEW e \in configured', NEW r \in Uses[e] \cap R PROVE owner'[r] = e
    <3>1. CASE descriptors[d] > 1
      BY <3>1, <1>3, <2>2 DEF Close, Open, Kept
    <3>2. CASE descriptors[d] = 1
      <4>1. e \in configured /\ e # d /\ r \in Resources
        BY <3>2, <1>3, <2>2 DEF Close
      <4>2. r \notin Uses[d]
        BY <4>1, <2>2 DEF Apart
      <4>3. owner'[r] = owner[r]
        BY <4>1, <4>2, <3>2, <1>3 DEF Close, Give
      <4> QED BY <4>1, <4>3, <2>2 DEF Kept
    <3> QED BY <3>1, <3>2, <1>3 DEF Close
  <2> QED BY <2>1, <2>2 DEF Kept
<1>4. ASSUME UNCHANGED vars PROVE KeptInv(R)'
  BY <1>4 DEF vars, Kept
<1> QED BY <1>1, <1>2, <1>3, <1>4 DEF Next

(***************************************************************************)
(* At the start only what debug_initialize set up is in use.               *)
(***************************************************************************)
LEMMA KeptAtStart ==
  ASSUME NEW R, R \subseteq Resources, Init PROVE KeptInv(R)
BY UsesAssumption, DebugAssumption, BoundsAssumption
DEF Init, KeptInv, TypeOK, Kept

(***************************************************************************)
(* Whatever the table, opening, configuring and closing in any order keeps *)
(* the counts of descriptors in bounds and every resource with a device or *)
(* with nobody.                                                            *)
(***************************************************************************)
THEOREM DevicesTyped == Spec => []TypeOK
<1>1. Init => KeptInv({})
  BY KeptAtStart
<1>2. KeptInv({}) /\ [Next]_vars => KeptInv({})'
  BY KeptStep DEF Apart
<1>3. KeptInv({}) => TypeOK
  BY DEF KeptInv
<1> QED BY <1>1, <1>2, <1>3, PTL DEF Spec

(***************************************************************************)
(* With a table whose entries are apart, a device in use keeps all of its  *)
(* pins, streams and its peripheral that are not known to be shared,       *)
(* however many devices are open.                                          *)
(***************************************************************************)
THEOREM ResourcesAreKept == ASSUME TableApart PROVE Spec => []ResourcesKept
<1> DEFINE R == Resources \ Shared
<1>1. R \subseteq Resources /\ Apart(R)
  BY TableApart DEF TableApart, Apart
<1>2. Init => KeptInv(R)
  BY <1>1, KeptAtStart
<1>3. KeptInv(R) /\ [Next]_vars => KeptInv(R)'
  BY <1>1, KeptStep
<1>4. KeptInv(R) => ResourcesKept
  BY DEF KeptInv, ResourcesKept
<1> QED BY <1>2, <1>3, <1>4, PTL DEF Spec

----------------------------------------------------------------------------
(***************************************************************************)
(* What the names and the tables owe each other: every reader's file is a  *)
(* queue of its own, the readers' of events is the first entry of the      *)
(* table, and both output files are the reader's.                          *)
(***************************************************************************)
FilesAgree ==
  /\ Source.event = Table[1]
  /\ \A kind \in Kinds : Source[kind] \in Queues
  /\ \A kind, other \in Kinds : kind # other => Source[kind] # Source[other]
  /\ Printed = {Source.output}

QueueInv ==
  /\ queue \in [Queues -> Seq(Kinds)]
  /\ unread \subseteq Kinds
  /\ \A kind \in Kinds :
       /\ queue[Source[kind]] \in Seq({kind})
       /\ kind \in unread => queue[Source[kind]] # <<>>

\* What is put where its reader looks is found there.
LEMMA PutStep ==
  ASSUME FilesAgree, QueueInv, NEW kind \in Kinds, Put(Source[kind], kind)
  PROVE  QueueInv'
<1> DEFINE device == Source[kind]
           after == IF Len(queue[device]) < QueueSize THEN Append(queue[device], kind)
                    ELSE queue[device]
<1> USE DEF QueueInv
<1>1. device \in Queues /\ queue[device] \in Seq({kind}) /\ queue[device] \in Seq(Kinds)
  BY DEF FilesAgree
<1>2. after \in Seq({kind}) /\ after \in Seq(Kinds) /\ after # <<>>
  BY <1>1, FilesAssumption
<1>3. /\ \A q \in Queues : queue'[q] = IF q = device THEN after ELSE queue[q]
      /\ queue' \in [Queues -> Seq(Kinds)] /\ unread' = unread \cup {kind}
  BY <1>1, <1>2 DEF Put
<1>4. ASSUME NEW k \in Kinds
      PROVE  /\ queue'[Source[k]] \in Seq({k})
             /\ k \in unread' => queue'[Source[k]] # <<>>
  <2>1. CASE k = kind
    BY <1>1, <1>2, <1>3, <2>1
  <2>2. CASE k # kind
    <3>1. Source[k] # device /\ Source[k] \in Queues
      BY <2>2 DEF FilesAgree
    <3> QED BY <1>3, <2>2, <3>1
  <2> QED BY <2>1, <2>2
<1>5. unread' \subseteq Kinds
  BY <1>3
<1> HIDE DEF device, after
<1> QED BY <1>3, <1>4, <1>5 DEF Source

\* A reader takes from its own queue alone.
LEMMA FetchStep ==
  ASSUME FilesAgree, QueueInv, NEW kind \in Kinds, Fetch(kind)
  PROVE  QueueInv'
<1> DEFINE device == Source[kind]
<1> USE DEF QueueInv
<1>1. /\ device \in Queues /\ queue[device] \in Seq({kind})
      /\ queue[device] \in Seq(Kinds) /\ queue[device] # <<>>
      /\ Held(kind) = queue[device]
  BY DEF FilesAgree, Fetch, Held
<1>2. /\ Tail(queue[device]) \in Seq({kind}) /\ Tail(queue[device]) \in Seq(Kinds)
      /\ Len(queue[device]) # 1 => Tail(queue[device]) # <<>>
  <2>1. ASSUME NEW S, NEW s \in Seq(S), s # <<>>
        PROVE  Tail(s) \in Seq(S) /\ (Len(s) # 1 => Tail(s) # <<>>)
    <3> DEFINE t == Tail(s)
    <3>1. t \in Seq(S) /\ Len(t) = Len(s) - 1 /\ Len(s) \in Nat
      BY <2>1, HeadTailProperties
    <3> HIDE DEF t
    <3>2. Len(<<>>) = 0
      OBVIOUS
    <3>3. Len(s) # 1 => t # <<>>
      BY <3>1, <3>2
    <3> QED BY <3>1, <3>3 DEF t
  <2> QED BY <1>1, <2>1
<1>3. /\ \A q \in Queues : queue'[q] = IF q = device THEN Tail(queue[device]) ELSE queue[q]
      /\ queue' \in [Queues -> Seq(Kinds)]
      /\ unread' = IF Len(queue[device]) = 1 THEN unread \ {kind} ELSE unread
  BY <1>1, <1>2 DEF Fetch
<1>4. ASSUME NEW k \in Kinds
      PROVE  /\ queue'[Source[k]] \in Seq({k})
             /\ k \in unread' => queue'[Source[k]] # <<>>
  <2>1. CASE k = kind
    BY <1>1, <1>2, <1>3, <2>1
  <2>2. CASE k # kind
    <3>1. Source[k] # device /\ Source[k] \in Queues
      BY <2>2 DEF FilesAgree
    <3> QED BY <1>3, <2>2, <3>1
  <2> QED BY <2>1, <2>2
<1>5. unread' \subseteq Kinds
  BY <1>3
<1> HIDE DEF device
<1> QED BY <1>3, <1>4, <1>5 DEF Source

\* So what is unread is where its reader looks, at every moment.
LEMMA QueueInduction ==
  ASSUME FilesAgree PROVE FilesSpec => []QueueInv
<1>1. FilesInit => QueueInv
  <2>1. ASSUME NEW S PROVE <<>> \in Seq(S)
    OBVIOUS
  <2> QED BY <2>1 DEF FilesInit, QueueInv, FilesAgree
<1>2. QueueInv /\ [FilesNext]_fileVars => QueueInv'
  <2> SUFFICES ASSUME QueueInv, [FilesNext]_fileVars PROVE QueueInv'
    OBVIOUS
  <2>1. CASE TraceEvent
    <3>1. Put(Source["event"], "event")
      BY <2>1 DEF TraceEvent, FilesAgree
    <3> QED BY <3>1, PutStep DEF Kinds
  <2>2. CASE Output
    <3>1. Put(Source["output"], "output")
      BY <2>2 DEF Output, FilesAgree
    <3> QED BY <3>1, PutStep DEF Kinds
  <2>3. CASE Input
    <3>1. Put(Source["input"], "input")
      BY <2>3 DEF Input
    <3> QED BY <3>1, PutStep DEF Kinds
  <2>4. CASE UNCHANGED <<queue, unread>>
    BY <2>4 DEF QueueInv, Source
  <2> QED BY <2>1, <2>2, <2>3, <2>4, FetchStep DEF FilesNext, fileVars
<1> QED BY <1>1, <1>2, PTL DEF FilesSpec

(***************************************************************************)
(* Where the names of sos_config, the file systems and the order of the    *)
(* table agree, whoever has something to read finds it: no event, output   *)
(* or input is lost from sight of its reader, with queues of any length.   *)
(***************************************************************************)
THEOREM EventsAreFound ==
  ASSUME FilesAgree PROVE FilesSpec => []NothingStrays
<1>1. QueueInv => NothingStrays
  <2>1. ASSUME QueueInv, NEW kind \in Kinds
        PROVE  Held(kind) = queue[Source[kind]]
    BY <2>1 DEF FilesAgree, Held, QueueInv
  <2> QED BY <2>1 DEF QueueInv, NothingStrays
<1> QED BY <1>1, QueueInduction, FilesAgree, PTL

(***************************************************************************)
(* And no reader gets what was meant for another.                          *)
(***************************************************************************)
THEOREM NamesFindQueues ==
  ASSUME FilesAgree PROVE FilesSpec => []StreamsApart
<1>1. QueueInv => StreamsApart
  <2>1. ASSUME QueueInv, NEW kind \in Kinds
        PROVE  Held(kind) \in Seq({kind})
    BY <2>1 DEF FilesAgree, Held, QueueInv
  <2>2. ASSUME NEW x, NEW s \in Seq({x}), NEW n \in DOMAIN s PROVE s[n] = x
    OBVIOUS
  <2> QED BY <2>1, <2>2 DEF StreamsApart
<1> QED BY <1>1, QueueInduction, FilesAgree, PTL

(***************************************************************************)
(* Queues take no resource: whatever is proved of devices (DevFs) holds    *)
(* while events are traced and programs print and read.                    *)
(***************************************************************************)
THEOREM FilesAreDevFs == FilesSpec => Spec
<1>1. FilesInit => Init
  BY DEF FilesInit
<1>2. [FilesNext]_fileVars => [Next]_vars
  BY DEF FilesNext, fileVars
<1> QED BY <1>1, <1>2, PTL DEF FilesSpec, Spec

----------------------------------------------------------------------------
\* What an entry takes: its peripheral, its pins, and with a DMA driver its
\* streams.
LEMMA EntryTakes ==
  ASSUME NEW kind, NEW driver, NEW port, NEW pins, NEW streams,
         NEW r \in EntryResources(Entry(kind, driver, port, pins, streams))
  PROVE  \/ r = <<kind, port, 0>>
         \/ \E p \in pins : r = <<"pin", p[1], p[2]>>
         \/ driver = "mcu_dma" /\ \E s \in streams : r = <<"dma", s[1], s[2]>>
  BY DEF EntryResources, Entry

\* The table of the F746ZG, entry by entry: two of them name PA7, and that
\* is all they have in common.
LEMMA F746ZGIsApart ==
  \A d, e \in F746ZGDevices :
    d # e => F746ZGUses[d] \cap F746ZGUses[e] \subseteq PA7
  <1>1. EntryResources(adc0) \subseteq
          {<<"adc", 0, 0>>, <<"pin", 0, 3>>, <<"pin", 2, 0>>,
           <<"pin", 2, 3>>, <<"dma", 2, 0>>}
    BY EntryTakes DEF adc0
  <1>2. EntryResources(i2c0) \subseteq
          {<<"i2c", 0, 0>>, <<"pin", 1, 9>>, <<"pin", 1, 8>>}
    <2>1. Pins({"I2C1_SDA", "I2C1_SCL"}) =
            {<<1, 9>>, <<1, 8>>}
      BY DEF Pins, CONFIG_PIN
    <2> QED  BY <2>1, EntryTakes DEF i2c0
  <1>3. EntryResources(i2c1) \subseteq
          {<<"i2c", 1, 0>>, <<"pin", 5, 0>>, <<"pin", 5, 1>>}
    <2>1. Pins({"I2C2_SDA", "I2C2_SCL"}) =
            {<<5, 0>>, <<5, 1>>}
      BY DEF Pins, CONFIG_PIN
    <2> QED  BY <2>1, EntryTakes DEF i2c1
  <1>4. EntryResources(spi0) \subseteq
          {<<"spi", 0, 0>>, <<"pin", 0, 6>>, <<"pin", 0, 7>>,
           <<"pin", 0, 5>>}
    <2>1. Pins({"SPI1_MISO", "SPI1_MOSI", "SPI1_SCK"}) =
            {<<0, 6>>, <<0, 7>>, <<0, 5>>}
      BY DEF Pins, CONFIG_PIN
    <2> QED  BY <2>1, EntryTakes DEF spi0
  <1>5. EntryResources(spi2) \subseteq
          {<<"spi", 2, 0>>, <<"pin", 1, 4>>, <<"pin", 1, 5>>,
           <<"pin", 1, 3>>}
    <2>1. Pins({"SPI3_MISO", "SPI3_MOSI", "SPI3_SCK"}) =
            {<<1, 4>>, <<1, 5>>, <<1, 3>>}
      BY DEF Pins, CONFIG_PIN
    <2> QED  BY <2>1, EntryTakes DEF spi2
  <1>6. EntryResources(uart1) \subseteq
          {<<"uart", 1, 0>>, <<"pin", 3, 5>>, <<"pin", 3, 6>>}
    <2>1. Pins({"USART2_TX", "USART2_RX"}) =
            {<<3, 5>>, <<3, 6>>}
      BY DEF Pins, CONFIG_PIN
    <2> QED  BY <2>1, EntryTakes DEF uart1
  <1>7. EntryResources(uart5) \subseteq
          {<<"uart", 5, 0>>, <<"pin", 6, 9>>, <<"pin", 6, 14>>,
           <<"dma", 2, 1>>, <<"dma", 2, 6>>}
    <2>1. Pins({"USART6_TX", "USART6_RX"}) =
            {<<6, 9>>, <<6, 14>>}
      BY DEF Pins, CONFIG_PIN
    <2>2. Streams({"USART6_RX", "USART6_TX"}) = {<<2, 1>>, <<2, 6>>}
      BY DEF Streams, CONFIG_DMA_STREAM
    <2> QED  BY <2>1, <2>2, EntryTakes DEF uart5
  <1>8. EntryResources(eth0) \subseteq
          {<<"eth", 0, 0>>, <<"pin", 0, 1>>, <<"pin", 6, 13>>,
           <<"pin", 1, 13>>, <<"pin", 6, 11>>, <<"pin", 2, 4>>,
           <<"pin", 2, 5>>, <<"pin", 0, 7>>, <<"pin", 0, 2>>,
           <<"pin", 2, 1>>}
    BY EntryTakes DEF eth0
  <1>9. EntryResources(usb) \subseteq
          {<<"usb", 0, 0>>, <<"pin", 0, 11>>, <<"pin", 0, 12>>}
    BY EntryTakes DEF usb
  <1>10. EntryResources(debug) \subseteq
          {<<"uart", 2, 0>>, <<"pin", 1, 7>>, <<"pin", 3, 8>>,
           <<"pin", 3, 9>>}
    BY EntryTakes DEF debug
  <1>11. \A port \in {0, 2, 3, 4} : EntryResources(tmr(port)) \subseteq {<<"tmr", port, 0>>}
    BY EntryTakes DEF tmr
  <1>12. F746ZGDevices =
          {"adc0", "i2c0", "i2c1", "spi0", "spi2", "tmr0", "tmr2", "tmr3", "tmr4",
           "uart1", "uart5", "eth0", "usb", "debug"}
    BY DEF F746ZGDevices, F746ZG, devfs_list_F746ZG
  <1>13. \A d \in F746ZGDevices : F746ZGUses[d] = EntryResources(
          CASE d = "adc0" -> adc0
            [] d = "i2c0" -> i2c0
            [] d = "i2c1" -> i2c1
            [] d = "spi0" -> spi0
            [] d = "spi2" -> spi2
            [] d = "tmr0" -> tmr(0)
            [] d = "tmr2" -> tmr(2)
            [] d = "tmr3" -> tmr(3)
            [] d = "tmr4" -> tmr(4)
            [] d = "uart1" -> uart1
            [] d = "uart5" -> uart5
            [] d = "eth0" -> eth0
            [] d = "usb" -> usb
            [] d = "debug" -> debug)
    BY DEF F746ZGUses, F746ZGDevices, UsesOf, F746ZG, devfs_list_F746ZG
  <1> HIDE DEF F746ZGDevices, F746ZGUses
  <1> QED
    BY <1>1, <1>2, <1>3, <1>4, <1>5, <1>6, <1>7, <1>8, <1>9, <1>10, <1>11, <1>12, <1>13 DEF PA7

\* In the mounts of sysfs_list a path under /dev is devfs's: neither /app nor
\* anything before it is above it.
LEMMA DevIsDevfs ==
  ASSUME Mounts = sysfs_list, NEW name
  PROVE  FileSystem(<<"dev", name>>) = 2
  <1> DEFINE path == <<"dev", name>>
             above(m) == IsPrefix(m.path, path)
             found == {i \in 1..Len(Mounts) : above(Mounts[i])}
  <1>1. /\ Len(Mounts) = 3 /\ Mounts[1].path = <<"app">>
        /\ Mounts[2].path = <<"dev">> /\ Mounts[3].path = <<>>
    BY DEF sysfs_list, Mount
  <1>2. ~above(Mounts[1])
    <2>1. SubSeq(<<"app">>, 1, 1)[1] = "app" /\ SubSeq(path, 1, 1)[1] = "dev"
      OBVIOUS
    <2> QED  BY <1>1, <2>1 DEF IsPrefix
  <1>3. above(Mounts[2])
    <2>1. ASSUME NEW s \in {<<"dev">>, path}
          PROVE  SubSeq(s, 1, 1) = <<"dev">>
      <3>1. s[1] = "dev"
        OBVIOUS
      <3>2. \A i \in 1..1 : s[i] \in {"dev"}
        BY <3>1
      <3>3. /\ SubSeq(s, 1, 1) \in Seq({"dev"}) /\ Len(SubSeq(s, 1, 1)) = 1
            /\ SubSeq(s, 1, 1)[1] = "dev"
        BY <3>1, <3>2, SubSeqProperties
      <3>4. <<"dev">> \in Seq({"dev"}) /\ Len(<<"dev">>) = 1 /\ <<"dev">>[1] = "dev"
        OBVIOUS
      <3>5. ASSUME NEW t \in Seq({"dev"}), Len(t) = 1, t[1] = "dev",
                   NEW u \in Seq({"dev"}), Len(u) = 1, u[1] = "dev"
            PROVE  t = u
        <4>1. \A i \in 1..Len(t) : t[i] = u[i]
          BY <3>5
        <4> QED  BY <3>5, <4>1, SeqEqual
      <3> QED  BY <3>3, <3>4, <3>5
    <2> QED  BY <1>1, <2>1 DEF IsPrefix
  <1>4. found \in {{2}, {2, 3}}
    BY <1>1, <1>2, <1>3
  <1>5. Min(found) = 2
    <2> HIDE DEF found
    <2> QED  BY <1>4 DEF Min
  <1>6. SelectInSeq(Mounts, above) = IF found # {} THEN Min(found) ELSE 0
    BY DEF SelectInSeq
  <1>7. FileSystem(path) = SelectInSeq(Mounts, above)
    BY DEF FileSystem, SelectInSeq
  <1> QED  BY <1>4, <1>5, <1>6, <1>7

\* And a device of the table is found by its name there.
LEMMA DevOpens ==
  ASSUME Mounts = sysfs_list, NEW name \in Range(Table)
  PROVE  Device(<<"dev", name>>) = name
  <1>1. Mounts[2].driver = "devfs" /\ Mounts[2].path = <<"dev">>
    BY DEF sysfs_list, Mount
  <1>2. Len(<<"dev", name>>) = Len(<<"dev">>) + 1 /\ Last(<<"dev", name>>) = name
    BY DEF Last
  <1> QED  BY <1>1, <1>2, DevIsDevfs DEF Device

(***************************************************************************)
(* The four names of sos_config, the mounts and the order of devfs_list    *)
(* agree as they stand in the three files.                                 *)
(***************************************************************************)
LEMMA BoardFilesAgree ==
  ASSUME Table = devfs_order, Mounts = sysfs_list, Files = sos_config_fs, Queues = fifos
  PROVE  FilesAgree
  <1>1. /\ Table[1] = "trace" /\ {"trace", "stdio-out", "stdio-in"} \subseteq Range(Table)
    <2>1. Table[1] = "trace" /\ Table[2] = "stdio-out" /\ Table[3] = "stdio-in"
          /\ {1, 2, 3} \subseteq DOMAIN Table
      BY DEF devfs_order
    <2> QED  BY <2>1 DEF Range
  <1>2. /\ Device(Files.trace_dev) = "trace"
        /\ Device(Files.stdout_dev) = "stdio-out" /\ Device(Files.stderr_dev) = "stdio-out"
        /\ Device(Files.stdin_dev) = "stdio-in"
    BY <1>1, DevOpens DEF sos_config_fs
  <1>3. /\ Source.event = "trace" /\ Source.output = "stdio-out"
        /\ Source.input = "stdio-in" /\ Printed = {"stdio-out"}
    BY <1>2 DEF Source, Printed
  <1>4. /\ Source["event"] = "trace" /\ Source["output"] = "stdio-out"
        /\ Source["input"] = "stdio-in"
    BY <1>3
  <1> QED  BY <1>1, <1>3, <1>4 DEF FilesAgree, Kinds, fifos

(***************************************************************************)
(* On the F746ZG, or with any part of its devices, with no further         *)
(* premise: however many are open, how often, and however long the queues, *)
(* every device in use keeps all it took but for PA7, every reader finds   *)
(* what is unread, and none gets another's.                                *)
(***************************************************************************)
THEOREM BoardDevicesApart ==
  ASSUME Devices \subseteq F746ZGDevices, \A d \in Devices : Uses[d] = F746ZGUses[d],
         Shared = PA7,
         Table = devfs_order, Mounts = sysfs_list, Files = sos_config_fs, Queues = fifos
  PROVE  FilesSpec => [](ResourcesKept /\ NothingStrays /\ StreamsApart)
<1>1. TableApart
  BY F746ZGIsApart DEF TableApart
<1>2. FilesAgree
  BY BoardFilesAgree
<1>3. Spec => []ResourcesKept
  BY <1>1, ResourcesAreKept
<1>4. (FilesSpec => []NothingStrays) /\ (FilesSpec => []StreamsApart)
  BY <1>2, EventsAreFound, NamesFindQueues
<1> QED BY <1>3, <1>4, FilesAreDevFs, PTL

=============================================================================
