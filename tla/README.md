# StratifyOS Nucleo-144: a TLA+ model of the board support package

This directory models the parts of the Nucleo-144 board support package that
have behaviour of their own: the Ethernet PHY driver and the network stack's
callback into it, the way from a reset to a running kernel and back, the memory
maps by which bootloader, kernel and applications share flash and RAM, the clock
bring-up that bootloader and kernel both run and the debug port that goes by it,
the device table and the queues in it, and the caches over DMA buffers and
loaded code. TLC checks the
models on small instances, and TLAPS proves the main safety results for every
value of the constants. The kernel, the STM32 libraries, lwIP and mbed TLS are
outside the repository. They appear only as far as the code here depends on
them, and the definitions that stand for them are marked `external` in
`PROJECT.json`.

Paths below are relative to the root of the repository, which holds a
directory `src/` of its own.

## 1. Inventory

| Component | Code | State it keeps | Operations | What makes it hard |
|---|---|---|---|---|
| Ethernet PHY driver | `src/ethernet/netif_lan8742a.[ch]` | `state->is_initialized`, the static `m_ip_address`; the MAC's state and the PHY's register 0 through library calls | the ioctl handler (`I_NETIF_SETATTR` with five flags, `GETINFO`, `GETVERSION`), `initialize_ethernet`, `is_up` | no lock; read-modify-write in two calls; every call can fail; a remembered link state; a configuration pointer tested in one place of two |
| lwIP glue | `src/ethernet/lwip_config.c` | lwIP's netif, a descriptor and an address on the stack | the status callback: read, open, ioctl, close | runs on the stack's threads; the results of `open` and `ioctl` are not looked at |
| Flash map | `Nucleo-*/src/SystemClock_Config.c`, `Nucleo-*/ldscripts/*.ld`, `Nucleo-*/CMakeLists.txt`, `src/config/sos_config.c` | what each flash sector holds | kernel update (erase, write), application install and remove, start | three files agree by hand; erasure by sector; power loss |
| RAM map | the same files | kernel heap and stack, `ram_usage_table` | grow, call, load, exit | bounds repeated by hand in three places |
| Clock bring-up | `Nucleo-*/src/SystemClock_Config.c`, `src/config/sys_config.c`, `SDK/config/stm32f?xx_hal_conf.h` | the RCC, the HAL's `SystemCoreClock` | `SystemClock_Config`, `sys_initialize` | results ignored; run twice with no reset between; the oscillator's frequency in two places |
| Bootloader | `boot/*.c`, `src/config/sos_config.c` | the request word in RAM, the button, the link | `boot_is_bootloader_requested`, `boot_invoke_bootloader`, erase, write, start | a word that must outlive a reset and then be gone; crash between erase and write |
| Device table | `src/config/devfs_config.c`, `fs_config.c`, `src/config.h`, `debug_config.c`, `link_config.c` | constant tables; who has each pin, stream and peripheral; the queues | open, defaults and close of each device; reads and writes of the queues | nothing arbitrates; pins and streams named more than once; order in one table, names in others |
| Trace and debug | `src/config/debug_config.c`, `os_config.c` | the handle `m_huart3`, the LED | `debug_initialize`, `debug_write`, `debug_trace_event`, the fatal event | called from threads, interrupts and fault handlers, with no lock that could be waited for |
| Cache configuration | `src/config/cache_config.c`, `sos_config.c` | data and instruction cache | enable, disable, clean, invalidate | DMA buffers and loaded code against lines that come and go |
| System services | `src/config/sys_config.c`, `kernel_request.c` | the table of public keys | `sys_initialize`, `sys_get_public_key`, single library calls | order of start-up; a list whose end only a result tells |
| USB link | `src/config/link_config.c`, `usb_config.c`, `stm32_config.c` | the packet memory's division | open; tables for library code | sizes in words, by hand |
| Thin wrappers | `src/config/clock_config.c`, `sleep_config.c`, `mcu_config.c`, `symbols_config.c` | none | one library call each; all three sleep modes are one `WFI` | none here |
| Third-party headers | `SDK/config/**` | none | none | vendored switches |
| Build | `*.cmake`, `CMakeLists.txt` | none | none | addresses, see the flash map |

The parts meet as follows. A reset starts the bootloader. It looks at the button
and at a word in RAM, and either opens its USB link, by which a host installs a
kernel at the address that `NUCLEO_KERNEL_START_ADDRESS` names, or starts the
kernel that is there. Each image calls `sys_initialize`, which sets the clocks,
and then `debug_initialize`, whose divisor depends on them. The kernel builds
`/dev` from the device table and mounts appfs from `appfs_mem_config`;
installing a program it asks `sys_get_public_key` for one key after the other,
loading one it cleans and invalidates the caches. Everyone may call
`debug_write` and `debug_trace_event` at any time, fault handlers too. A kernel
that is asked to calls `boot_invoke_bootloader`, which leaves the word and
resets. Threads then open `/dev/eth0`: the network stack polls it with
`IS_LINK_UP` and tells it the address with `SET_IP_ADDRESS`, from
`lwip_netif_status_callback`; an administrator's request sets the link up or
down. All of them enter `netif_lan8742a_ioctl`, which calls the MAC driver.

What makes each component correct:

- **PHY driver**: the chip is used only after it was configured; a link reported
  up was up when it was confirmed; a failed stop is not remembered as a link;
  two requests that change register 0 at a time lose an update, but never send a
  PHY back to sleep that was woken; every ioctl returns; polling brings the link
  up in the end; a request does what its comment says.
- **Flash map**: no step erases the bootloader, the running kernel or an
  installed application; the kernel that is started is whole.
- **RAM map**: no application lies where the kernel's heap or stack does.
- **lwIP glue**: the driver's address becomes the stack's, in the core's byte
  order, and a callback gives back what it opened.
- **Clock**: at no moment of a bring-up, failed calls included, is the core
  faster than its supply, its flash and its buses allow; at the end its
  frequency is the one the rest of the program assumes; the second bring-up
  does not pull the clock from under the core.
- **Bootloader**: who asks for it gets it, once; a board whose kernel is gone
  can always be given a new one.
- **Device table**: no pin, stream or peripheral serves two devices in use;
  what is traced, printed or typed is found by its reader and by no other.
- **Debug port**: a message that has the port to itself is heard whole, whatever
  became of the handle before; what an interrupt or a fault writes is heard whole
  or not at all, and it never waits.
- **Keys**: an application is accepted exactly if a key of the board verifies
  it, and the search ends.
- **Cache**: what DMA reads was written back, what the core reads is not lost to
  an invalidate or stale, and code that was loaded is the code that runs.

## 2. Modules

| Module | What it is |
|---|---|
| `NetifLan8742a` | the driver, one action per stretch of code between two MAC calls or between a call and the store that follows it |
| `LinkMonitor` | what a poller may rely on: the specification the driver implements |
| `MCNetif` | clients, requests and addresses for TLC |
| `NetifLan8742aProofs` | the driver's invariants, proved |
| `BoardLayouts` | the memory maps of the five boards that can be built |
| `FlashMap`, `MCFlashMap`, `FlashMapProofs` | who owns which flash sector; boards for TLC; proofs |
| `RamMap`, `MCRamMap`, `RamMapProofs` | who uses which RAM; boards for TLC; proofs |
| `UsbFifos`, `AppKeys` | the division of the packet memory; the public keys |
| `BootFlow`, `MCBootFlow` | from reset to kernel and back, on top of `FlashMap`; boards and signers for TLC; its theorems are in `FlashMapProofs`, which extends it |
| `LwipNetif`, `LwipNetifProofs` | the status callback; proofs |
| `BoardClocks` | what each board asks of its clock tree, its limits, and the HAL's oscillator |
| `ClockConfig`, `ClockConfigProofs` | the bring-up; proofs, with those about the boards' own numbers |
| `DebugPort` | the debug port and the contexts that write to it |
| `SystemStart`, `MCSystemStart`, `SystemStartProofs` | `ClockConfig` and `DebugPort` composed; boards and threads for TLC; proofs, which build on those of `ClockConfig` |
| `DeviceTable` | the entries of `devfs_list`, the hardware they name, their order; the names in `sos_config` |
| `DevFs` | devices in use |
| `DeviceFiles`, `MCDevFs`, `DevFsProofs` | the queues, on top of `DevFs`; tables for TLC; proofs of both and of the F746ZG's table |
| `DmaBuffers` | the Ethernet buffers, of whole lines or not, and what lies beside them |
| `CacheLines`, `MCCacheLines`, `CacheLinesProofs` | write-back data cache and instruction cache between core, DMA and loaded code; objects for TLC; proofs, with those about the board's own buffers |

`FlashMap` and `RamMap` share `BoardLayouts`. A definition marked `Mutant`
in a comment stands just before the one it alters. It is a plausible bug in
the same code, and the property named with it in `PROJECT.json` must fail when
it takes the place of the original.

### NetifLan8742a

*State.* `is_initialized` and `m_ip_address` are the variables of those names.
`mac` and `control` are the MAC's state and the PHY's register 0, of which the
model keeps the three bits that matter (reset, auto-negotiation, power-down).
`cable` is the outside world. `disturbed` says that hardware calls may still
fail, and `halted` that a fault has stopped the processor until a reset. For
each client, `pc`, `o_flags`, `caller` and `eth_register` are the
handler's position, its request, the call site of `initialize_ethernet` and its
local copy of register 0; `reply` is what its last ioctl returned.
`stopFailed` is a history variable, read by properties only.

*Atomicity.* `netif_lan8742a.c` takes no lock. The handler is therefore cut at
every MAC call, at every test of shared state that follows one, and between a
call and the store of `is_initialized` that goes by its result:

| Action | Code (`netif_lan8742a.c`) |
|---|---|
| `Ioctl`, `Query`, `OtherRequest` | 79-91, 167-190: entry, and the requests without a MAC call |
| `SetAttrInit`, `SetAttrAddress`, `SetAttrLinkUp` | 92-109: the tests of `o_flags` in order |
| `InitEnter`, `Configure`, `Status`, `Fallback`, `Recheck` | 26-69: `initialize_ethernet`, its tests and calls |
| `ChipUp`, `LinkUp` | 51 and 71: its stores |
| `UpRead`, `UpWrite`, `UpStop` | 111-124: `SET_LINK_UP` |
| `Poll`, `Answer` | 126-143: `IS_LINK_UP` |
| `DownRead`, `DownWrite`, `DownStop` | 145-165: `SET_LINK_DOWN` |
| `LinkDownFails` | 149, 154, 160: the store after one of them failed |
| `Forward` | 189-190: what is left goes to `mcu_eth_ioctl` |

The flags are tested one after another, not exclusively: `SET_LINK_UP` falls
through to the test of `IS_LINK_UP`, and a request that neither returned is
forwarded to the MAC driver. The model keeps that fall-through.

`Forward` does what the MAC driver's own handler may do: nothing, start or stop
the MAC (`I_ETH_SETATTR`), or write the PHY's register. `Forwards` is the set of
these that an instance has. `Query` is `GETVERSION` and `GETINFO`; the latter
copies from `handle->config` without looking (line 173), so on a device without a
configuration it may halt the processor, or go on with what lies at a low address.

*Exclusion.* Whether two ioctls on `/dev/eth0` can overlap is the kernel's doing
and not to be read from this repository. `Serialized` makes it a parameter, and
both values are checked. With it, `FailedStopForgotten` and `TestsStillHold`
hold. Without it TLC finds both violated, so the driver depends on an exclusion
that it does not take. `ConfiguredBeforeUse`, `PhyStaysPowered`,
`EveryIoctlReturns` and `PolledLinkComesUp` need none. That without exclusion the
second of two read-modify-writes loses the first is plain, and no property says
otherwise; `PhyStaysPowered` says what the loss cannot do.
`Configs` says likewise whether a device may lack a configuration
(`handle->config` NULL): `initialize_ethernet` then gives up, and two of its three
callers go on without looking.

*Hardware.* Every MAC call may fail while `disturbed` is set; a failed start
may leave the MAC as it was or halted. A start also may fail without a cable,
faults or not. A failed read of the status register counts as no link, as in
`is_up`. `Reset` may happen between any two steps and clears the driver's
memory, not the PHY's register.

### LinkMonitor and the refinement

`LinkMonitor` is the poller's view: a link that goes from down through a
configured chip to up, that goes up only after a configured chip has seen the
medium, and polls answered with the link as it is at the moment of the answer. It
says openly what the driver does not promise: between the look and the store the
medium may go (`See`, then `Confirm`), and the link is *remembered*, so that
pulling the cable does not take it down. The driver refines it with `link <- Link`,
which is `"seen"` while a client is between its status read and its store and the
name of `is_initialized` otherwise, `medium <- cable` and `answer <- ` the reply
of the requests that reached the test of `IS_LINK_UP`.

### FlashMap

*State.* `flash` gives each sector's content; `mode` is what runs (bootloader
waiting, erasing, writing, or the kernel); `apps` are the pages that hold an
installed application, and `writing` the page erased for the next one. `Touches`
is the crux: a page or image of `appfs_mem_config` or the linker script is a
range of addresses, and erasing it takes every sector it lies in. *Actions.*
`StartUpdate`, `EraseKernel`, `WriteKernel` and `StartKernel` are the
bootloader; `EraseApp`, `WriteApp`, `RejectApp` and `RemoveApp` the kernel's
appfs; `Reset` is possible in every state, also between an erase and its write.
That a kernel is started only when whole stands for the bootloader library's
check of the image, and is `external`.

### BootFlow

*State.* `stage` is how far the bootloader's start has got, `word` whether the
RAM word at `software_bootloader_request_address` holds the request, `button`
and `gpio` the user's button and the clock without which it reads released,
`usb` and `host` the two ends of the link. `signer` and `tried` are the
installation under way: who signed the application, and how many public keys
have been tried. `asked` (the kernel has called and not been heard) and `calm`
(from here on nobody interferes) are history and environment. *Actions.*
`ClearStatics` is the start-up code, which writes the first `BootData` KB of the
linker's `ram` region and with it, perhaps, the word. `RunKernel` and `Stay` are
the two ways the bootloader goes on, by `boot_is_bootloader_requested`, the word
and the check of the image; `Stay` takes the word away. They and
`boot_invoke_bootloader` are the bootloader library's, and `external`: what the
repository has of them is the structure `sos_config.boot`, which hands the
library the word's address and value, the test of the button and the calls that
erase and write a page. `HostErases`, `HostWrites` and `HostResets` are an
update, which needs endpoints whose FIFOs fit (`FifosFit`). `OpenLink`,
`Install`, `TryKey`, `NoKey` and `Remove` are the kernel;
`boot_invoke_bootloader` leaves the word and resets. `PowerLoss` loses the RAM
as well, so the word may hold anything afterwards; `ResetButton` keeps it, but a
kernel that ran may have used the word as its own memory. Every step is one of
`FlashMap` or leaves flash alone, which `FlowIsFlashMap` proves, so the runs of
the two are one.

### RamMap

The kernel's data and heap grow from the start of the `ram` region up to
`SYSTEM_MEMORY_SIZE`, its stack downwards from the end of `sysmem`, and
applications take neighbouring free blocks of the RAM section. The order in
which the kernel allocates is its own and left open.

### LwipNetif

*State.* `ip_addr` is lwIP's address, in network order, and `m_ip_address` the
driver's; `pc`, `addr` and `fd` are each thread's place in the callback and its
locals; `others` are the descriptors the rest of the kernel has open. `missed`
is a history variable: the callback of the last change could not open.
*Actions.* `Change` is the stack's; `Read`, `Open`, `Ioctl` and `Close` are the
four calls, cut where another thread may run. `CoreLocked` says that lwIP
changes interfaces one at a time, as its documentation asks of its callers.
Without it TLC finds `AddressFollows` violated: two callbacks may write in the
other order. The ioctl is `SetAttrAddress` of `NetifLan8742a`, which succeeds
in any state of the driver, so the two modules need not be run together.

### ClockConfig, DebugPort and SystemStart

*State of ClockConfig.* `rcc` is the clock tree with what must go with it
(over-drive, flash wait states, bus dividers); `tick` the frequency by which the
system tick was set; `SystemCoreClock` the one the HAL computes from `HSE_VALUE`.
`image` tells the bootloader from the kernel: both run `sys_initialize`, and
nothing resets the tree in between. `failed` is a history variable.
*Actions.* One per HAL call, in the order of `SystemClock_Config`, each with
its failure and what it leaves behind. The HAL is external. What is taken from
it is that it does not touch a PLL the core runs from, whether that call succeeds or
not, sets wait states before
a faster clock, and returns early when an oscillator does not get ready. The
numbers are the boards' (`BoardClocks`), the limits the data sheets'.

*State of DebugPort.* `gState` is the state of the one handle, `reckoned` the
frequency from which its divisor was computed, `led` the LED; `at`, `left` and
`heard` are each context's place in `debug_write` and the bytes of its message.
Contexts are threads, an interrupt handler and the fault handler. Threads
interleave; the handler preempts threads and the fault preempts both (`Runs`).
`lone` is a history variable: whose message has had the port to itself.
*Actions.* `Call`, then for each byte `Look`, `Take` and `Shifted`, or `Refuse`:
`HAL_UART_Transmit` answers `HAL_BUSY` at once while the handle is taken, and
`debug_write` does not look. `Return` ends in the endless loop if the writer is
the `SOS_EVENT_ROOT_FATAL` case of `os_event_handler`. The model is of debug
builds; in others there is no port, and `debug_write` is empty.
*The handle.* What is taken from the HAL is that it tests the handle in one step
(`Look`) and takes it in another (`Take`), as `gState` and the plain store of
`__HAL_LOCK` are known to be. Two threads can thus both get in; they are then
`"mixed"`, and a byte of either may be lost or go out, and the first to finish frees
the handle under the other. So there is no property that says one writer at a time
is in the transmitter: it is not so.

`SystemStart` runs the two in the order of `sos_config`: `debug_initialize`
after `sys_initialize`, in each image, and writers once the image runs. A reset
or the start of the kernel zeroes the port's statics. `LineAtSpeed` relates the
two: what the HAL reckons with and what the core does decide the line's speed.

### DevFs

*State.* `descriptors` counts how often each device is open, `configured` are
the devices whose defaults are applied, and `owner` says which device each pin,
DMA stream and peripheral was last given to. *Actions.* `OpenDevice`,
`SetDefaults`, `Close`. `mcu_set_pin_function` passes every request on, so
`SetDefaults` takes a resource from whoever has it, and the last `Close` resets
what the defaults took. `debug_initialize` is a device that is configured from
the start. Which resources an entry uses depends on its driver: `spi0` and
`uart1` carry DMA configurations for drivers that ignore them. `Shared` names the
resources that more than one entry is known to use; on the boards it is PA7 (see
the notes in section 4).

### DeviceFiles

*State.* `queue` is what each of the queues `trace`, `stdio-out` and `stdio-in`
holds, `unread` the kinds of things (events, output, input) that were written
since their reader last found nothing. *Actions.* `TraceEvent` writes to
`devfs_list[0]`, whatever that is, as both `debug_trace_event` and
`board_trace_event` do. `Output` and `Input` go by the names of `sos_config.fs`,
looked up through `sysfs_list` in its order; `Fetch` is a reader's. A full queue
keeps what it has. The device table's own steps go on meanwhile.

### CacheLines

*State.* `memory`, the data cache (`denabled`, `data`, `dirty`) and the
instruction cache (`ienabled`, `code`); `stage`, how far a program's loading has
got; the buffers in the hands of the DMA (`armed`), and `start`, where the
linker put each object: every placement that alignment allows is an initial
state. `written` is a history variable. *Actions.* The core's reads and writes,
fetches and evictions at any moment; the MAC driver's two protocols (clean and
then send; receive, invalidate and then read); the kernel's loader (write,
clean, invalidate, run); `cache_enable` and `cache_disable`, in two steps each,
the instruction cache first, and a reset, which switches the caches off and
leaves stale lines in them. Drivers and loader start and end with the data cache
on. The operations of `cache_config.c` are operators of the same names; those by
block take whole lines. `cache_invalidate_data` has no caller in this repository
outside enabling and disabling, where the core's library does the same: on a
cache in use it would lose every write not yet written back. MAC driver and
loader are external.

*The buffers' size.* `devfs_config.c:273-274` aligns both buffers to a line and gives
them `STM32_ETH_DMA_BUFFER_SIZE` bytes, which the MCU library defines. By
`SDK/config/stm32f7xx_hal_conf.h:213-216` it is likely four packets of
`ETH_MAX_PACKET_SIZE`, in ST's HAL 1524 bytes, and so 190 lines and a half. A buffer
of whole lines has its lines to itself. One whose last line is ragged shares it with
whatever the linker puts there: an invalidate loses what was written there, and an
eviction overwrites what the MAC wrote. `Promised` therefore leaves out of the three
properties whatever has a part in a shared line (`SharedLines`), unless all receive
buffers are whole. Both sizes are checked. Without the exception, TLC finds
`CoreReadsLast` violated after three steps: a reception starts, the variable beside
the buffer's end is written, and the invalidate loses it.

## 3. Runs

| Run | Instance | Expectation | Shows |
|---|---|---|---|
| `netif_serial` | 2 clients, every single flag, none, and two pairs; devices with and without a configuration; requests handed on do anything to MAC and PHY | pass | the driver's guarantees under exclusion: `FailedStopForgotten`, `TestsStillHold`, `UnconfiguredStaysDown`, `LinkLostOnlyByFailedStop`, and `ImplementsLinkMonitor` |
| `netif_interleaved` | 2 clients, a poll and a request that goes through the other two, no exclusion, fairness; requests handed on may write the PHY's register | pass | `ConfiguredBeforeUse`, `PhyStaysPowered`, `EveryIoctlReturns` and `PolledLinkComesUp` need no lock |
| `netif_restart`, `netif_power_down` | 1 client | violation | `LinkUpRestarts`, `LinkDownPowersDown`: findings 1 and 2 |
| `flash_map` | F446ZE, F767ZI, F412ZG, F413ZH, up to 2 applications, signed with either key or another; resets, power losses, fairness | pass | `BootSurvives`, `KernelSurvives`, `AppsSurvive`; `RequestHonoured`, `UpdateRepairs`; `KeysDecide` |
| `flash_overlap` | F746ZG | violation | finding 3 |
| `ram_map` | F446ZE, F746ZG, F767ZI, F413ZH, 2 applications of up to 2 blocks of 16K | pass | `KernelRamApart`, `AppsInRam` |
| `ram_overlap` | F412ZG | violation | finding 4 |
| `lwip_netif` | 2 threads, addresses of 2 bytes of 2 values, 2 descriptors | pass | `AddressFollows`, `DescriptorsReturned` |
| `clock_start` | 5 boards, 2 threads, a handler and a fault, messages of 2 bytes, fairness | pass | `WithinLimits`, `CleanStart`, `ToldOrSlow`, `CoreClocked`; `LoneMessageWhole`, `InterruptsWhole`, `WritesEnd`; `LineAtSpeed` |
| `device_table` | 14 devices of the F746ZG, of which the other boards' are parts, and 3 queues | pass | `ResourcesKept`, `NothingStrays`, `StreamsApart` |
| `cache_lines` | buffers of whole lines with a variable or with each other, ragged ones with a variable, or a program and a variable, in 2 lines | pass | `CoreReadsLast`, `MacReadsLast`, `LoadedCodeRuns` |

### Bounds, and why they are enough

- **Clients = 2**. All interference goes through five shared variables and no
  client waits for another. Each property about a client speaks of one client
  and whatever the others did, and one other client can take every one of the
  others' steps. The theorems remove the bound for the safety properties they
  cover.
- **Requests**. `netif_serial` has every single flag, the empty request and the
  two pairs that take the handler through two of its branches. Other pairs are
  cut short by an early return (`INIT`, `SET_IP_ADDRESS`) or by `IS_LINK_UP`.
  The interleaved run leaves out `INIT` and `SET_IP_ADDRESS`: the first is
  `initialize_ethernet` again, reached by the other requests too, and the second
  writes only the address. It has one request for `SET_LINK_UP` and
  `SET_LINK_DOWN` that goes through the code of both, and a device with a
  configuration; the theorems on its two safety properties have any requests and
  any device.
- **Forwards**: in `netif_serial` everything a request handed on may do (start,
  stop, write the register), in `netif_interleaved` the writes of the register,
  which are what can come between another client's read and its write; in the
  two runs that show a finding nothing, so that it is not the MAC driver that
  undoes what the request did. The theorems have any.
- **Addresses = 1**, beside `NoAddress`: no property compares two addresses.
- **MaxApps = 2**: one application installed while another is there. Page sets
  and sector sizes are the boards' own, not scaled.
- **BootData = 16** is the largest size of the bootloader's statics for which
  the request survives on the boards whose `ram` region starts at 0x20000000;
  with 17 TLC finds `RequestHonoured` violated. How large they are is decided by
  libraries; the linker script gives the word no place of its own.
  `BoardsHonourRequests` has the same bound, and none for the F7 boards.
- **Signers**: the board's two keys and one that it does not know, so the search
  ends at the first, at the last and past it.
- **Threads = 2**, **MessageBytes = 2**: two threads and an interrupt can meet
  in one handle, and two bytes tell whole from torn and missing.
- **QueueSize = 1**: a queue is empty or full. What is dropped is dropped at any
  size, and the theorem has any (the code's: 16 events, 512 bytes).
- **Grain = 16 KB** divides every bound of every board, so no boundary falls
  inside a block. `BoardsShareRam` has the finer grains too, down to 1 KB.
  `MaxRunning` and `MaxBlocks` = 2: an overlap is a fact about one block.
- **MaxOpen = 3**, **MaxDescriptors = 2**: a resource is taken by one device
  from another, and a third can come between them; two descriptors tell the last
  close from an earlier one. The theorems remove both.
- **Lines = 2** of **LineCells = 2**: a buffer stands for its last line, which is
  whole (2 cells) or ragged (1), and the variable can be placed in that line or
  in the other. Whole buffers, which nothing can join, are met two objects at a
  time. A loaded program is a line: loaders align what they load. The theorems
  have any number of lines, sizes and objects.
- **OPEN_MAX = 2**, two threads: none, one or all descriptors can be gone.
- **OverDriveMayFail = FALSE**: the one assumption about hardware. With TRUE,
  TLC finds `WithinLimits` violated, since the result of
  `HAL_PWREx_EnableOverDrive` is ignored and the core goes to 216 MHz anyway.
  `FlashKeepsUp` says that what is lost then is the supply's limit only: the
  core still is no faster than the flash's wait states and the bus dividers
  allow.

`SYMMETRY` over the clients is used in runs without liveness properties only;
`LinkMonitor!Spec` is a safety specification, symmetric in the clients too.

### Fairness

`WF_vars(Step(c))` for each client and nothing else: a thread inside a system
call runs on. No client is obliged to call, cables obey nobody, and faults need
not end. `PolledLinkComesUp` makes those its premises: *if* the device has a
configuration, faults end, the cable stays, requests handed on to the MAC driver
leave MAC and PHY alone, and some client asks again and again, then the link
comes up and stays up. `EveryIoctlReturns` has no premise; its
exception is a processor halted by `GETINFO`.

`BootFlow` has weak fairness for the processor's own steps (`ClearStatics`,
`RunKernel`, `Stay`) and for a host that has an update under way. Users, faults
and requests owe nothing: `UpdateRepairs` speaks of a time from which they are
quiet (`calm`), from whatever state they left. A connected host erases, then
writes, then resets; one that erased again what it had written, for ever, would
repair nothing.

`SystemStart` has weak fairness for the steps of the interrupt and the fault
handler inside `debug_write`: the transmitter empties, and a context that
preempts others is not preempted by them. Nothing is assumed of threads.

## 4. Findings

Each is a run of its own, in which TLC gives the trace.

1. **`SET_LINK_UP` stops the MAC.** `netif_lan8742a.c:120` passes
   `ETH_FLAG_STOP`, under a comment (line 103) that says "restart after having
   been stopped". An interface taken down and up again has its MAC stopped.
2. **`SET_LINK_DOWN` does not power the PHY down.** Line 152 computes
   `value |= ~(1 << 11)`: it sets every bit but power-down, the reset bit too.
3. **F746ZG: an application page lies in the kernel.** The third section is a
   256K page at 0x08040000, and the kernel starts at 0x08060000 in the same
   sector. Installing there erases the kernel that does it.
4. **F412ZG: application RAM runs into `sysmem`.** `RAM_PAGES` counts 256K
   where the linker script has 240K of `ram` and then the kernel's stack.

Other differences between text and code, or between two places of the code,
are facts of a line or two and have no run:

- **The fallback negotiates.** `netif_lan8742a.c:58` passes NULL, which makes
  the MAC driver take the device table's configuration, and that asks for
  auto-negotiation (`devfs_config.c:286`). The comment on line 57 says "try
  without auto negociation". `Fallback` is modelled as the code is.
- **`GETINFO` reads through a null configuration.** `netif_lan8742a.c:35` tests
  `handle->config`, line 173 does not. The device table gives `eth0` a
  configuration, so no board here meets it.
- **The end of `eth_rx_buffer` may be a ragged line** (`devfs_config.c:274`), see
  `CacheLines` above: four packets of 1524 bytes are 190 lines and a half, and
  what shares the last line can lose a write. The number is the MCU library's.
- **`eth0` and `spi0` share PA7.** Both are given defaults, which are meant for
  peripherals "dedicated for use on the board" (`devfs_config.c:37`). Whichever
  is configured last has the pin, and closing it takes the pin from the other.
  With `Shared` empty TLC finds `ResourcesKept` violated.
- **`HSE_VALUE` is 25 MHz on the F7 boards**, and no build file overrides it,
  while `SystemClock_Config` divides an 8 MHz clock: the HAL's `SystemCoreClock`
  becomes 675 MHz. The tick counts by `SOS_BOARD_SYSTEM_CLOCK` instead, but the
  debug port's divisor goes by the HAL's: `README.md:69` has the trace at 115200
  baud, `debug_config.c:42` asks for 400000, and on the F7 boards the line runs at
  128000, which `LineAtSpeed` states as the fraction it is.
- **A fatal message can be missing.** A fault that strikes inside a byte finds
  the handle busy for good, and every byte of the message is refused.
  `InterruptsWhole` states exactly when.
- The bootloader's `usb_attr.freq` is not set (`boot/boot_link_config.c:45`, where
  the assignment is commented out), and `debug_initialize` leaves the LED's
  `gpio_init.Pull` as the stack had it.
- `SDK/config/sos_config.h:36` says that the bootloader provides AES, for which
  `boot_kernel_request_api` answers 0.
- With `INCLUDE_AUTH`, `sys_kernel_request_api` would have one case label twice
  (`sys_config.c:64` and 78).
- `src/config.h:61` asks whether `INCLUDE_ETHERNET` is defined; the build of the
  F767ZI defines it as 0 and so keeps the socket symbols.
- There are two rings of 16 events and two functions that write one: the table
  uses `board_trace_config` (`os_config.c:19`) and `sos_config` uses
  `debug_trace_event`, so `debug_trace_config` and its buffer
  (`debug_config.c:76`) and `board_trace_event` serve nobody.
- A comment of `Nucleo-F767ZI/src/SystemClock_Config.c` and of F746ZG's speaks
  of skipping the first two pages where the code skips one of 32K. The
  bootloader fits in it.

## 5. What is proved

The theorems come in three kinds. The first say what the code does for any
values of the constants that satisfy a named premise. The second (`Boards...`,
`BoardDevicesApart`, `BoardBuffersHide`) discharge the premise for the numbers in
this repository, so that nothing is left to assume but what the table says. The
third are the safety halves of the liveness properties.

| Theorem | Says | Assumes |
|---|---|---|
| `TypeCorrect` | `Spec => []TypeOK` | the constants' types |
| `ConfiguredAlways` | `Spec => []ConfiguredBeforeUse` | the constants' types |
| `PhyIsKeptPowered` | `Spec => PhyStaysPowered` | none |
| `FailedStopIsForgotten`, `InitialisationsAreCurrent` | `Spec => []FailedStopForgotten`, `[]TestsStillHold` | `Serialized` |
| `UnconfiguredIsDown` | `Spec => []UnconfiguredStaysDown` | "1" is no address |
| `LinkIsKept` | `Spec => LinkLostOnlyByFailedStop` | `Serialized` |
| `DriverMonitorsLink` | `Spec => ImplementsLinkMonitor`, the refinement | `Serialized` |
| `IoctlsComeNearer` | an ioctl has at most 20 steps left, and each of its steps leaves fewer | none |
| `BootloaderSurvives` | `Spec => [](TypeOK /\ BootSurvives)` | `BootApart` of every board |
| `ApplicationsSurvive`, `FlashIsShared` | `Spec => []AppsSurvive`, and with it `[]BootSurvives` and `[]KernelSurvives` | `FlashApart` of every board |
| `FlowIsFlashMap` | `FlowSafety => Spec`: the flow from reset to kernel keeps all of these | none |
| `FlowTypeCorrect`, `KeysDecideAlone` | `FlowSafety => []FlowTypeOK`, `FlowSafety => KeysDecide` | none |
| `RequestsAreHonoured` | `FlowSafety => RequestHonoured` | `WordSafe` of every board |
| `BoardsShareFlash` | `FlowSafety => [](BootSurvives /\ KernelSurvives /\ AppsSurvive)` | the repository's `Layouts`, but for the F746ZG |
| `BoardsKeepBootloader` | `FlowSafety => []BootSurvives` | the repository's `Layouts` |
| `BoardsHonourRequests` | `FlowSafety => RequestHonoured` | the same, with `BootData <= 16` or F7 boards only |
| `RepairComesNearer` | once users and faults are quiet, a step towards a running kernel is possible and each step shortens the distance | sectors are counted by numbers |
| `RamTypeCorrect` | `Spec => []TypeOK` | the constants' types |
| `AppsStayInRam`, `KernelRamIsItsOwn` | `Spec => []AppsInRam`, `Spec => []KernelRamApart` | `RamApart` of every board |
| `BoardsShareRam` | `Spec => [](KernelRamApart /\ AppsInRam)` | the repository's `Layouts`, but for the F412ZG; blocks of 1 to 16 KB |
| `BoardsKeepHeap` | no application block is one of the kernel's heap | the repository's `Layouts`; blocks of 1 to 16 KB |
| `DriverFollowsStack` | `Spec => []AddressFollows` | `CoreLocked` |
| `DescriptorsAreReturned`, `CallbacksTyped` | `Spec => []DescriptorsReturned`, `[]TypeOK` | finitely many threads |
| `CoreWithinLimits` | `Spec => []WithinLimits` | `Numbers` (legal numbers on every board), `~OverDriveMayFail` |
| `ClocksTyped`, `CoreStaysClocked`, `StartsAsTold`, `FailedStartIsSlow`, `FlashKeepsUp` | `Spec => []TypeOK`, `[]CoreClocked`, `[]CleanStart`, `[]ToldOrSlow`, `[]FlashAndBuses` | `Numbers` |
| `BoardsWithinLimits` | `Spec => []WithinLimits` | the boards' own numbers, `~OverDriveMayFail` |
| `BoardsStart` | `Spec => [](CleanStart /\ ToldOrSlow /\ CoreClocked)` | the boards' own numbers |
| `StartIsClockStart` | `SysSafety => Spec`: the start with its debug port keeps all of these | none |
| `LoneMessagesAreHeard`, `FaultIsHeardWhole` | `SysSafety => []LoneMessageWhole`, `[]InterruptsWhole` | none |
| `SystemTyped` | `SysSafety => []SysTypeOK` | `Numbers` |
| `LineKeepsSpeed` | `SysSafety => []LineAtSpeed` | `Numbers`, and a PLL that multiplies by a whole number |
| `BoardsKeepLineSpeed` | `SysSafety => []LineAtSpeed` | the boards' own numbers and oscillators |
| `WritesComeNearer` | an interrupt at work that is not preempted can go on, and each step shortens what is left | none |
| `ResourcesAreKept` | `Spec => []ResourcesKept` | `TableApart` |
| `DevicesTyped` | `Spec => []TypeOK` | none |
| `FilesAreDevFs` | `FilesSpec => Spec`: with the queues, all of these hold too | none |
| `EventsAreFound`, `NamesFindQueues` | `FilesSpec => []NothingStrays`, `[]StreamsApart` | `FilesAgree` |
| `BoardDevicesApart` | `FilesSpec => [](ResourcesKept /\ NothingStrays /\ StreamsApart)` | the F746ZG's table or a part of it, its names |
| `CachesTyped` | `Spec => []TypeOK` | none |
| `CachesHideFromCore`, `CachesHideFromMac`, `CachesHideFromCode` | `Spec => []CoreReadsLast`, `[]MacReadsLast`, `[]LoadedCodeRuns` | `BuffersAlone` |
| `AlignedBuffersHide` | all three | `ReceiveAligned`: receive buffers are aligned to a line |
| `BoardBuffersHide` | all three | receive buffers are `eth_rx_buffer` of some size, and the line's size is the board's |

*The driver.* `ConfiguredBeforeUse` is not inductive: a client that stands at
`status`, `fallback` or `recheck` will set the state to `STATE_LINK_UP`, so
`ConfiguredInv` adds that the MAC has left `"reset"` whenever a client is past
`configure`. The argument is then that no step but `Reset` returns the MAC to
`"reset"`, and `Reset` empties every handler. `FailedStopForgotten` fails for
interleaved handlers (a client past its test may set `STATE_LINK_UP` over a
failed stop). `SerialInv` adds that at most one client is inside,
`TestsStillHold` for it, and that one about to store `STATE_CHIP_UP` has just
started the MAC (`StartedAfresh`); they hold together or not at all, and each
step is shown to preserve them all. `PhyIsKeptPowered` needs no invariant and no
exclusion: whatever a client's copy holds, what `SET_LINK_UP` writes has
power-down clear, and the proof goes through every action that writes the
register. The refinement adds what a reply can be in the middle of an ioctl, so
that only the step that answers a poll changes `LinkMonitor`'s answer, and where
a client is between its status read and its store. `UnconfiguredIsDown` needs no
exclusion: no step past the test for a configuration is reachable without one.

*The maps.* The theorems separate what the code does from what the numbers are.
They hold for *any* layout in which the parts lie in different sectors
(`FlashApart`) or blocks (`RamApart`), with any number of applications. That four
boards satisfy each premise is proved from their maps, and findings 3 and 4
are the boards that fail them. A sector touches two parts only if one reaches
beyond the other's border, so for flash it is enough that the parts lie in order
(`InOrder`) and that a sector starts at each border (`Border`); each board's
sectors are then arithmetic. Even the F746ZG's bootloader, whose sectors no page
touches, survives (`BootApart`), and even the F412ZG's heap is its own: its
applications reach the stack, not the heap.
`FlashInv` strengthens the properties by what holds half way
through an update or installation, `KernelInv` by the bounds of heap and stack.
`RequestsAreHonoured` likewise leaves one
question to the link map, `WordSafe`: that the statics end before the word. From
it `AskedInv` follows, that a request not yet answered is in the word, and the
word is looked at by every start. `KeysDecideAlone` needs to know what has been
tried: `TriedInv` says that none of the keys before the present one verified the
application, and the search's end is then the only way to reject it.
`RepairComesNearer` counts what is between a board and a running kernel: the
sectors of the kernel's image to be erased and those to be written, and the
steps of the start. A host that writes does not erase again, and one that erases
finds the image emptier each time, so in `calm` every step makes it smaller.

*The clock.* `ClockInv` says what each call may rely on: over-drive is on from
the call that enables it, and a core on the PLL has a locked PLL, the board's
wait states, and dividers that are the board's or the slowest. From `LegalClock`
it then follows that every such state is within the limits. The over-drive
enters one conjunct only, so its failure costs the supply's limit and nothing
else. `CleanInv` adds that as long as nothing failed, the PLL is locked before
the core is switched to it, and that the tick is set for the frequency told.
`BoardNumbers` is `LegalClock` of each of the five boards, computed.

*The debug port.* `InterruptsWhole` is a fact about preemption: while the handler
or the fault is between two bytes, whoever holds the handle is preempted and
cannot let go of it. So the invariant says that the handle was either free for
every byte so far or busy for every one, that a context in the transmitter is
its only holder, and that what is preempted does not move. `LineInv` says from
which frequency the divisor was reckoned; the rest of `LineKeepsSpeed` is
arithmetic, in which the factors of the PLL cancel (`FactorCancels`).

*The device table.* `Kept` is inductive for resources that one entry names: only
then does what one device takes or resets leave every other's alone. `TableApart`
holds of the table: `device_table` has any two devices in use at a time, each
keeping what it names, so no resource is named by both, and `F746ZGIsApart` proves
it entry by entry. `FilesAgree` says that the
four names lead to three different queues, that of events being the first entry;
`QueueInv`, that each queue then holds one kind of thing only, and is not empty
as long as something is unread.

*The caches.* `IInv` has four parts. The core's view of a cell is the last value
written unless the MAC may be writing it (`CoreCurrent`); memory's is too unless
a cache that is on has the line dirty (`MemoryCurrent`); the lines of a receive
buffer are never dirty (`ReceiveClean`), or an eviction would undo what
arrived; and the memory of code is up to date from `CleanCode` on
(`CodeCurrent`). `BuffersAlone` is used where a write makes a line dirty, which
is then no receive buffer's, and where an invalidate drops lines, which then
hold nothing else. It is a statement about where the linker puts things; what the
source has is an alignment and a length, and from these (`ReceiveAligned`) no line
of a receive buffer can hold anything else, wherever it starts.

*Liveness, as far as safety goes.* Three of the four liveness properties rest on a
number that each step makes smaller. `Left` is the longest way from a position in
the driver to its return, `Distance` that from a board to a running kernel,
`Rest` what an interrupt has still to send. The theorems prove that the numbers
decrease, that nobody else's step raises them but the ones they name (a reset, a
fault), and that for the last two some step can be taken. What TLC adds is that
weak fairness then leads to the end.

*The callback.* The lock leaves one thread in it (`Alone`), and `Progress` says
what that thread has got so far; a thread that is alone writes the address of
the last change. Descriptors are counted as the cardinality of the set of threads
that hold one, which each call changes by one at most.

## 6. Only model-checked

- Liveness (`EveryIoctlReturns`, `PolledLinkComesUp`, `UpdateRepairs`,
  `WritesEnd`): fairness and `ENABLED` are out of the prover's
  reach.
- `PolledLinkComesUp` altogether; of the other three, the step from a decreasing
  number to its end.
- What remains a premise, because it is not to be found in this repository: that
  ioctls on one device exclude each other (`Serialized`), that lwIP's core is
  locked (`CoreLocked`), that the over-drive gets ready, and how large the
  bootloader's statics are (`BootData`). The size of the Ethernet buffers
  (`STM32_ETH_DMA_BUFFER_SIZE`) is not here either, and nothing is assumed of
  it. For the first three TLC shows what fails without them. That "1" is not an
  address is a matter of how the model writes addresses.
- The runs are given the boards' numbers as the theorems about the boards are. Each
  board that one of these theorems leaves out is one on which TLC finds the
  violation: findings 3 and 4.

## 7. Not modelled

- Packet data: `netif_lan8742a_read` and `_write` hand the buffer to the MAC
  driver; nothing of the driver's state is involved.
- GPIO entries of the device table, whose pins an application chooses, and
  `core`, `sys` and `auth`, whose drivers are library code. The I2S clock of the
  F446ZE.
- Alignment of the ADC's and `uart5`'s DMA buffers: whether their drivers
  clean and invalidate at all is library code.
- The trigger in `adc0`'s configuration (`{2, 0}`, by its comment `/dev/tim2`) as
  a resource: the ADC listens to the timer's output and does not take the timer.
- Whether a driver goes by the port of its handle or of its configuration;
  for `spi2` the two differ, and the model takes the configuration's.
- The address flags (IPv4/IPv6) of `GETINFO`, and the contents of addresses.
- Constant tables handed to library code (USB descriptors, system call symbols),
  and one-line wrappers, the sleep modes among them.
- `SOS_EVENT_START_LINK`, which starts lwIP and the LED thread, and
  `INVALID_PIN_ASSIGNMENT`, which logs.
- The vendored configuration headers: mbed TLS's 3112 lines and the HAL's 1460
  are more than half of the C in the repository, and but for a few numbers, which
  are in `BoardClocks` and `NetifLan8742a`, they switch parts of other
  projects' code on and off. No board is built with the H7 header.
- `Nucleo-F412ZG/boot` and `Nucleo-F413ZH/boot`: older copies of `boot/` that no
  build file names.
- Whether the bootloader's library sends trace events: the bootloader's
  `sos_config` has no device table for `debug_trace_event` to write to.
- Boards without a buildable configuration here (F429ZI, F722ZE, H743ZI: their
  directories hold settings only).
- The components marked `not_modelled` in `PROJECT.json`, with the reasons.

## 8. Plan

What could be added:

1. An abstract bring-up (off, slow, told) that the tick and USB rely on, with
   `ClockConfig` shown to implement it, in TLC and as a theorem.
2. Several installations at a time, if the kernel's loader turns out to allow
   them; `BootFlow` has one.
3. `START_LINK`: the start of lwIP against the first poll of the PHY driver.
