------------------------------ MODULE FlashMap ------------------------------
(***************************************************************************)
(* Who owns which flash sector.  Three parties share the flash of a board: *)
(* the bootloader that never changes, the kernel it installs from          *)
(* __KERNEL_START_ADDRESS on (sos_config.boot), and the applications the   *)
(* kernel installs in the pages of appfs_mem_config.  Flash is erased a    *)
(* sector at a time, whatever page the writer means, and power may go      *)
(* between any two steps.                                                  *)
(***************************************************************************)
EXTENDS Integers, FiniteSets, BoardLayouts

CONSTANTS
  Boards,   \* the boards looked at
  Layout,   \* the memory map of each
  MaxApps   \* bound: applications installed at a time

ASSUME MaxAppsAssumption == MaxApps \in Nat

VARIABLES
  board,    \* the board this is; never changes
  flash,    \* what each sector holds
  mode,     \* "boot"; "erase" and "write" during an update; "kernel"
  apps,     \* the pages that hold an application the user has installed
  writing   \* the pages erased for an application that is being installed

vars == <<board, flash, mode, apps, writing>>

SectorsOf(b) == 1..Layout[b].link.flash_page_count
\* The sectors a region of flash lies in: erasing or writing it takes them all.
Touches(b, r) == {s \in SectorsOf(b) : Overlap(Sector(Layout[b].unit, s), r)}

AppPages(b) == Layout[b].appfs.pages
\* A kernel image starts at program_start_address and may take the rest.
KernelFlash(b) ==
  LET start == Layout[b].build.kernel
  IN Region(start, Layout[b].link.flash.size - start)
\* The sectors of each party, by board: constants.
Parts == [b \in Boards |->
  [boot   |-> Touches(b, Region(0, Layout[b].appfs.boot)),
   kernel |-> Touches(b, KernelFlash(b)),
   pages  |-> [page \in AppPages(b) |-> Touches(b, page)]]]
BootSectors(b) == Parts[b].boot
KernelSectors(b) == Parts[b].kernel
PageSectors(b, page) == Parts[b].pages[page]

Blank == <<"blank", 0>>
Boot == <<"boot", 0>>
Kernel == <<"kernel", 0>>
App(page) == <<"app", page.start>>

Put(sectors, content) ==
  flash' = [s \in DOMAIN flash |-> IF s \in sectors THEN content ELSE flash[s]]

\* A board as it leaves the programmer: bootloader and kernel, no application.
Init ==
  /\ board \in Boards
  /\ flash = [s \in SectorsOf(board) |->
       IF s \in BootSectors(board) THEN Boot
       ELSE IF s \in KernelSectors(board) THEN Kernel ELSE Blank]
  /\ mode = "boot"
  /\ apps = {}
  /\ writing = {}

\* The bootloader runs a kernel only if the image is whole.
StartKernel ==
  /\ mode = "boot"
  /\ \A s \in KernelSectors(board) : flash[s] = Kernel
  /\ mode' = "kernel"
  /\ UNCHANGED <<board, flash, apps, writing>>

\* An update is asked for: by the pin (boot_is_bootloader_requested), by the
\* word at software_bootloader_request_address, or by a missing kernel.
StartUpdate ==
  /\ mode = "boot" /\ mode' = "erase"
  /\ UNCHANGED <<board, flash, apps, writing>>

\* boot.flash_erase_page on each of the kernel's sectors, then
\* boot.flash_write_page.
EraseKernel(s) ==
  /\ mode = "erase" /\ flash[s] # Blank
  /\ Put({s}, Blank)
  /\ UNCHANGED <<board, mode, apps, writing>>

WriteKernel(s) ==
  /\ \/ mode = "write"
     \/ mode = "erase" /\ \A q \in KernelSectors(board) : flash[q] = Blank
  /\ flash[s] = Blank
  /\ Put({s}, Kernel)
  /\ mode' = "write"
  /\ UNCHANGED <<board, apps, writing>>

\* The kernel installs an application: erase its page, then write it.
EraseApp(page) ==
  /\ mode = "kernel" /\ writing = {}
  /\ page \in AppPages(board) \ apps
  /\ Cardinality(apps) < MaxApps
  /\ Put(PageSectors(board, page), Blank)
  /\ writing' = {page}
  /\ UNCHANGED <<board, mode, apps>>

WriteApp(page) ==
  /\ mode = "kernel" /\ page \in writing
  /\ Put(PageSectors(board, page), App(page))
  /\ apps' = apps \cup {page}
  /\ writing' = {}
  /\ UNCHANGED <<board, mode>>

\* Mutant: the page is marked, not erased.
RemoveAppByMark(page) ==
  /\ mode = "kernel" /\ page \in apps
  /\ Put(PageSectors(board, page), <<"removed", 0>>)
  /\ apps' = apps \ {page}
  /\ UNCHANGED <<board, mode, writing>>

RemoveApp(page) ==
  /\ mode = "kernel" /\ page \in apps
  /\ Put(PageSectors(board, page), Blank)
  /\ apps' = apps \ {page}
  /\ UNCHANGED <<board, mode, writing>>

\* The image sent is none the kernel accepts: its page stays erased.
RejectApp(page) ==
  /\ mode = "kernel" /\ page \in writing
  /\ writing' = {}
  /\ UNCHANGED <<board, flash, mode, apps>>

\* A reset or a loss of power, at any moment.
Reset ==
  /\ mode' = "boot" /\ writing' = {}
  /\ UNCHANGED <<board, flash, apps>>

Next ==
  \/ StartKernel \/ StartUpdate \/ Reset
  \/ \E s \in KernelSectors(board) : EraseKernel(s) \/ WriteKernel(s)
  \/ \E page \in AppPages(board) : 
       EraseApp(page) \/ WriteApp(page) \/ RejectApp(page) \/ RemoveApp(page)

Spec == Init /\ [][Next]_vars

TypeOK ==
  /\ board \in Boards
  /\ flash \in [SectorsOf(board) ->
       {Blank, Boot, Kernel} \cup {App(page) : page \in AppPages(board)}]
  /\ mode \in {"boot", "erase", "write", "kernel"}
  /\ apps \in SUBSET AppPages(board)
  /\ writing \in SUBSET AppPages(board)

(***************************************************************************)
(* No update and no installation, whole or cut short, erases the           *)
(* bootloader: the one program that can repair the rest.                   *)
(***************************************************************************)
BootSurvives == \A s \in BootSectors(board) : flash[s] = Boot

(***************************************************************************)
(* The kernel that runs is whole: installing or removing an application    *)
(* never erases a sector of the program that does it ("the last 2 flash    *)
(* pages are used for the OS").                                            *)
(***************************************************************************)
KernelSurvives ==
  mode = "kernel" => \A s \in KernelSectors(board) : flash[s] = Kernel

(***************************************************************************)
(* An installed application stays installed: a kernel update, another      *)
(* application or a loss of power in the middle of either leaves it alone. *)
(***************************************************************************)
AppsSurvive ==
  \A page \in apps : \A s \in PageSectors(board, page) : flash[s] = App(page)

(***************************************************************************)
(* What the layout of a board owes: the bootloader, the kernel and the     *)
(* pages of the application filesystem are in different sectors.           *)
(***************************************************************************)
FlashApart(b) ==
  /\ BootSectors(b) \cap KernelSectors(b) = {}
  /\ \A page \in AppPages(b) :
       /\ PageSectors(b, page) \cap (BootSectors(b) \cup KernelSectors(b)) = {}
       /\ \A other \in AppPages(b) :
            other # page => PageSectors(b, page) \cap PageSectors(b, other) = {}

=============================================================================
