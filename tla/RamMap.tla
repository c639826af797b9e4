------------------------------- MODULE RamMap -------------------------------
(***************************************************************************)
(* Who uses which RAM while the kernel runs.  The kernel's data and heap   *)
(* grow from the start of the linker's ram region up to                    *)
(* sos_config.sys.memory_size; its stack grows down from the end of        *)
(* sysmem; applications get pages of the RAM section of appfs_mem_config,  *)
(* which ram_usage_table keeps.  The three bounds are computed in three    *)
(* places: the linker script, SYSTEM_MEMORY_SIZE and RAM_PAGES.  RAM is    *)
(* counted in blocks of Grain KB, which divides every bound of every board.*)
(***************************************************************************)
EXTENDS Integers, FiniteSets, BoardLayouts

CONSTANTS
  Boards,       \* the boards looked at
  Layout,       \* the memory map of each
  Grain,        \* KB in a block
  MaxRunning,   \* bound: applications loaded at a time
  MaxBlocks     \* bound: blocks an application needs

ASSUME GrainAssumption == Grain \in Nat \ {0}
ASSUME BoundAssumption == MaxRunning \in Nat /\ MaxBlocks \in Nat

VARIABLES
  board,   \* the board this is; never changes
  heap,    \* blocks of the kernel's data and heap in use
  stack,   \* blocks of sysmem its stack has reached
  loaded   \* the runs of blocks that hold an application

vars == <<board, heap, stack, loaded>>

Blocks(r) == r.start \div Grain .. End(r) \div Grain - 1
\* SYSTEM_MEMORY_SIZE reserves the start of ram for the kernel.
KernelMemory(b) == Blocks(Region(Layout[b].link.ram.start, Layout[b].build.memory))
SysMem(b) == Blocks(Layout[b].link.sysmem)
AppMemory(b) == Blocks(Layout[b].appfs.ram)

\* The blocks the kernel's heap and stack have reached.
HeapBlocks ==
  Blocks(Region(Layout[board].link.ram.start, heap * Grain))
StackBlocks ==
  Blocks(Region(End(Layout[board].link.sysmem) - stack * Grain, stack * Grain))

\* ram_usage_table: the blocks that are taken.
Usage == UNION loaded

Init ==
  /\ board \in Boards
  /\ heap = 1 /\ stack = 1
  /\ loaded = {}

GrowHeap ==
  /\ (heap + 1) * Grain <= Layout[board].build.memory
  /\ heap' = heap + 1
  /\ UNCHANGED <<board, stack, loaded>>

\* A call or an interrupt, and its return.
Call ==
  /\ (stack + 1) * Grain <= Layout[board].link.sysmem.size
  /\ stack' = stack + 1
  /\ UNCHANGED <<board, heap, loaded>>

\* Mutant: a return from the outermost frame.
ReturnTooFar == stack' = stack - 1 /\ UNCHANGED <<board, heap, loaded>>

Return ==
  /\ stack > 1
  /\ stack' = stack - 1
  /\ UNCHANGED <<board, heap, loaded>>

\* An application is loaded in neighbouring blocks that are free, and ends.
Load(first, n) ==
  LET taken == first..first + n - 1
  IN /\ Cardinality(loaded) < MaxRunning
     /\ taken \subseteq AppMemory(board) \ Usage
     /\ loaded' = loaded \cup {taken}
     /\ UNCHANGED <<board, heap, stack>>

Exit(blocks) ==
  /\ loaded' = loaded \ {blocks}
  /\ UNCHANGED <<board, heap, stack>>

Next ==
  \/ GrowHeap \/ Call \/ Return
  \/ \E first \in AppMemory(board), n \in 1..MaxBlocks : Load(first, n)
  \/ \E blocks \in loaded : Exit(blocks)

Spec == Init /\ [][Next]_vars

TypeOK ==
  /\ board \in Boards
  /\ heap \in Nat /\ stack \in Nat
  /\ loaded \in SUBSET (SUBSET AppMemory(board))

(***************************************************************************)
(* No block an application was loaded in is one the kernel's heap or stack *)
(* has reached: neither can write the other's memory, however deep the     *)
(* kernel's calls go while applications come and go.                       *)
(***************************************************************************)
KernelRamApart == Usage \cap (HeapBlocks \cup StackBlocks) = {}

(***************************************************************************)
(* Every block an application was loaded in is RAM that the linker script  *)
(* gives to the ram region.                                                *)
(***************************************************************************)
AppsInRam == Usage \subseteq Blocks(Layout[board].link.ram)

(***************************************************************************)
(* What the layout of a board owes: the RAM section lies in the ram region *)
(* behind the kernel's memory, sysmem is elsewhere, and the kernel has     *)
(* room to start in.                                                       *)
(***************************************************************************)
RamApart(b) ==
  /\ AppMemory(b) \cap (KernelMemory(b) \cup SysMem(b)) = {}
  /\ AppMemory(b) \subseteq Blocks(Layout[b].link.ram)
  /\ {Layout[b].link.ram.start, Layout[b].build.memory,
      Layout[b].link.sysmem.start, Layout[b].link.sysmem.size} \subseteq Nat
  /\ Grain <= Layout[b].build.memory /\ Grain <= Layout[b].link.sysmem.size

=============================================================================
