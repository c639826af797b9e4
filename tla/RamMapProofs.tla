---------------------------- MODULE RamMapProofs ----------------------------
(***************************************************************************)
(* Applications never share a block of RAM with the kernel on any board    *)
(* whose layout satisfies RamApart, which TLC evaluates on the layouts of  *)
(* the repository (MCRamMap).                                              *)
(***************************************************************************)
EXTENDS RamMap, TLAPS

(***************************************************************************)
(* The state is well typed on every layout: heap and stack are counts, and *)
(* every application is in blocks of its board's RAM section.              *)
(***************************************************************************)
THEOREM RamTypeCorrect == Spec => []TypeOK
  <1>1. Init => TypeOK
    BY DEF Init, TypeOK
  <1>2. TypeOK /\ [Next]_vars => TypeOK'
    <2> SUFFICES ASSUME TypeOK, [Next]_vars
                 PROVE  TypeOK'
      OBVIOUS
    <2>1. CASE GrowHeap \/ Call \/ UNCHANGED vars
      BY <2>1 DEF GrowHeap, Call, vars, TypeOK
    <2>2. CASE Return
      BY <2>2 DEF Return, TypeOK
    <2>3. ASSUME NEW first, NEW n, Load(first, n)
          PROVE  TypeOK'
      BY <2>3 DEF Load, TypeOK
    <2>4. ASSUME NEW blocks, Exit(blocks)
          PROVE  TypeOK'
      BY <2>4 DEF Exit, TypeOK
    <2> QED  BY <2>1, <2>2, <2>3, <2>4 DEF Next
  <1> QED  BY <1>1, <1>2, PTL DEF Spec

\* So applications hold blocks of the RAM section only.
LEMMA UsageIsAppMemory ==
  ASSUME TypeOK
  PROVE  board \in Boards /\ Usage \subseteq AppMemory(board)
  BY DEF TypeOK, Usage

\* A larger address is in the same block or a later one.
LEMMA DivMonotone ==
  ASSUME NEW x \in Nat, NEW y \in Nat, x <= y, NEW g \in Nat \ {0}
  PROVE  x \div g <= y \div g
  BY SMT

(***************************************************************************)
(* The blocks of a part of a region are blocks of the region.              *)
(***************************************************************************)
LEMMA PartBlocks ==
  ASSUME NEW a \in Nat, NEW n \in Nat, NEW b \in Nat, NEW m \in Nat,
         b <= a, a + n <= b + m
  PROVE  Blocks(Region(a, n)) \subseteq Blocks(Region(b, m))
  <1>1. b \div Grain <= a \div Grain
    BY DivMonotone, GrainAssumption
  <1>2. (a + n) \div Grain <= (b + m) \div Grain
    BY DivMonotone, GrainAssumption
  <1>3. /\ a \div Grain \in Int /\ (a + n) \div Grain \in Int
        /\ b \div Grain \in Int /\ (b + m) \div Grain \in Int
    BY GrainAssumption
  <1> DEFINE a0 == a \div Grain
  <1> DEFINE a1 == (a + n) \div Grain
  <1> DEFINE b0 == b \div Grain
  <1> DEFINE b1 == (b + m) \div Grain
  <1>4. a0 .. a1 - 1 \subseteq b0 .. b1 - 1
    <2> HIDE DEF a0, a1, b0, b1
    <2>1. b0 <= a0 /\ a1 <= b1 /\ {a0, a1, b0, b1} \subseteq Int
      BY <1>1, <1>2, <1>3 DEF a0, a1, b0, b1
    <2> QED  BY <2>1
  <1> QED  BY <1>4 DEF Blocks, Region, End

\* The addresses of a board are numbers, and its kernel has room to start.
RamCounted(b) ==
  /\ {Layout[b].link.ram.start, Layout[b].build.memory,
      Layout[b].link.sysmem.start, Layout[b].link.sysmem.size} \subseteq Nat
  /\ Grain <= Layout[b].build.memory /\ Grain <= Layout[b].link.sysmem.size

\* The heap stays within memory_size and the stack within sysmem.
KernelInv ==
  /\ board \in Boards
  /\ heap \in Nat /\ heap * Grain <= Layout[board].build.memory
  /\ stack \in Nat /\ stack * Grain <= Layout[board].link.sysmem.size

\* Heap and stack stay within what the kernel was given.
LEMMA KernelInduction ==
  ASSUME \A b \in Boards : RamCounted(b)
  PROVE  Spec => []KernelInv
  <1>1. Init => KernelInv
    BY GrainAssumption DEF Init, KernelInv, RamCounted
  <1>2. KernelInv /\ [Next]_vars => KernelInv'
    <2> SUFFICES ASSUME KernelInv, [Next]_vars
                 PROVE  KernelInv'
      OBVIOUS
    <2>1. CASE GrowHeap
      BY <2>1 DEF GrowHeap, KernelInv
    <2>2. CASE Call
      BY <2>2 DEF Call, KernelInv
    <2>3. CASE Return
      <3>1. stack - 1 \in Nat /\ (stack - 1) * Grain <= stack * Grain
        BY <2>3, GrainAssumption DEF Return, KernelInv
      <3>2. /\ (stack - 1) * Grain \in Int /\ stack * Grain \in Int
            /\ Layout[board].link.sysmem.size \in Int
        BY GrainAssumption DEF KernelInv, RamCounted
      <3>3. (stack - 1) * Grain <= Layout[board].link.sysmem.size
        BY <3>1, <3>2 DEF KernelInv
      <3> QED  BY <2>3, <3>1, <3>3 DEF Return, KernelInv
    <2>4. ASSUME NEW first, NEW n, Load(first, n)
          PROVE  KernelInv'
      BY <2>4 DEF Load, KernelInv
    <2>5. ASSUME NEW blocks, Exit(blocks)
          PROVE  KernelInv'
      BY <2>5 DEF Exit, KernelInv
    <2>6. CASE UNCHANGED vars
      BY <2>6 DEF vars, KernelInv
    <2> QED  BY <2>1, <2>2, <2>3, <2>4, <2>5, <2>6 DEF Next
  <1> QED  BY <1>1, <1>2, PTL DEF Spec

\* What the heap has reached is the kernel's memory.
LEMMA HeapIsKernels ==
  ASSUME KernelInv, RamCounted(board)
  PROVE  HeapBlocks \subseteq KernelMemory(board)
  <1> DEFINE start == Layout[board].link.ram.start
             memory == Layout[board].build.memory
             used == heap * Grain
  <1>1. used \in Nat /\ used <= memory /\ memory \in Nat /\ start \in Nat
    BY GrainAssumption DEF KernelInv, RamCounted
  <1>2. /\ HeapBlocks = Blocks(Region(start, used))
        /\ KernelMemory(board) = Blocks(Region(start, memory))
    BY DEF HeapBlocks, KernelMemory
  <1> HIDE DEF start, memory, used
  <1>3. start <= start /\ start + used <= start + memory
    BY <1>1
  <1> QED  BY <1>1, <1>2, <1>3, PartBlocks

\* What the stack has reached is sysmem.
LEMMA StackIsSysmem ==
  ASSUME KernelInv, RamCounted(board)
  PROVE  StackBlocks \subseteq SysMem(board)
  <1> DEFINE sys == Layout[board].link.sysmem
             used == stack * Grain
  <1>1. used \in Nat /\ used <= sys.size /\ sys.start \in Nat /\ sys.size \in Nat
    BY GrainAssumption DEF KernelInv, RamCounted
  <1>2. Blocks(Region(sys.start, sys.size)) = Blocks(sys)
    BY DEF Blocks, Region, End
  <1>3. /\ StackBlocks = Blocks(Region((sys.start + sys.size) - used, used))
        /\ SysMem(board) = Blocks(sys)
    BY DEF StackBlocks, SysMem, End
  <1> HIDE DEF sys, used
  <1>4. /\ (sys.start + sys.size) - used \in Nat
        /\ sys.start <= (sys.start + sys.size) - used
        /\ (sys.start + sys.size) - used + used <= sys.start + sys.size
    BY <1>1
  <1>5. Blocks(Region((sys.start + sys.size) - used, used))
          \subseteq Blocks(Region(sys.start, sys.size))
    BY <1>1, <1>4, PartBlocks
  <1> QED  BY <1>2, <1>3, <1>5

(***************************************************************************)
(* On every board whose layout keeps the regions apart, no block of an     *)
(* application is one the kernel's heap or stack has reached.              *)
(***************************************************************************)
THEOREM KernelRamIsItsOwn ==
  ASSUME \A b \in Boards : RamApart(b)
  PROVE  Spec => []KernelRamApart
  <1>1. \A b \in Boards : RamCounted(b)
    BY DEF RamApart, RamCounted
  <1>2. TypeOK /\ KernelInv => KernelRamApart
    <2> SUFFICES ASSUME TypeOK, KernelInv
                 PROVE  KernelRamApart
      OBVIOUS
    <2>1. RamApart(board) /\ RamCounted(board)
      BY <1>1 DEF KernelInv
    <2> QED
      BY <2>1, UsageIsAppMemory, HeapIsKernels, StackIsSysmem
      DEF KernelRamApart, RamApart
  <1>3. Spec => []KernelInv
    BY <1>1, KernelInduction
  <1> QED  BY <1>2, <1>3, RamTypeCorrect, PTL

(***************************************************************************)
(* Every block an application is loaded in is in the linker's ram region.  *)
(***************************************************************************)
THEOREM AppsStayInRam ==
  ASSUME \A b \in Boards : RamApart(b)
  PROVE  Spec => []AppsInRam
  <1>1. TypeOK => AppsInRam
    BY UsageIsAppMemory DEF AppsInRam, RamApart
  <1> QED  BY <1>1, RamTypeCorrect, PTL

(***************************************************************************)
(* The layouts of the repository, counted in blocks of any size that       *)
(* divides their bounds.                                                   *)
(***************************************************************************)
Grains == {1, 2, 4, 8, 16}
ApartBoards == {"F446ZE", "F746ZG", "F767ZI", "F413ZH"}

\* Their numbers: the applications' section, the linker's regions, the
\* kernel's memory.
LEMMA LayoutNumbers ==
  ASSUME Layout = Layouts, NEW b \in AllBoards
  PROVE  /\ Layout[b].appfs.ram = CASE b = "F446ZE" -> Region(32, 80)
                                    [] b = "F746ZG" -> Region(128, 176)
                                    [] b = "F767ZI" -> Region(192, 304)
                                    [] OTHER -> Region(32, 224)
         /\ Layout[b].link.ram = CASE b = "F446ZE" -> Region(0, 112)
                                   [] b = "F746ZG" -> Region(64, 240)
                                   [] b = "F767ZI" -> Region(128, 368)
                                   [] b = "F412ZG" -> Region(0, 240)
                                   [] OTHER -> Region(0, 256)
         /\ Layout[b].build.memory = IF b \in {"F746ZG", "F767ZI"} THEN 64 ELSE 32
         /\ Layout[b].link.sysmem = CASE b = "F446ZE" -> Region(112, 16)
                                      [] b = "F746ZG" -> Region(0, 64)
                                      [] b = "F767ZI" -> Region(0, 128)
                                      [] b = "F412ZG" -> Region(240, 16)
                                      [] OTHER -> Region(256, 64)
  BY DEF Layouts, Board, AllBoards, Region, F446ZE_appfs, F746ZG_appfs, F767ZI_appfs,
         F412ZG_appfs, F413ZH_appfs, F446ZE_link, F746ZG_link, F767ZI_link,
         F412ZG_link, F413ZH_link, F446ZE_build, F746ZG_build, F767ZI_build,
         F412ZG_build, F413ZH_build

\* On every board the kernel has room, and its memory is not the applications'.
LEMMA KernelHasRoom ==
  ASSUME Layout = Layouts, Grain \in Grains, NEW b \in AllBoards
  PROVE  RamCounted(b) /\ AppMemory(b) \cap KernelMemory(b) = {}
  BY LayoutNumbers
  DEF RamCounted, AppMemory, KernelMemory, Blocks, Region, End, AllBoards, Grains

\* On all but the F412ZG sysmem is not theirs either.
LEMMA ApartBoardsAreApart ==
  ASSUME Layout = Layouts, Grain \in Grains, NEW b \in ApartBoards
  PROVE  RamApart(b)
  <1>1. b \in AllBoards
    BY DEF AllBoards, ApartBoards
  <1>2. AppMemory(b) \cap SysMem(b) = {}
    BY <1>1, LayoutNumbers
    DEF AppMemory, SysMem, Blocks, Region, End, ApartBoards, Grains
  <1>3. AppMemory(b) \subseteq Blocks(Layout[b].link.ram)
    BY <1>1, LayoutNumbers DEF AppMemory, Blocks, Region, End, ApartBoards, Grains
  <1> QED  BY <1>1, <1>2, <1>3, KernelHasRoom DEF RamApart, RamCounted

(***************************************************************************)
(* On these boards, with no further premise: however many applications are *)
(* loaded, of whatever size, and however deep the kernel's calls go, their *)
(* memory is theirs and lies in the ram region.                            *)
(***************************************************************************)
THEOREM BoardsShareRam ==
  ASSUME Layout = Layouts, Grain \in Grains, Boards \subseteq ApartBoards
  PROVE  Spec => [](KernelRamApart /\ AppsInRam)
  <1>1. \A b \in Boards : RamApart(b)
    BY ApartBoardsAreApart
  <1>2. (Spec => []KernelRamApart) /\ (Spec => []AppsInRam)
    BY <1>1, KernelRamIsItsOwn, AppsStayInRam
  <1> QED  BY <1>2, PTL

(***************************************************************************)
(* On every board, the F412ZG included whose RAM section reaches over      *)
(* sysmem, the kernel's data and heap are safe from applications: what     *)
(* those can run into there is the stack.                                  *)
(***************************************************************************)
THEOREM BoardsKeepHeap ==
  ASSUME Layout = Layouts, Grain \in Grains, Boards \subseteq AllBoards
  PROVE  Spec => [](Usage \cap HeapBlocks = {})
  <1>1. \A b \in Boards : RamCounted(b)
    BY KernelHasRoom
  <1>2. TypeOK /\ KernelInv => Usage \cap HeapBlocks = {}
    BY <1>1, KernelHasRoom, UsageIsAppMemory, HeapIsKernels DEF KernelInv
  <1>3. Spec => []KernelInv
    BY <1>1, KernelInduction
  <1> QED  BY <1>2, <1>3, RamTypeCorrect, PTL

=============================================================================
