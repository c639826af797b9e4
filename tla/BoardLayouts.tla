---------------------------- MODULE BoardLayouts ----------------------------
(***************************************************************************)
(* The memory maps of the five boards that can be built: the application   *)
(* filesystem's sections (SystemClock_Config.c), the regions of the linker *)
(* script, and the start of the kernel (CMakeLists.txt of each board).     *)
(* Sizes are in KB; flash starts count from 0x08000000, RAM starts from    *)
(* 0x20000000.                                                             *)
(***************************************************************************)
EXTENDS Integers

Region(start, size) == [start |-> start, size |-> size]
End(r) == r.start + r.size
Overlap(r, q) == r.start < End(q) /\ q.start < End(r)

\* The pages of a section of appfs_mem_config.
SectionPages(address, page_size, page_count) ==
  {Region(address + k * page_size, page_size) : k \in 0..page_count - 1}

\* The flash sectors of an STM32F4 (unit 16) or STM32F7 (unit 32): four of
\* one unit, one of four units, the rest of eight.
Sector(unit, s) ==
  IF s <= 4 THEN Region((s - 1) * unit, unit)
  ELSE IF s = 5 THEN Region(4 * unit, 4 * unit)
  ELSE Region((s - 5) * 8 * unit, 8 * unit)

\* Mutant: RAM_START without SYSTEM_MEMORY_SIZE.
F446ZE_appfs_low_ram ==
  [boot |-> 32, pages |-> SectionPages(64, 64, 1), ram |-> Region(0, 112 - 32)]

\* Mutant: a section goes on in pages smaller than the sectors it reaches.
F446ZE_appfs_small_pages ==
  [boot |-> 32, pages |-> SectionPages(64, 64, 3), ram |-> Region(32, 80)]

\* appfs_mem_config: where the bootloader's pages end, the flash pages, and
\* the RAM section.
F446ZE_appfs ==
  LET FLASH_START == 2 * 16
  IN [boot  |-> FLASH_START,
      pages |-> SectionPages(FLASH_START, 16, 2)
                \cup SectionPages(FLASH_START + 2 * 16, 64, 1)
                \cup SectionPages(FLASH_START + 2 * 16 + 64, 128, 1),
      ram   |-> Region(0 + 32, 112 - 32)]
F746ZG_appfs ==
  LET FLASH_START == 2 * 16
  IN [boot  |-> FLASH_START,
      pages |-> SectionPages(FLASH_START, 32, 3)
                \cup SectionPages(FLASH_START + 3 * 32, 128, 1)
                \cup SectionPages(FLASH_START + 3 * 32 + 128, 256, 1),
      ram   |-> Region(64 + 64, 240 - 64)]

\* Mutant: RAM_PAGES still counts the kernel's memory.
F767ZI_appfs_all_ram ==
  [boot |-> 32, pages |-> SectionPages(32, 32, 3), ram |-> Region(128 + 64, 368)]

F767ZI_appfs ==
  LET FLASH_START == 32
  IN [boot  |-> FLASH_START,
      pages |-> SectionPages(FLASH_START, 32, 3)
                \cup SectionPages(FLASH_START + 3 * 32, 128, 1)
                \cup SectionPages(FLASH_START + 3 * 32 + 128, 256, 5),
      ram   |-> Region(128 + 64, 368 - 64)]

\* Mutant: two pages skipped for a bootloader of three.
F412ZG_appfs_from_2 ==
  [boot |-> 3 * 16, pages |-> SectionPages(2 * 16, 16, 2), ram |-> Region(32, 224)]

F412ZG_appfs ==
  [boot  |-> 3 * 16,
   pages |-> SectionPages(3 * 16, 16, 1) \cup SectionPages(4 * 16, 64, 1)
             \cup SectionPages(4 * 16 + 64, 128, 5),
   ram   |-> Region(0 + 32, 256 - 32)]
F413ZH_appfs ==
  [boot  |-> 3 * 16,
   pages |-> SectionPages(3 * 16, 16, 1) \cup SectionPages(4 * 16, 64, 1)
             \cup SectionPages(4 * 16 + 64, 128, 7),
   ram   |-> Region(0 + 32, 256 - 32)]

\* MEMORY of the linker scripts.
F446ZE_link == [flash_page_count |-> 8,  flash |-> Region(0, 512),
                ram |-> Region(0, 112),   sysmem |-> Region(112, 16)]
F746ZG_link == [flash_page_count |-> 8,  flash |-> Region(0, 1024),
                ram |-> Region(64, 240),  sysmem |-> Region(0, 64)]
F767ZI_link == [flash_page_count |-> 12, flash |-> Region(0, 2048),
                ram |-> Region(128, 368), sysmem |-> Region(0, 128)]
F412ZG_link == [flash_page_count |-> 12, flash |-> Region(0, 1024),
                ram |-> Region(0, 240),   sysmem |-> Region(240, 16)]
F413ZH_link == [flash_page_count |-> 16, flash |-> Region(0, 1536),
                ram |-> Region(0, 256),   sysmem |-> Region(256, 64)]

\* Mutant: the kernel's start is another board's.
F767ZI_build_F746ZG == [kernel |-> 384, memory |-> 64]

\* CMakeLists.txt: NUCLEO_KERNEL_START_ADDRESS and SYSTEM_MEMORY_SIZE.
F446ZE_build == [kernel |-> 256,  memory |-> 32]
F746ZG_build == [kernel |-> 384,  memory |-> 64]
F767ZI_build == [kernel |-> 1536, memory |-> 64]
F412ZG_build == [kernel |-> 768,  memory |-> 32]
F413ZH_build == [kernel |-> 1024, memory |-> 32]

Board(unit, appfs, link, build) ==
  [unit |-> unit, appfs |-> appfs, link |-> link, build |-> build]

AllBoards == {"F446ZE", "F746ZG", "F767ZI", "F412ZG", "F413ZH"}
Layouts ==
  [F446ZE |-> Board(16, F446ZE_appfs, F446ZE_link, F446ZE_build),
   F746ZG |-> Board(32, F746ZG_appfs, F746ZG_link, F746ZG_build),
   F767ZI |-> Board(32, F767ZI_appfs, F767ZI_link, F767ZI_build),
   F412ZG |-> Board(16, F412ZG_appfs, F412ZG_link, F412ZG_build),
   F413ZH |-> Board(16, F413ZH_appfs, F413ZH_link, F413ZH_build)]

=============================================================================
