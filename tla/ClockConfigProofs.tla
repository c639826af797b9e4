------------------------- MODULE ClockConfigProofs -------------------------
(***************************************************************************)
(* Proofs about ClockConfig, for any boards with legal numbers and for the *)
(* five boards of the repository, whose numbers are.                       *)
(***************************************************************************)
EXTENDS ClockConfig, BoardClocks, TLAPS

\* Over-drive is on only where the board asks for it and, unless it may fail,
\* past the call that enables it; a core on the PLL has what the PLL's speed
\* needs.
Afterwards == {"clocks", "periph", "systick", "running"}
OverDriveInv ==
  /\ pc = "overdrive" => Set.overdrive
  /\ rcc.overdrive => Set.overdrive
  /\ pc \in Afterwards /\ Set.overdrive => rcc.overdrive \/ OverDriveMayFail
PLLInv ==
  /\ rcc.pll => rcc.hse
  /\ rcc.sysclk = "PLL" =>
       /\ rcc.pll
       /\ Set.overdrive => rcc.overdrive \/ OverDriveMayFail
       /\ rcc.latency = Set.latency
       /\ \/ rcc.apb1 = Set.APB1CLKDivider /\ rcc.apb2 = Set.APB2CLKDivider
          \/ rcc.apb1 = 16 /\ rcc.apb2 = 16
ClockInv == TypeOK /\ OverDriveInv /\ PLLInv

Numbers == \A b \in Boards : LegalClock(b)

(***************************************************************************)
(* What LegalClock says of the numbers of the board at hand.               *)
(***************************************************************************)
LEMMA SetTyped ==
  ASSUME Numbers, TypeOK
  PROVE  /\ Set.overdrive \in BOOLEAN /\ Set.latency \in 0..7
         /\ Set.APB1CLKDivider \in Dividers /\ Set.APB2CLKDivider \in Dividers
<1>1. board \in Boards
  BY DEF TypeOK
<1> QED BY <1>1 DEF Numbers, LegalClock, Set

(***************************************************************************)
(* The clock tree after a reset is one.                                    *)
(***************************************************************************)
LEMMA PowerOnTyped == PowerOn \in Tree
<1>1. /\ 1 \in Dividers /\ 0 \in 0..7 /\ FALSE \in BOOLEAN
      /\ "HSI" \in {"HSI", "PLL"}
  BY DEF Dividers
<1> QED BY <1>1, Zenon DEF PowerOn, Tree

(***************************************************************************)
(* The invariant holds at the start: nothing is on but the oscillator.     *)
(***************************************************************************)
LEMMA ClockStart == ASSUME Init, Numbers PROVE ClockInv
<1>1. TypeOK
  BY PowerOnTyped DEF Init, TypeOK
<1>2. pc = "osc" /\ rcc.overdrive = FALSE /\ rcc.pll = FALSE /\ rcc.sysclk = "HSI"
  BY DEF Init, PowerOn
<1> QED BY <1>1, <1>2 DEF ClockInv, OverDriveInv, PLLInv, Afterwards

(***************************************************************************)
(* Every call of a start preserves the invariant, failed or not.           *)
(***************************************************************************)
LEMMA ClockStep == ASSUME Numbers, ClockInv, [Next]_vars PROVE ClockInv'
<1> USE DEF ClockInv
<1>0. /\ Set.overdrive \in BOOLEAN /\ Set.latency \in 0..7
      /\ Set.APB1CLKDivider \in Dividers /\ Set.APB2CLKDivider \in Dividers
  BY SetTyped
<1>1. ASSUME OscConfig PROVE ClockInv'
  <2>1. Set' = Set
    BY <1>1 DEF OscConfig, Step, Set
  <2>2. TypeOK'
    BY <1>1, <1>0 DEF OscConfig, Step, AfterOsc, Succeeds, Fails, TypeOK, Tree
  <2>3. OverDriveInv'
    BY <1>1, <1>0, <2>1 DEF OscConfig, Step, AfterOsc, OverDriveInv, TypeOK, Tree, Afterwards
  <2>4. PLLInv'
    BY <1>1, <2>1 DEF OscConfig, Step, PLLInv, TypeOK, Tree
  <2> QED BY <2>2, <2>3, <2>4
<1>2. ASSUME EnableOverDrive PROVE ClockInv'
  <2>1. Set' = Set /\ pc = "overdrive" /\ pc' = "clocks"
    BY <1>2 DEF EnableOverDrive, Step, Set
  <2>2. \/ rcc' = [rcc EXCEPT !.overdrive = TRUE]
        \/ OverDriveMayFail /\ UNCHANGED rcc
    BY <1>2 DEF EnableOverDrive
  <2>3. TypeOK'
    BY <1>2, <2>1, <2>2 DEF EnableOverDrive, Step, Succeeds, Fails, TypeOK, Tree
  <2>4. OverDriveInv'
    BY <2>1, <2>2 DEF OverDriveInv, TypeOK, Tree
  <2>5. PLLInv'
    BY <2>1, <2>2 DEF PLLInv, TypeOK, Tree
  <2> QED BY <2>3, <2>4, <2>5
<1>3. ASSUME ClockConfig PROVE ClockInv'
  <2>1. Set' = Set /\ pc = "clocks" /\ pc' = "periph"
    BY <1>3 DEF ClockConfig, Step, Set
  <2>2. TypeOK'
    BY <1>3, <1>0, <2>1 DEF ClockConfig, Step, Succeeds, Fails, TypeOK, Tree, Dividers
  <2>3. OverDriveInv'
    BY <1>3, <2>1 DEF ClockConfig, OverDriveInv, TypeOK, Tree, Afterwards
  <2>4. PLLInv'
    BY <1>3, <2>1 DEF ClockConfig, OverDriveInv, PLLInv, TypeOK, Tree, Afterwards
  <2> QED BY <2>2, <2>3, <2>4
<1>4. ASSUME PeriphCLKConfig \/ InitializeSystick PROVE ClockInv'
  <2>1. Set' = Set /\ UNCHANGED rcc /\ pc \in Afterwards /\ pc' \in Afterwards
    BY <1>4 DEF PeriphCLKConfig, InitializeSystick, Step, Set, Afterwards
  <2>2. TypeOK'
    BY <1>4, <2>1 DEF PeriphCLKConfig, InitializeSystick, Step, TypeOK, Afterwards
  <2> QED BY <2>1, <2>2 DEF OverDriveInv, PLLInv, Afterwards
<1>5. ASSUME StartKernel PROVE ClockInv'
  <2>1. Set' = Set /\ UNCHANGED rcc /\ pc' = "osc"
    BY <1>5 DEF StartKernel, Set
  <2>2. TypeOK'
    BY <1>5 DEF StartKernel, TypeOK
  <2> QED BY <2>1, <2>2 DEF OverDriveInv, PLLInv, Afterwards
<1>6. ASSUME Reset PROVE ClockInv'
  <2>1. TypeOK'
    BY <1>6, PowerOnTyped DEF Reset, TypeOK
  <2>2. /\ pc' = "osc" /\ rcc.overdrive' = FALSE
        /\ rcc.pll' = FALSE /\ rcc.sysclk' = "HSI"
    BY <1>6 DEF Reset, PowerOn
  <2> QED BY <2>1, <2>2 DEF OverDriveInv, PLLInv, Afterwards
<1>7. ASSUME UNCHANGED vars PROVE ClockInv'
  BY <1>7 DEF vars, TypeOK, OverDriveInv, PLLInv, Set
<1> QED BY <1>1, <1>2, <1>3, <1>4, <1>5, <1>6, <1>7 DEF Next

(***************************************************************************)
(* The invariant holds at every moment of a start.                         *)
(***************************************************************************)
LEMMA ClockInduction == ASSUME Numbers PROVE Spec => []ClockInv
<1>1. Init => ClockInv
  BY ClockStart
<1>2. ClockInv /\ [Next]_vars => ClockInv'
  BY ClockStep
<1> QED BY <1>1, <1>2, PTL DEF Spec

(***************************************************************************)
(* The clock tree is one the hardware knows, whatever fails.               *)
(***************************************************************************)
THEOREM ClocksTyped == ASSUME Numbers PROVE Spec => []TypeOK
<1>1. ClockInv => TypeOK
  BY DEF ClockInv
<1> QED BY <1>1, ClockInduction, PTL

\* The part of WithinLimits that does not hang on the over-drive: the core is
\* no faster than the flash's wait states and the buses' dividers allow.
FlashAndBuses ==
  LET limit == Limits[board] IN
    /\ Core <= limit.perWait * (rcc.latency + 1)
    /\ Core <= limit.apb1 * rcc.apb1 /\ Core <= limit.apb2 * rcc.apb2

(***************************************************************************)
(* What the invariant is for: on the PLL, over-drive, wait states and bus  *)
(* dividers are those of the numbers; off it, the oscillator is slow.      *)
(***************************************************************************)
LEMMA InvWithinLimits ==
  ASSUME Numbers, ClockInv
  PROVE  FlashAndBuses /\ (OverDriveMayFail \/ WithinLimits)
<1>1. board \in Boards /\ rcc \in Tree
  BY DEF ClockInv, TypeOK
<1>2. LegalClock(board)
  BY <1>1 DEF Numbers
<1>3. CASE rcc.sysclk = "PLL"
  <2>1. Core = PLLOut(HSE, Set)
    BY <1>3 DEF Core
  <2> HIDE DEF PLLOut
  <2>2. FlashAndBuses
    BY <1>2, <1>3, <2>1 DEF FlashAndBuses, LegalClock, Set, ClockInv, PLLInv
  <2>3. OverDriveMayFail \/ rcc.overdrive = Set.overdrive
    BY <1>1, <1>2, <1>3 DEF ClockInv, OverDriveInv, PLLInv, LegalClock, Set, Tree
  <2> QED BY <1>2, <2>1, <2>2, <2>3 DEF FlashAndBuses, WithinLimits, LegalClock, Set
<1>4. CASE rcc.sysclk # "PLL"
  <2>1. Core = HSI
    BY <1>4 DEF Core
  <2> HIDE DEF HSI
  <2> QED BY <1>1, <1>2, <2>1 DEF FlashAndBuses, WithinLimits, LegalClock, Tree
<1> QED BY <1>3, <1>4

(***************************************************************************)
(* On a board with legal numbers whose over-drive gets ready, the core is  *)
(* within its limits at every moment of a start, failed calls included.    *)
(***************************************************************************)
THEOREM CoreWithinLimits ==
  ASSUME Numbers, ~OverDriveMayFail PROVE Spec => []WithinLimits
<1>1. ClockInv => WithinLimits
  BY InvWithinLimits
<1> QED BY <1>1, ClockInduction, PTL

(***************************************************************************)
(* The over-drive may fail too, and nobody looks: all that is lost is the  *)
(* supply's limit; the flash and the buses still keep up with the core.    *)
(***************************************************************************)
THEOREM FlashKeepsUp == ASSUME Numbers PROVE Spec => []FlashAndBuses
<1>1. ClockInv => FlashAndBuses
  BY InvWithinLimits
<1> QED BY <1>1, ClockInduction, PTL

(***************************************************************************)
(* The kernel's second bring-up does not take the clock away from a core   *)
(* that runs from it, whatever call fails.                                 *)
(***************************************************************************)
THEOREM CoreStaysClocked == ASSUME Numbers PROVE Spec => []CoreClocked
<1>1. ClockInv => CoreClocked
  BY DEF ClockInv, PLLInv, CoreClocked
<1> QED BY <1>1, ClockInduction, PTL

\* Without a failure the PLL is there when the core is switched to it, and the
\* core is on it afterwards.
CleanInv ==
  /\ pc \in {"overdrive", "clocks"} /\ ~failed => rcc.pll
  /\ pc \in {"periph", "systick", "running"} /\ ~failed => rcc.sysclk = "PLL"
  /\ pc = "running" => tick = Set.told

(***************************************************************************)
(* As long as no call fails, each finds what the one before it left.       *)
(***************************************************************************)
LEMMA CleanStep ==
  ASSUME Numbers, ClockInv, CleanInv, [Next]_vars PROVE CleanInv'
<1> USE DEF CleanInv
<1>0. failed \in BOOLEAN /\ rcc \in Tree
  BY DEF ClockInv, TypeOK
<1>1. ASSUME OscConfig PROVE CleanInv'
  <2>1. pc' \in {"overdrive", "clocks"}
    BY <1>1 DEF OscConfig, Step, AfterOsc
  <2>2. CASE Fails
    BY <2>1, <2>2 DEF Fails
  <2>3. CASE ~Fails
    <3>1. CASE rcc.sysclk = "PLL"
      BY <1>1, <2>1, <2>3, <3>1 DEF OscConfig, ClockInv, PLLInv
    <3>2. CASE rcc.sysclk # "PLL"
      <4>1. rcc' = [rcc EXCEPT !.hse = TRUE, !.pll = TRUE]
        BY <1>1, <2>3, <3>2 DEF OscConfig
      <4>2. rcc'.pll
        BY <4>1, <1>0 DEF Tree
      <4> QED BY <4>2, <2>1
    <3> QED BY <3>1, <3>2
  <2> QED BY <2>2, <2>3
<1>2. ASSUME EnableOverDrive PROVE CleanInv'
  BY <1>0, <1>2 DEF EnableOverDrive, Step, Succeeds, Fails, Tree
<1>3. ASSUME ClockConfig PROVE CleanInv'
  BY <1>0, <1>3 DEF ClockConfig, Step, Succeeds, Fails, Tree
<1>4. ASSUME PeriphCLKConfig \/ InitializeSystick PROVE CleanInv'
  BY <1>4 DEF PeriphCLKConfig, InitializeSystick, Step, Set
<1>5. ASSUME StartKernel \/ Reset PROVE CleanInv'
  BY <1>5 DEF StartKernel, Reset
<1>6. ASSUME UNCHANGED vars PROVE CleanInv'
  BY <1>6 DEF vars, Set
<1> QED BY <1>1, <1>2, <1>3, <1>4, <1>5, <1>6 DEF Next

(***************************************************************************)
(* The bookkeeping of clean starts holds beside the clock tree's.          *)
(***************************************************************************)
LEMMA CleanInduction == ASSUME Numbers PROVE Spec => [](ClockInv /\ CleanInv)
<1>1. Init => CleanInv
  BY DEF Init, CleanInv
<1>2. ClockInv /\ CleanInv /\ [Next]_vars => CleanInv'
  BY CleanStep
<1> QED BY <1>1, <1>2, ClockInduction, PTL DEF Spec

(***************************************************************************)
(* What the board's numbers say of the PLL: it gives what is told.         *)
(***************************************************************************)
LEMMA PLLAsTold ==
  ASSUME Numbers, ClockInv
  PROVE  PLLOut(HSE, Set) = Set.told /\ HSE * Set.PLLN = 48 * Set.PLLM * Set.PLLQ
<1>1. LegalClock(board)
  BY DEF ClockInv, TypeOK, Numbers
<1> QED BY <1>1 DEF LegalClock, Set

(***************************************************************************)
(* On a board with legal numbers a start whose calls all succeed ends at   *)
(* the frequency the rest of the program is told, with 48 MHz for USB,     *)
(* whatever the bootloader's start left behind.                            *)
(***************************************************************************)
THEOREM StartsAsTold == ASSUME Numbers PROVE Spec => []CleanStart
<1>1. ClockInv /\ CleanInv => CleanStart
  BY PLLAsTold DEF CleanInv, CleanStart, Core
<1> QED BY <1>1, CleanInduction, PTL

(***************************************************************************)
(* A start of which any call fails, the over-drive's included, ends at the *)
(* frequency the tick was set for or at the first oscillator's, never at a *)
(* third.                                                                  *)
(***************************************************************************)
THEOREM FailedStartIsSlow == ASSUME Numbers PROVE Spec => []ToldOrSlow
<1>1. ClockInv /\ CleanInv => ToldOrSlow
  BY PLLAsTold DEF CleanInv, ToldOrSlow, Core
<1> QED BY <1>1, CleanInduction, PTL

-----------------------------------------------------------------------------
(***************************************************************************)
(* The boards of the repository.                                           *)
(***************************************************************************)
\* Any of the boards, with its own numbers and its part's limits.
OurBoards ==
  /\ Boards \subseteq {"F446ZE", "F746ZG", "F767ZI", "F412ZG", "F413ZH"}
  /\ Settings = BoardClock /\ Limits = BoardLimit

(***************************************************************************)
(* The PLL of each board, from 8 MHz.                                      *)
(***************************************************************************)
LEMMA BoardPLLs ==
  /\ PLLOut(HSE, F446ZE_clock) = 168
  /\ PLLOut(HSE, F746ZG_clock) = 216 /\ PLLOut(HSE, F767ZI_clock) = 216
  /\ PLLOut(HSE, F412ZG_clock) = 96 /\ PLLOut(HSE, F413ZH_clock) = 96
BY DEF PLLOut, HSE, Clock, F446ZE_clock, F746ZG_clock, F767ZI_clock, F412ZG_clock,
       F413ZH_clock

(***************************************************************************)
(* The numbers of every board are legal.                                   *)
(***************************************************************************)
LEMMA BoardNumbers == ASSUME OurBoards PROVE Numbers
<1> USE DEF HSI, HSE, Dividers, Clock, Limit
<1>1. LegalClock("F446ZE")
  <2>1. Settings["F446ZE"] = F446ZE_clock
    BY DEF OurBoards, BoardClock
  <2>2. Limits["F446ZE"] = Limit(168, 180, 30, 45, 90)
    BY DEF OurBoards, BoardLimit
  <2> QED BY <2>1, <2>2, BoardPLLs DEF LegalClock, F446ZE_clock
<1>2. LegalClock("F746ZG")
  <2>1. Settings["F746ZG"] = F746ZG_clock
    BY DEF OurBoards, BoardClock
  <2>2. Limits["F746ZG"] = Limit(180, 216, 30, 54, 108)
    BY DEF OurBoards, BoardLimit
  <2> QED BY <2>1, <2>2, BoardPLLs DEF LegalClock, F746ZG_clock
<1>3. LegalClock("F767ZI")
  <2>1. Settings["F767ZI"] = F767ZI_clock
    BY DEF OurBoards, BoardClock
  <2>2. Limits["F767ZI"] = Limit(180, 216, 30, 54, 108)
    BY DEF OurBoards, BoardLimit
  <2> QED BY <2>1, <2>2, BoardPLLs DEF LegalClock, F767ZI_clock
<1>4. LegalClock("F412ZG")
  <2>1. Settings["F412ZG"] = F412ZG_clock
    BY DEF OurBoards, BoardClock
  <2>2. Limits["F412ZG"] = Limit(100, 100, 25, 50, 100)
    BY DEF OurBoards, BoardLimit
  <2> QED BY <2>1, <2>2, BoardPLLs DEF LegalClock, F412ZG_clock
<1>5. LegalClock("F413ZH")
  <2>1. Settings["F413ZH"] = F413ZH_clock
    BY DEF OurBoards, BoardClock
  <2>2. Limits["F413ZH"] = Limit(100, 100, 25, 50, 100)
    BY DEF OurBoards, BoardLimit
  <2> QED BY <2>1, <2>2, BoardPLLs DEF LegalClock, F413ZH_clock
<1> QED BY <1>1, <1>2, <1>3, <1>4, <1>5 DEF OurBoards, Numbers

(***************************************************************************)
(* So on every board of the repository, with nothing assumed but that the  *)
(* over-drive gets ready, the core is within its limits.                   *)
(***************************************************************************)
THEOREM BoardsWithinLimits ==
  ASSUME OurBoards, ~OverDriveMayFail PROVE Spec => []WithinLimits
BY BoardNumbers, CoreWithinLimits

(***************************************************************************)
(* On every board, whatever fails, the second bring-up is harmless and the *)
(* core runs at the frequency told or at the oscillator's.                 *)
(***************************************************************************)
THEOREM BoardsStart ==
  ASSUME OurBoards PROVE Spec => [](CleanStart /\ ToldOrSlow /\ CoreClocked)
BY BoardNumbers, StartsAsTold, FailedStartIsSlow, CoreStaysClocked, PTL

=============================================================================
