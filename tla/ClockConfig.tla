---------------------------- MODULE ClockConfig ----------------------------
(***************************************************************************)
(* Clock bring-up: the bootloader and then the kernel call sys_initialize, *)
(* which runs SystemClock_Config, one HAL call after another, and starts   *)
(* the system tick.  No result is looked at: whatever a call did, the next *)
(* one follows.  Nothing resets the clock tree between the two images.     *)
(***************************************************************************)
EXTENDS Integers

CONSTANTS
  Boards,           \* the boards
  Settings,         \* what SystemClock_Config of each asks for
  Limits,           \* what its part allows
  HalHSE,           \* HSE_VALUE, the oscillator by which the HAL reckons
  OverDriveMayFail  \* whether the over-drive regulator may fail to get ready

ASSUME OverDriveAssumption == OverDriveMayFail \in BOOLEAN

VARIABLES
  board,
  image,      \* which of the two images runs
  pc,         \* its next call
  failed,     \* a call of this start has failed
  rcc,        \* the clock tree, with the supply and the flash that go with it
  tick,       \* the core frequency by which the system tick was set
  SystemCoreClock  \* what the HAL of this image takes the core to run at

vars == <<board, image, pc, failed, rcc, tick, SystemCoreClock>>

HSI == 16  \* the oscillator after a reset
HSE == 8   \* the clock that the board feeds to the HSE input
Never == 0
Set == Settings[board]

\* The frequency behind the PLL's P output, from an oscillator.
PLLOut(osc, s) == (osc * s.PLLN) \div (s.PLLM * s.PLLP)
Core == IF rcc.sysclk = "PLL" THEN PLLOut(HSE, Set) ELSE HSI

PowerOn == [hse |-> FALSE, pll |-> FALSE, overdrive |-> FALSE, sysclk |-> "HSI",
            latency |-> 0, apb1 |-> 1, apb2 |-> 1]

Init ==
  /\ board \in Boards
  /\ image = "boot" /\ pc = "osc" /\ failed = FALSE
  /\ rcc = PowerOn /\ tick = Never /\ SystemCoreClock = HSI

Step(from, to) == pc = from /\ pc' = to /\ UNCHANGED <<board, image, tick>>
Fails == failed' = TRUE
Succeeds == UNCHANGED failed
AfterOsc == IF Set.overdrive THEN "overdrive" ELSE "clocks"

\* Mutant: the HAL reconfigures a PLL the core runs from.
OscConfigUnchecked ==
  /\ Step("osc", AfterOsc) /\ UNCHANGED SystemCoreClock
  /\ \/ Succeeds /\ rcc' = [rcc EXCEPT !.hse = TRUE, !.pll = TRUE]
     \/ Fails /\ \E ready \in BOOLEAN : rcc' = [rcc EXCEPT !.hse = ready, !.pll = FALSE]

\* HAL_RCC_OscConfig: start the HSE, then the PLL.  A PLL the core runs from
\* is left alone, and the call may fail for it.  Otherwise the PLL is stopped
\* first, and either may not start.
OscConfig ==
  /\ Step("osc", AfterOsc) /\ UNCHANGED SystemCoreClock
  /\ \/ rcc.sysclk = "PLL" /\ (Succeeds \/ Fails) /\ UNCHANGED rcc
     \/ /\ rcc.sysclk # "PLL"
        /\ \/ Succeeds /\ rcc' = [rcc EXCEPT !.hse = TRUE, !.pll = TRUE]
           \/ Fails /\ \E ready \in BOOLEAN :
                         rcc' = [rcc EXCEPT !.hse = ready, !.pll = FALSE]

\* HAL_PWREx_EnableOverDrive, on the F7 boards.
EnableOverDrive ==
  /\ Step("overdrive", "clocks") /\ UNCHANGED SystemCoreClock
  /\ \/ Succeeds /\ rcc' = [rcc EXCEPT !.overdrive = TRUE]
     \/ OverDriveMayFail /\ Fails /\ UNCHANGED rcc

\* HAL_RCC_ClockConfig: wait states first, the buses to their slowest, the
\* core to the PLL if that is locked, and only then the buses as asked and
\* SystemCoreClock, computed from HSE_VALUE.
ClockConfig ==
  /\ Step("clocks", "periph")
  /\ \/ /\ rcc.pll /\ Succeeds
        /\ rcc' = [rcc EXCEPT !.latency = Set.latency, !.sysclk = "PLL",
                              !.apb1 = Set.APB1CLKDivider, !.apb2 = Set.APB2CLKDivider]
        /\ SystemCoreClock' = PLLOut(HalHSE[board], Set)
     \/ /\ Fails /\ UNCHANGED SystemCoreClock
        /\ rcc' = [rcc EXCEPT !.latency = Set.latency, !.apb1 = 16, !.apb2 = 16]

\* HAL_RCCEx_PeriphCLKConfig selects the PLL's Q output for USB, which is
\* selected after a reset already.
PeriphCLKConfig ==
  /\ Step("periph", "systick")
  /\ UNCHANGED <<failed, rcc, SystemCoreClock>>

\* The end of sys_initialize: the tick counts cycles of core_clock_frequency.
InitializeSystick ==
  /\ pc = "systick" /\ pc' = "running"
  /\ tick' = Set.told
  /\ UNCHANGED <<board, image, failed, rcc, SystemCoreClock>>

\* The bootloader jumps to the kernel, which starts over with its own HAL.
StartKernel ==
  /\ image = "boot" /\ pc = "running"
  /\ image' = "kernel" /\ pc' = "osc" /\ failed' = FALSE /\ SystemCoreClock' = HSI
  /\ UNCHANGED <<board, rcc, tick>>

Reset ==
  /\ image' = "boot" /\ pc' = "osc" /\ failed' = FALSE
  /\ rcc' = PowerOn /\ tick' = Never /\ SystemCoreClock' = HSI
  /\ UNCHANGED board

Next ==
  \/ OscConfig \/ EnableOverDrive \/ ClockConfig \/ PeriphCLKConfig
  \/ InitializeSystick \/ StartKernel \/ Reset

Spec == Init /\ [][Next]_vars

Dividers == {1, 2, 4, 8, 16}
Tree == [hse : BOOLEAN, pll : BOOLEAN, overdrive : BOOLEAN, sysclk : {"HSI", "PLL"},
         latency : 0..7, apb1 : Dividers, apb2 : Dividers]

TypeOK ==
  /\ board \in Boards /\ image \in {"boot", "kernel"} /\ failed \in BOOLEAN
  /\ pc \in {"osc", "overdrive", "clocks", "periph", "systick", "running"}
  /\ rcc \in Tree

(***************************************************************************)
(* At every moment of a start, failed calls included, the core is no       *)
(* faster than its supply and its flash wait states allow, nor the buses   *)
(* than theirs: over-drive and wait states come before the PLL.            *)
(***************************************************************************)
WithinLimits ==
  LET limit == Limits[board] IN
    /\ Core <= IF rcc.overdrive THEN limit.overdriven ELSE limit.plain
    /\ Core <= limit.perWait * (rcc.latency + 1)
    /\ Core <= limit.apb1 * rcc.apb1 /\ Core <= limit.apb2 * rcc.apb2

(***************************************************************************)
(* A start whose calls all succeed ends at the frequency that              *)
(* SOS_BOARD_SYSTEM_CLOCK names and by which the tick was set, with 48 MHz *)
(* for USB, whatever the image before left behind.                         *)
(***************************************************************************)
CleanStart ==
  pc = "running" /\ ~failed =>
    /\ Core = tick
    /\ HSE * Set.PLLN = 48 * Set.PLLM * Set.PLLQ

(***************************************************************************)
(* Whatever fails, the core is at one of two speeds: the one the tick      *)
(* was set for, or that of the oscillator it woke up with.                 *)
(***************************************************************************)
ToldOrSlow == pc = "running" => Core \in {tick, HSI}

(***************************************************************************)
(* The second call of SystemClock_Config, by the kernel, never takes away  *)
(* the PLL or the oscillator from which the core runs.                     *)
(***************************************************************************)
CoreClocked == rcc.sysclk = "PLL" => rcc.pll /\ rcc.hse

(***************************************************************************)
(* What the numbers of the board owe: the PLL gives what is told and       *)
(* 48 MHz, with legal dividers, within the limits at the PLL's speed with  *)
(* all that was asked for and at the first oscillator's whatever was.      *)
(***************************************************************************)
LegalClock(b) ==
  LET s == Settings[b]
      limit == Limits[b]
      full == PLLOut(HSE, s)
      InBuses(f, d1, d2) == f <= limit.apb1 * d1 /\ f <= limit.apb2 * d2
  IN  /\ s.overdrive \in BOOLEAN /\ s.latency \in 0..7
      /\ s.APB1CLKDivider \in Dividers /\ s.APB2CLKDivider \in Dividers
      /\ full = s.told /\ HSE * s.PLLN = 48 * s.PLLM * s.PLLQ
      /\ full <= IF s.overdrive THEN limit.overdriven ELSE limit.plain
      /\ full <= limit.perWait * (s.latency + 1)
      /\ InBuses(full, s.APB1CLKDivider, s.APB2CLKDivider) /\ InBuses(full, 16, 16)
      /\ HSI <= limit.plain /\ HSI <= limit.overdriven
      /\ \A wait \in 0..7 : HSI <= limit.perWait * (wait + 1)
      /\ \A d1, d2 \in Dividers : InBuses(HSI, d1, d2)

=============================================================================
