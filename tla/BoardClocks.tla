---------------------------- MODULE BoardClocks ----------------------------
(***************************************************************************)
(* What SystemClock_Config of each buildable board asks of the HAL, and    *)
(* SOS_BOARD_SYSTEM_CLOCK, the frequency its build tells everyone else.    *)
(* Frequencies are in MHz.                                                 *)
(***************************************************************************)
EXTENDS Integers

Clock(m, n, p, q, apb1, apb2, latency, overdrive, told) ==
  [PLLM |-> m, PLLN |-> n, PLLP |-> p, PLLQ |-> q,
   APB1CLKDivider |-> apb1, APB2CLKDivider |-> apb2, latency |-> latency,
   overdrive |-> overdrive, told |-> told]

F446ZE_clock == Clock(4, 168, 2, 7, 4, 2, 5, FALSE, 168)

\* Mutant: a copy of the F4 sequence, without the over-drive.
F746ZG_clock_no_overdrive == Clock(4, 216, 2, 9, 4, 2, 7, FALSE, 216)

F746ZG_clock == Clock(4, 216, 2, 9, 4, 2, 7, TRUE, 216)

\* Mutant: the build still names the clock of another board.
F767ZI_clock_told_168 == Clock(4, 216, 2, 9, 4, 2, 7, TRUE, 168)

F767ZI_clock == Clock(4, 216, 2, 9, 4, 2, 7, TRUE, 216)

\* Mutant: the divider for USB that goes with 216 MHz.
F412ZG_clock_usb_by_9 == Clock(4, 96, 2, 9, 2, 1, 3, FALSE, 96)

F412ZG_clock == Clock(4, 96, 2, 4, 2, 1, 3, FALSE, 96)
F413ZH_clock == Clock(4, 96, 2, 4, 2, 2, 3, FALSE, 96)

BoardClock == [F446ZE |-> F446ZE_clock, F746ZG |-> F746ZG_clock,
               F767ZI |-> F767ZI_clock, F412ZG |-> F412ZG_clock,
               F413ZH |-> F413ZH_clock]

\* HSE_VALUE of the HAL's configuration headers, one per family.
F4_HSE_VALUE == 8
F7_HSE_VALUE == 25
BoardHSE_VALUE == [F446ZE |-> F4_HSE_VALUE, F412ZG |-> F4_HSE_VALUE,
                   F413ZH |-> F4_HSE_VALUE, F746ZG |-> F7_HSE_VALUE,
                   F767ZI |-> F7_HSE_VALUE]

\* What the parts allow: the core in and out of over-drive, the core per
\* flash wait state, and the two peripheral buses.
Limit(plain, overdriven, perWait, apb1, apb2) ==
  [plain |-> plain, overdriven |-> overdriven, perWait |-> perWait,
   apb1 |-> apb1, apb2 |-> apb2]
BoardLimit == [F446ZE |-> Limit(168, 180, 30, 45, 90),
               F746ZG |-> Limit(180, 216, 30, 54, 108),
               F767ZI |-> Limit(180, 216, 30, 54, 108),
               F412ZG |-> Limit(100, 100, 25, 50, 100),
               F413ZH |-> Limit(100, 100, 25, 50, 100)]

=============================================================================
