---------------------------- MODULE SystemStart ----------------------------
(***************************************************************************)
(* A start of the board as the rest of the program sees it: the bootloader *)
(* and then the kernel bring up the clocks (ClockConfig), open the debug   *)
(* port by them (DebugPort) and run, with writers that preempt each other. *)
(* The two components meet in SystemCoreClock and in the clock tree.       *)
(***************************************************************************)
EXTENDS ClockConfig, DebugPort

ASSUME MainAssumption == "main" \in Threads

sysVars == <<vars, portVars>>

SysInit == Init /\ PortInit

\* The calls of sys_initialize, made by the image's only thread so far.
BringUp ==
  /\ ThreadsRun
  /\ OscConfig \/ EnableOverDrive \/ ClockConfig \/ PeriphCLKConfig \/ InitializeSystick
  /\ UNCHANGED portVars

\* Mutant: the port is opened before the clocks are set.
DebugStartFirst ==
  /\ ThreadsRun /\ pc = "osc"
  /\ DebugInitialize(SystemCoreClock)
  /\ UNCHANGED vars

\* sos_config.debug.initialize follows sos_config.sys.initialize.
DebugStart ==
  /\ ThreadsRun /\ pc = "running"
  /\ DebugInitialize(SystemCoreClock)
  /\ UNCHANGED vars

\* The bootloader has one thread and another event handler.
Writers == IF image = "kernel" THEN Contexts ELSE {"main"}
DebugWrite(c) == pc = "running" /\ Write(c) /\ UNCHANGED vars
DebugLed ==
  /\ pc = "running" /\ (debug_enable_led \/ debug_disable_led)
  /\ UNCHANGED vars

BootKernel == ThreadsRun /\ StartKernel /\ PortRestart /\ UNCHANGED led
Restart == Reset /\ PortRestart /\ led' = FALSE

SysNext ==
  \/ BringUp \/ DebugStart \/ DebugLed \/ BootKernel \/ Restart
  \/ \E c \in Writers : DebugWrite(c)

SysSafety == SysInit /\ [][SysNext]_sysVars

\* The transmitter empties and the processor goes on with the context it has
\* switched to.  Nothing is assumed of threads, which may be starved.
SysSpec ==
  /\ SysSafety
  /\ \A c \in Interrupts : WF_sysVars(Continue(c) /\ UNCHANGED vars)

\* The speed of the line: the divisor is for the frequency the HAL reckons
\* with, the clock divided is the core's.
LineRate == (DebugBaud * Core) \div reckoned

\* The type invariant of both components.
SysTypeOK == TypeOK /\ PortTypeOK

(***************************************************************************)
(* After a start without a failure the port runs at the speed              *)
(* debug_initialize asks for wherever the HAL knows the board's            *)
(* oscillator, and elsewhere (HSE_VALUE is 25 MHz in the F7's HAL          *)
(* configuration, the boards have 8) at the same fraction of it, in both   *)
(* images: the divisor is never computed before the clocks are set.        *)
(***************************************************************************)
LineAtSpeed ==
  pc = "running" /\ ~failed /\ gState # "RESET" =>
    LineRate = (DebugBaud * HSE) \div HalHSE[board]

=============================================================================
