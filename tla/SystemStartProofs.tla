------------------------- MODULE SystemStartProofs -------------------------
(***************************************************************************)
(* Proofs about the debug port within a start, for any threads and any     *)
(* length of a message, and about the composition: what is proved of the   *)
(* clocks alone (ClockConfigProofs) holds of the whole start, and the port *)
(* meets the clocks at the speed of the line.                              *)
(***************************************************************************)
EXTENDS SystemStart, ClockConfigProofs, TLAPS

\* A handle in use has a user, and nobody is past the first test of a handle
\* that is not open.
HandleInv ==
  /\ gState = "BUSY_TX" => \E c \in Contexts : at[c] \in Inside
  /\ \A c \in Contexts :
       /\ at[c] \in {"look"} \cup Inside => left[c] > 0 /\ gState # "RESET"
       /\ heard[c] <= MessageBytes - left[c]

\* The writer of a message that has the port to itself finds the handle free at
\* each byte: whoever might hold it is idle.
Alone(c) ==
  /\ \A d \in Contexts \ {c} : at[d] = "idle"
  /\ gState # "RESET" /\ at[c] # "mixed" /\ heard[c] + left[c] = MessageBytes

\* Where a message from an interrupt stands.  While its writer is the one that
\* runs, the handle stays as the first byte found it.
Whole(c) ==
  /\ at[c] # "mixed"
  /\ at[c] = "shift" => heard[c] = MessageBytes - left[c] /\ gState = "BUSY_TX"
  /\ at[c] = "look" => heard[c] = MessageBytes - left[c] /\ (Runs(c) => gState = "READY")
  /\ at[c] = "send" =>
       /\ heard[c] \in {0, MessageBytes - left[c]}
       /\ Runs(c) /\ left[c] < MessageBytes =>
            (gState = "READY" <=> heard[c] = MessageBytes - left[c])

\* What the fault handler finds and leaves.
FaultInv ==
  /\ at["fault"] \in {"look", "shift"} => at["handler"] # "shift"
  /\ at["fault"] = "spin" =>
       heard["fault"] = IF gState = "READY" THEN MessageBytes ELSE 0

PortInv ==
  /\ PortTypeOK
  /\ HandleInv
  /\ \A c \in lone : Alone(c)
  /\ \A c \in Interrupts : Whole(c)
  /\ FaultInv

(***************************************************************************)
(* At the start of an image every context is idle and the port closed.     *)
(***************************************************************************)
LEMMA PortZeroInv ==
  /\ PortInit => PortInv
  /\ PortRestart /\ led' \in BOOLEAN => PortInv'
<1>1. 0 \in 0..MessageBytes
  BY MessageAssumption
<1>2. Interrupts \subseteq Contexts /\ "fault" \in Interrupts
  BY DEF Interrupts, Contexts
<1> USE DEF PortInv, PortTypeOK, HandleInv, FaultInv, Whole, Places, Inside
<1>3. ASSUME PortInit PROVE PortInv
  <2>1. /\ gState = "RESET" /\ at = [c \in Contexts |-> "idle"] /\ lone = {}
        /\ left = [c \in Contexts |-> 0] /\ heard = [c \in Contexts |-> 0]
    BY <1>3 DEF PortInit, PortZero
  <2>2. led \in BOOLEAN
    BY <1>3 DEF PortInit
  <2> QED BY <1>1, <2>2, <1>2, <2>1, MessageAssumption
<1>4. ASSUME PortRestart, led' \in BOOLEAN PROVE PortInv'
  <2>1. /\ gState' = "RESET" /\ at' = [c \in Contexts |-> "idle"] /\ lone' = {}
        /\ left' = [c \in Contexts |-> 0] /\ heard' = [c \in Contexts |-> 0]
    BY <1>4 DEF PortRestart, PortZero
  <2> QED BY <1>1, <1>2, <1>4, <2>1, MessageAssumption
<1> QED BY <1>3, <1>4

(***************************************************************************)
(* Opening the port while no interrupt is at work changes the handle for   *)
(* nobody that is in the middle of a message from one.                     *)
(***************************************************************************)
LEMMA InitializeKeeps ==
  ASSUME PortInv, ThreadsRun, NEW clock, DebugInitialize(clock)
  PROVE  PortInv'
<1>1. PortTypeOK' /\ HandleInv'
  BY DEF DebugInitialize, PortInv, PortTypeOK, HandleInv
<1>2. \A c \in lone' : Alone(c)'
  BY DEF DebugInitialize, PortInv, Alone
<1>3. \A c \in Interrupts : Whole(c)'
  BY DEF DebugInitialize, ThreadsRun, Whole
<1>4. FaultInv'
  BY DEF DebugInitialize, ThreadsRun, Interrupts, FaultInv
<1> QED BY <1>1, <1>2, <1>3, <1>4 DEF PortInv

(***************************************************************************)
(* A step of a writer leaves the others where they are, but that taking a  *)
(* handle in use makes a shared byte of the other user's.                  *)
(***************************************************************************)
LEMMA OthersStay ==
  ASSUME PortInv, NEW c \in Contexts, Write(c), NEW d \in Contexts, d # c
  PROVE  /\ left'[d] = left[d] /\ heard'[d] = heard[d]
         /\ at'[d] = at[d] \/ (Take(c) /\ at[d] \in Inside /\ at'[d] = "mixed")
<1> USE DEF PortInv, PortTypeOK
<1>1. CASE Take(c)
  BY <1>1 DEF Take, Sharers
<1>2. CASE Call(c) \/ Look(c) \/ Refuse(c) \/ Shifted(c) \/ Return(c)
  BY <1>2 DEF Call, Look, Refuse, Shifted, Delivered, Return, NextByte
<1> QED BY <1>1, <1>2 DEF Write, Continue

(***************************************************************************)
(* A step of a writer keeps the types and the handle's users accounted     *)
(* for.                                                                    *)
(***************************************************************************)
LEMMA WriteKeepsHandle ==
  ASSUME PortInv, NEW c \in Contexts, Write(c)
  PROVE  PortTypeOK' /\ HandleInv'
<1> USE MessageAssumption DEF PortInv, PortTypeOK, HandleInv, Places, Inside
<1>1. CASE Call(c)
  BY <1>1 DEF Call
<1>2. CASE Look(c)
  BY <1>2 DEF Look
<1>3. CASE Take(c)
  <2>1. PortTypeOK' /\ at'[c] \in Inside /\ gState' = "BUSY_TX"
    BY <1>3 DEF Take
  <2>2. ASSUME NEW d \in Contexts, at'[d] \in {"look"} \cup Inside PROVE left'[d] > 0
    BY <1>3, <2>2 DEF Take, Sharers
  <2> QED BY <1>3, <2>1, <2>2 DEF Take
<1>4. CASE Refuse(c)
  BY <1>4 DEF Refuse, Busy, NextByte
<1>5. CASE Shifted(c)
  <2>1. heard[c] + 1 \in 0..MessageBytes /\ left[c] \in 1..MessageBytes
    BY <1>5 DEF Shifted, Delivered
  <2> QED BY <1>5, <2>1 DEF Shifted, Delivered, NextByte
<1>6. CASE Return(c)
  BY <1>6 DEF Return
<1> QED BY <1>1, <1>2, <1>3, <1>4, <1>5, <1>6 DEF Write, Continue

(***************************************************************************)
(* It keeps the message of a lone writer whole: if it is that writer's own *)
(* step, the handle was free for it; if it is another's, that one's call   *)
(* ends the lone message's claim to the port.                              *)
(***************************************************************************)
LEMMA WriteKeepsLone ==
  ASSUME PortInv, NEW c \in Contexts, Write(c)
  PROVE  \A d \in lone' : Alone(d)'
<1> USE MessageAssumption DEF PortInv, PortTypeOK
<1>1. CASE Call(c)
  BY <1>1 DEF Call, Alone
<1>2. CASE ~Call(c)
  <2>1. lone' = lone /\ at[c] # "idle"
    BY <1>2 DEF Write, Continue, Look, Take, Refuse, Busy, Shifted, Delivered, Return, NextByte, Inside
  <2> SUFFICES ASSUME NEW d \in lone PROVE Alone(d)'
    BY <2>1
  <2>2. d = c /\ Alone(c) /\ (at[c] \in {"send", "look"} => gState = "READY")
    BY <2>1 DEF Alone, HandleInv, Inside
  <2>3. Sharers(c) = {}
    BY <2>2 DEF Alone, Sharers, Inside
  <2>4. at[c] \in Inside => at[c] = "shift"
    BY <2>2 DEF Alone, Inside
  <2>5. CASE Look(c) \/ Take(c) \/ Return(c)
    BY <2>2, <2>3, <2>5 DEF Look, Take, Return, Alone
  <2>6. CASE Refuse(c)
    BY <2>2, <2>6 DEF Refuse, Busy
  <2>7. CASE Shifted(c)
    BY <2>2, <2>4, <2>7 DEF Shifted, Delivered, NextByte, Alone
  <2> QED BY <1>2, <2>5, <2>6, <2>7 DEF Write, Continue
<1> QED BY <1>1, <1>2

(***************************************************************************)
(* The interrupt that takes a step keeps its own message whole.            *)
(***************************************************************************)
LEMMA OwnWhole ==
  ASSUME PortInv, NEW c \in Interrupts, Write(c)
  PROVE  Whole(c)'
<1> USE MessageAssumption DEF PortInv, PortTypeOK, HandleInv, Inside
<1>0. c \in Contexts /\ c \notin Threads /\ Runs(c) /\ Whole(c)
  BY ThreadsAssumption DEF Contexts, Interrupts, Write, Continue
<1>1. CASE Call(c)
  BY <1>0, <1>1 DEF Call, Whole
<1>2. CASE Look(c)
  <2>1. heard[c] = MessageBytes - left[c]
    BY <1>0, <1>2 DEF Look, Whole
  <2> QED BY <1>0, <1>2, <2>1 DEF Look, Whole
<1>3. CASE Take(c)
  BY <1>0, <1>3 DEF Take, Whole
<1>4. CASE Refuse(c)
  <2>1. at[c] = "send" /\ left[c] \in 1..MessageBytes /\ gState # "READY"
    BY <1>0, <1>4 DEF Refuse, Busy, Whole
  <2>2. heard[c] = 0
    BY <1>0, <2>1 DEF Whole
  <2> QED BY <1>0, <1>4, <2>1, <2>2 DEF Refuse, NextByte, Whole
<1>5. CASE Shifted(c)
  <2>1. at[c] = "shift" /\ heard[c] = MessageBytes - left[c] /\ left[c] \in 1..MessageBytes
    BY <1>0, <1>5 DEF Shifted, Delivered, Whole
  <2> QED BY <1>0, <1>5, <2>1 DEF Shifted, Delivered, NextByte, Whole
<1>6. CASE Return(c)
  BY <1>0, <1>6 DEF Return, Whole
<1> QED BY <1>1, <1>2, <1>3, <1>4, <1>5, <1>6 DEF Write, Continue

(***************************************************************************)
(* A step leaves an interrupt's message whole: either that interrupt is    *)
(* idle, or it is the handler, preempted for good by a fault, which does   *)
(* not get into a handle the handler is using.                             *)
(***************************************************************************)
LEMMA OtherWhole ==
  ASSUME PortInv, NEW c \in Contexts, Write(c), NEW d \in Interrupts, d # c
  PROVE  Whole(d)'
<1> USE DEF PortInv, PortTypeOK
<1>0. d \in Contexts /\ Runs(c) /\ Whole(d)
  BY DEF Contexts, Write, Continue
<1>1. left'[d] = left[d] /\ heard'[d] = heard[d]
  BY <1>0, OthersStay
<1>2. at[d] = "idle" \/ (c = "fault" /\ d = "handler")
  BY <1>0 DEF Runs, Above, Interrupts
<1>3. CASE at[d] = "idle"
  <2>1. at'[d] = "idle"
    BY <1>0, <1>3, OthersStay DEF Inside
  <2> QED BY <2>1 DEF Whole
<1>4. CASE c = "fault" /\ d = "handler"
  <2>1. at'["fault"] # "idle"
    BY <1>4 DEF Write, Continue, Call, Look, Take, Refuse, Shifted, Delivered, Return, NextByte
  <2>2. ~Runs(d)'
    BY <1>4, <2>1 DEF Runs, Above, Interrupts
  <2>3. at'[d] = at[d]
    <3>1. at["fault"] = "look" => at[d] \notin Inside
      BY <1>0, <1>4 DEF FaultInv, Whole, Inside
    <3> QED BY <1>0, <1>4, <3>1, OthersStay DEF Take
  <2>4. at[d] = "shift" => gState' = "BUSY_TX"
    <3>1. at[d] = "shift" => gState = "BUSY_TX" /\ at["fault"] \notin {"look", "shift", "mixed"}
      BY <1>4, <1>0 DEF FaultInv, Whole, Interrupts
    <3> QED BY <1>4, <3>1 DEF Write, Continue, Call, Look, Take, Refuse, Shifted, Delivered, Return,
                             NextByte, Inside
  <2> QED BY <1>0, <1>1, <2>2, <2>3, <2>4 DEF Whole
<1> QED BY <1>2, <1>3, <1>4

(***************************************************************************)
(* A fault gets into the handle only when the handler below it is not      *)
(* using it, and once in its loop it is the last to have written.          *)
(***************************************************************************)
LEMMA WriteKeepsFault ==
  ASSUME PortInv, NEW c \in Contexts, Write(c)
  PROVE  FaultInv'
<1> USE DEF PortInv, PortTypeOK
<1>0. /\ "fault" \in Interrupts /\ "fault" \in Contexts
      /\ "handler" \in Interrupts /\ "handler" \in Contexts
  BY DEF Interrupts, Contexts
<1>1. c = "fault" \/ at["fault"] = "idle"
  BY ThreadsAssumption DEF Write, Continue, Runs, Above, Interrupts
<1>2. c # "fault" => at'["fault"] = "idle"
  BY <1>0, <1>1, OthersStay DEF Inside
<1>3. ASSUME at'["fault"] \in {"look", "shift"} PROVE at'["handler"] # "shift"
  <2>1. c = "fault" /\ at["fault"] \in {"send", "look"} /\ (Look(c) \/ Take(c))
    BY <1>0, <1>1, <1>2, <1>3
       DEF Write, Continue, Call, Look, Take, Refuse, Shifted, Delivered, Return, NextByte
  <2>2. at["handler"] # "shift"
    BY <1>0, <2>1 DEF Look, Take, Whole, FaultInv
  <2> QED BY <1>0, <2>1, <2>2, OthersStay
<1>4. ASSUME at'["fault"] = "spin"
      PROVE  heard'["fault"] = IF gState' = "READY" THEN MessageBytes ELSE 0
  <2>1. c = "fault" /\ Return(c)
    BY <1>0, <1>1, <1>2, <1>4
       DEF Write, Continue, Call, Look, Take, Refuse, Shifted, Delivered, Return, NextByte
  <2>2. /\ heard["fault"] \in {0, MessageBytes}
        /\ gState = "READY" <=> heard["fault"] = MessageBytes
    BY <1>0, <2>1, MessageAssumption DEF Return, Whole, Runs, Above
  <2> QED BY <2>1, <2>2, MessageAssumption DEF Return
<1> QED BY <1>3, <1>4 DEF FaultInv

(***************************************************************************)
(* A step of a writer keeps the invariant.                                 *)
(***************************************************************************)
LEMMA WriteKeeps ==
  ASSUME PortInv, NEW c \in Contexts, Write(c)
  PROVE  PortInv'
<1>1. \A d \in Interrupts : Whole(d)'
  BY OwnWhole, OtherWhole
<1> QED BY <1>1, WriteKeepsHandle, WriteKeepsLone, WriteKeepsFault DEF PortInv

(***************************************************************************)
(* Every step of a start keeps the invariant of the port.                  *)
(***************************************************************************)
LEMMA PortStep == ASSUME PortInv, [SysNext]_sysVars PROVE PortInv'
<1>1. CASE BringUp \/ UNCHANGED sysVars \/ DebugLed
  <2>1. UNCHANGED port /\ led' \in BOOLEAN
    BY <1>1 DEF BringUp, sysVars, portVars, DebugLed, debug_enable_led,
                debug_disable_led, PortInv, PortTypeOK
  <2> QED BY <2>1 DEF port, PortInv, PortTypeOK, HandleInv, Alone, Whole, FaultInv, Runs
<1>2. CASE DebugStart
  BY <1>2, InitializeKeeps DEF DebugStart
<1>3. CASE BootKernel \/ Restart
  BY <1>3, PortZeroInv DEF BootKernel, Restart, PortInv, PortTypeOK
<1>4. ASSUME NEW c \in Writers, DebugWrite(c) PROVE PortInv'
  BY <1>4, WriteKeeps, MainAssumption DEF DebugWrite, Writers, Contexts
<1> QED BY <1>1, <1>2, <1>3, <1>4 DEF SysNext

(***************************************************************************)
(* The port's invariant holds of every start.                              *)
(***************************************************************************)
LEMMA PortInduction == SysSafety => []PortInv
<1>1. SysInit => PortInv
  BY PortZeroInv DEF SysInit
<1>2. PortInv /\ [SysNext]_sysVars => PortInv'
  BY PortStep
<1> QED BY <1>1, <1>2, PTL DEF SysSafety

(***************************************************************************)
(* Whatever raced for the handle before, and whatever was refused, a       *)
(* message that begins with every other writer idle and is left alone is   *)
(* heard whole.  Nothing is assumed of how the HAL takes the handle.       *)
(***************************************************************************)
THEOREM LoneMessagesAreHeard == SysSafety => []LoneMessageWhole
<1>1. PortInv => LoneMessageWhole
  BY DEF PortInv, Alone, LoneMessageWhole
<1> QED BY <1>1, PortInduction, PTL

(***************************************************************************)
(* What an interrupt or a fault writes is heard whole or not at all.       *)
(***************************************************************************)
THEOREM FaultIsHeardWhole == SysSafety => []InterruptsWhole
<1>1. ASSUME PortInv PROVE InterruptsWhole
  <2>1. ASSUME NEW c \in Interrupts, at[c] \notin {"idle", "spin"}
        PROVE  heard[c] \in {0, MessageBytes - left[c]}
    <3>1. at[c] \in Places /\ Whole(c)
      BY <1>1 DEF PortInv, PortTypeOK, Contexts
    <3> QED BY <2>1, <3>1 DEF Places, Whole
  <2> QED BY <1>1, <2>1 DEF PortInv, FaultInv, InterruptsWhole
<1> QED BY <1>1, PortInduction, PTL

(***************************************************************************)
(* The start is a start of the clocks: what writers do with the port never *)
(* touches them, so every theorem about the clocks holds of the whole.     *)
(***************************************************************************)
THEOREM StartIsClockStart == SysSafety => Spec
<1>1. SysInit => Init
  BY DEF SysInit
<1>2. [SysNext]_sysVars => [Next]_vars
  BY DEF SysNext, BringUp, DebugStart, DebugLed, BootKernel, Restart, DebugWrite,
         sysVars, vars, Next
<1> QED BY <1>1, <1>2, PTL DEF SysSafety, Spec

(***************************************************************************)
(* Both components are type correct in every state of a start.             *)
(***************************************************************************)
THEOREM SystemTyped == ASSUME Numbers PROVE SysSafety => []SysTypeOK
<1>1. PortInv /\ TypeOK => SysTypeOK
  BY DEF PortInv, SysTypeOK
<1> QED BY <1>1, PortInduction, StartIsClockStart, ClocksTyped, PTL

-----------------------------------------------------------------------------
(***************************************************************************)
(* Messages from interrupts end.                                           *)
(***************************************************************************)
AtWork(c) == at[c] \notin {"idle", "spin"}

\* What the context c has still to do: three steps a byte, less those done of
\* the one it is at, and the return.
Rest(c) == CASE at[c] = "send" -> 3 * left[c] + 1
             [] at[c] = "look" -> 3 * left[c]
             [] at[c] \in Inside -> 3 * left[c] - 1
             [] OTHER -> 0

\* A step of c is due: the guards of Look, Refuse, Return, Take and Shifted.
MayGoOn(c) ==
  /\ pc = "running" /\ c \in Writers
  /\ \/ at[c] = "send" /\ left[c] > 0 /\ gState = "READY"
     \/ Busy(c)
     \/ at[c] = "send" /\ left[c] = 0
     \/ at[c] = "look"
     \/ at[c] \in Inside

\* The only context of the bootloader and of a start is its thread.
KernelWrites ==
  \A c \in Interrupts : at[c] # "idle" => pc = "running" /\ image = "kernel"

(***************************************************************************)
(* Interrupts write in the running kernel only.                            *)
(***************************************************************************)
LEMMA KernelWritesStep ==
  ASSUME PortInv, KernelWrites, [SysNext]_sysVars
  PROVE  KernelWrites'
<1> USE DEF KernelWrites
<1>0. "handler" \notin Threads /\ "fault" \notin Threads /\ Interrupts \subseteq Contexts
  BY ThreadsAssumption DEF Interrupts, Contexts
<1>1. CASE BringUp
  BY <1>1 DEF BringUp, ThreadsRun, portVars, port
<1>2. CASE DebugStart \/ DebugLed \/ UNCHANGED sysVars
  BY <1>2 DEF DebugStart, DebugLed, DebugInitialize, debug_enable_led,
              debug_disable_led, sysVars, vars, portVars, port
<1>3. CASE BootKernel \/ Restart
  BY <1>0, <1>3 DEF BootKernel, Restart, PortRestart, PortZero
<1>4. ASSUME NEW c \in Writers, DebugWrite(c) PROVE KernelWrites'
  <2>1. pc = "running" /\ UNCHANGED <<pc, image>>
    BY <1>4 DEF DebugWrite, vars
  <2>2. CASE image = "kernel"
    BY <2>1, <2>2
  <2>3. CASE image # "kernel"
    <3>1. c = "main"
      BY <2>3 DEF Writers
    <3>2. ASSUME NEW d \in Interrupts PROVE at'[d] = at[d]
      <4>1. d # c /\ d \in Contexts /\ c \in Contexts /\ Write(c) /\ Runs(c)
        BY <1>0, <1>4, <3>1, MainAssumption
           DEF Interrupts, Contexts, DebugWrite, Write, Continue
      <4>2. at[d] = "idle"
        BY <1>0, <3>1, <4>1, MainAssumption DEF Runs, Above
      <4> QED BY <4>1, <4>2, OthersStay DEF Inside
    <3> QED BY <2>1, <3>2
  <2> QED BY <2>2, <2>3
<1> QED BY <1>1, <1>2, <1>3, <1>4 DEF SysNext

(***************************************************************************)
(* While an interrupt writes and nothing preempts it, the board does       *)
(* nothing else, and what it does shortens the rest of the message.        *)
(***************************************************************************)
LEMMA OnlyTheWriter ==
  ASSUME PortInv, SysNext, NEW c \in Interrupts, AtWork(c), Runs(c)
  PROVE  \/ Restart
         \/ c = "handler" /\ at'["fault"] # "idle"
         \/ Continue(c) /\ Rest(c)' < Rest(c)
<1>1. c \in Contexts /\ ~ThreadsRun /\ "fault" \in Contexts
  BY DEF Contexts, Interrupts, AtWork, ThreadsRun
<1>2. Restart \/ \E d \in Writers : DebugWrite(d)
  BY <1>1 DEF SysNext, BringUp, DebugStart, DebugLed, BootKernel, debug_enable_led,
              debug_disable_led
<1>3. ASSUME NEW d \in Writers, DebugWrite(d), d # c
      PROVE  c = "handler" /\ at'["fault"] # "idle"
  <2>1. d \in Contexts /\ Runs(d) /\ Write(d)
    BY <1>3, MainAssumption DEF Writers, Contexts, DebugWrite, Write, Continue
  <2>2. d = "fault" /\ c = "handler"
    BY <1>3, <2>1 DEF Runs, Above, AtWork, Interrupts, Contexts
  <2>3. at["fault"] = "idle"
    BY <2>2 DEF Runs, Above
  <2>4. Call("fault")
    BY <2>1, <2>2, <2>3 DEF Write, Continue, Look, Take, Refuse, Busy, Shifted, Delivered, Return,
                          Inside
  <2>5. at'["fault"] = "send"
    BY <2>4, <1>1 DEF Call, PortInv, PortTypeOK
  <2> QED BY <2>2, <2>5
<1>4. ASSUME DebugWrite(c) PROVE Continue(c) /\ Rest(c)' < Rest(c)
  <2>1. Continue(c)
    BY <1>4 DEF DebugWrite, Write, Call, AtWork
  <2>2. /\ at \in [Contexts -> Places] /\ left \in [Contexts -> 0..MessageBytes]
        /\ left[c] \in Nat /\ at[c] # "mixed"
    BY <1>1, MessageAssumption DEF PortInv, PortTypeOK, Whole
  <2>3. CASE Look(c)
    <3>1. left'[c] = left[c] /\ at'[c] = "look" /\ at[c] = "send"
      BY <1>1, <2>2, <2>3 DEF Look
    <3> QED BY <2>1, <2>2, <3>1 DEF Rest, Inside
  <2>4. CASE Take(c)
    <3>1. left'[c] = left[c] /\ at'[c] \in Inside /\ at[c] = "look"
      BY <1>1, <2>2, <2>4 DEF Take, Inside
    <3> QED BY <2>1, <2>2, <3>1 DEF Rest, Inside
  <2>5. CASE Refuse(c)
    <3>1. left'[c] = left[c] - 1 /\ at'[c] = "send" /\ at[c] \in {"send", "look"}
      BY <1>1, <2>2, <2>5 DEF Refuse, Busy, NextByte
    <3> QED BY <2>1, <2>2, <3>1 DEF Rest, Inside
  <2>6. CASE Shifted(c)
    <3>1. left'[c] = left[c] - 1 /\ at'[c] = "send" /\ at[c] \in Inside
      BY <1>1, <2>2, <2>6 DEF Shifted, Delivered, NextByte
    <3> QED BY <2>1, <2>2, <3>1 DEF Rest, Inside
  <2>7. CASE Return(c)
    <3>1. left'[c] = left[c] /\ at'[c] \in {"idle", "spin"} /\ at[c] = "send"
      BY <1>1, <2>2, <2>7 DEF Return
    <3> QED BY <2>1, <2>2, <3>1 DEF Rest, Inside
  <2> QED BY <2>1, <2>3, <2>4, <2>5, <2>6, <2>7 DEF Continue
<1> QED BY <1>2, <1>3, <1>4

(***************************************************************************)
(* The safety half of WritesEnd, for any threads and any length: a write   *)
(* from an interrupt that is not preempted always has a next step, nothing *)
(* but that step or a reset happens, and each brings its end nearer.  No   *)
(* holder of the handle that cannot run is ever waited for.                *)
(***************************************************************************)
THEOREM WritesComeNearer ==
  SysSafety =>
    /\ [](\A c \in Interrupts : AtWork(c) => MayGoOn(c) /\ Rest(c) \in Nat)
    /\ [][\A c \in Interrupts :
            AtWork(c) /\ Runs(c) =>
              \/ Restart
              \/ c = "handler" /\ at'["fault"] # "idle"
              \/ Continue(c) /\ Rest(c)' < Rest(c)]_sysVars
<1>1. SysInit => KernelWrites
  BY DEF SysInit, PortInit, PortZero, KernelWrites, Interrupts, Contexts
<1>2. PortInv /\ KernelWrites /\ [SysNext]_sysVars => KernelWrites'
  BY KernelWritesStep
<1>3. PortInv /\ KernelWrites =>
        \A c \in Interrupts : AtWork(c) => MayGoOn(c) /\ Rest(c) \in Nat
  <2> SUFFICES ASSUME PortInv, KernelWrites, NEW c \in Interrupts, AtWork(c)
               PROVE  MayGoOn(c) /\ Rest(c) \in Nat
    OBVIOUS
  <2>1. c \in Contexts /\ at[c] # "idle"
    BY DEF Contexts, AtWork
  <2>2. left[c] \in 0..MessageBytes /\ c \in Writers /\ pc = "running"
    BY <2>1 DEF PortInv, PortTypeOK, KernelWrites, Writers
  <2>3. at[c] \in Places /\ (at[c] \in Inside => left[c] > 0)
    BY <2>1 DEF PortInv, PortTypeOK, HandleInv
  <2> QED BY <2>2, <2>3, MessageAssumption DEF MayGoOn, Busy, AtWork, Rest, Places, Inside
<1>4. PortInv /\ [SysNext]_sysVars =>
        [\A c \in Interrupts :
            AtWork(c) /\ Runs(c) =>
              \/ Restart
              \/ c = "handler" /\ at'["fault"] # "idle"
              \/ Continue(c) /\ Rest(c)' < Rest(c)]_sysVars
  BY OnlyTheWriter
<1> QED BY <1>1, <1>2, <1>3, <1>4, PortInduction, PTL DEF SysSafety

-----------------------------------------------------------------------------
(***************************************************************************)
(* The speed of the line.                                                  *)
(***************************************************************************)
\* After a clean start the HAL reckons with its own oscillator and the board's
\* multipliers, and an open port was opened with that.
LineInv ==
  /\ pc \in {"periph", "systick", "running"} /\ ~failed =>
       SystemCoreClock = PLLOut(HalHSE[board], Set)
  /\ gState # "RESET" => pc = "running" /\ reckoned = SystemCoreClock

(***************************************************************************)
(* The clocks do not move under an open port.                              *)
(***************************************************************************)
LEMMA LineStep ==
  ASSUME LineInv, TypeOK, PortInv, [SysNext]_sysVars PROVE LineInv'
<1> USE DEF LineInv
<1>1. CASE BringUp
  <2>1. pc # "running" /\ UNCHANGED <<gState, reckoned, board>>
    BY <1>1 DEF BringUp, portVars, port, OscConfig, EnableOverDrive, ClockConfig,
                PeriphCLKConfig, InitializeSystick, Step
  <2>2. gState' = "RESET"
    BY <2>1
  <2>3. Set' = Set
    BY <2>1 DEF Set
  <2>4. CASE OscConfig \/ EnableOverDrive
    <3>1. pc' \in {"overdrive", "clocks"}
      BY <2>4 DEF OscConfig, EnableOverDrive, Step, AfterOsc
    <3> QED BY <2>2, <3>1
  <2>5. CASE ClockConfig
    BY <2>1, <2>2, <2>3, <2>5 DEF ClockConfig, Fails, PLLOut
  <2>6. CASE PeriphCLKConfig \/ InitializeSystick
    <3>1. pc \in {"periph", "systick"} /\ UNCHANGED <<failed, SystemCoreClock>>
      BY <2>6 DEF PeriphCLKConfig, InitializeSystick, Step
    <3> QED BY <2>1, <2>2, <2>3, <3>1 DEF PLLOut
  <2> QED BY <1>1, <2>4, <2>5, <2>6 DEF BringUp
<1>2. CASE DebugStart
  BY <1>2 DEF DebugStart, DebugInitialize, vars, PLLOut, Set
<1>3. CASE BootKernel \/ Restart
  BY <1>3 DEF BootKernel, Restart, StartKernel, Reset, PortRestart, PortZero
<1>4. ASSUME DebugLed \/ (\E c \in Writers : DebugWrite(c)) \/ UNCHANGED sysVars
      PROVE  LineInv'
  <2>1. UNCHANGED <<vars, reckoned>>
    BY <1>4 DEF DebugLed, debug_enable_led, debug_disable_led, DebugWrite, Write,
                Continue, Call, Look, Take, Refuse, Shifted, Delivered, Return, NextByte, sysVars,
                portVars, port
  <2>2. gState' # "RESET" => gState # "RESET"
    <3>1. CASE DebugLed \/ UNCHANGED sysVars
      BY <3>1 DEF DebugLed, debug_enable_led, debug_disable_led, sysVars, portVars, port
    <3>2. ASSUME NEW c \in Writers, DebugWrite(c)
          PROVE  gState' # "RESET" => gState # "RESET"
      <4>1. c \in Contexts /\ (at[c] \in {"look"} \cup Inside => gState # "RESET")
        BY MainAssumption DEF Writers, Contexts, PortInv, HandleInv
      <4> QED BY <3>2, <4>1 DEF DebugWrite, Write, Continue, Call, Look, Take, Refuse,
                               Shifted, Delivered, Return, NextByte
    <3> QED BY <1>4, <3>1, <3>2
  <2> QED BY <2>1, <2>2 DEF vars, PLLOut, Set
<1> QED BY <1>1, <1>2, <1>3, <1>4 DEF SysNext

(***************************************************************************)
(* A factor of both sides of a division cancels.                           *)
(***************************************************************************)
LEMMA FactorCancels ==
  ASSUME NEW a \in Nat, NEW b \in Nat \ {0}, NEW k \in Nat \ {0}
  PROVE  (a * k) \div (b * k) = a \div b
<1> DEFINE q == a \div b
           r == a % b
<1>1. q \in Nat /\ r \in 0..(b - 1) /\ a = b * q + r
  OBVIOUS
<1> HIDE DEF q, r
<1>2. a * k = (b * k) * q + r * k
  <2>1. a * k = (b * q) * k + r * k
    BY <1>1
  <2>2. (b * q) * k = (b * k) * q
    BY <1>1
  <2> QED BY <2>1, <2>2
<1>3. 0 <= r * k /\ r * k < b * k
  BY <1>1
<1>4. b * k \in Nat \ {0} /\ r * k \in Nat
  BY <1>1
<1>5. ASSUME NEW c \in Nat \ {0}, NEW m \in Nat, m < c, NEW n \in Nat
      PROVE  (c * n + m) \div c = n
  <2> DEFINE p == (c * n + m) \div c
             s == (c * n + m) % c
  <2>1. c * n + m \in Int
    OBVIOUS
  <2>2. p \in Int /\ s \in 0..(c - 1) /\ c * n + m = c * p + s
    BY <2>1
  <2> HIDE DEF p, s
  <2>3. c * (n - p) = s - m
    BY <2>2
  <2>4. \A j \in Int : j >= 1 => c * j >= c
    OBVIOUS
  <2>5. \A j \in Int : j <= -1 => c * j <= -c
    OBVIOUS
  <2>6. ~(n - p >= 1) /\ ~(n - p <= -1)
    BY <1>5, <2>2, <2>3, <2>4, <2>5
  <2>7. n = p
    BY <2>2, <2>6
  <2> QED BY <2>7 DEF p
<1>6. (a * k) \div (b * k) = q
  BY <1>1, <1>2, <1>3, <1>4, <1>5
<1> QED BY <1>6 DEF q

\* The board's PLL multiplies by a whole number, whatever the oscillator.
WholeMultiples ==
  \A b \in Boards :
    /\ HalHSE[b] \in Nat \ {0}
    /\ \E k \in Nat \ {0} : \A osc \in Nat : PLLOut(osc, Settings[b]) = osc * k

(***************************************************************************)
(* The divisor is for the HAL's frequency and the core runs at another,    *)
(* but both are whole multiples of their oscillators, by the same number.  *)
(***************************************************************************)
LEMMA LineInvSpeed ==
  ASSUME WholeMultiples, TypeOK, LineInv, CleanInv PROVE LineAtSpeed
<1> SUFFICES ASSUME pc = "running", ~failed, gState # "RESET"
             PROVE  LineRate = (DebugBaud * HSE) \div HalHSE[board]
  BY DEF LineAtSpeed
<1>1. board \in Boards
  BY DEF TypeOK
<1>2. PICK k \in Nat \ {0} : \A osc \in Nat : PLLOut(osc, Set) = osc * k
  BY <1>1 DEF WholeMultiples, Set
<1>3. HalHSE[board] \in Nat \ {0}
  BY <1>1 DEF WholeMultiples
<1>4. Core = HSE * k
  BY <1>2 DEF CleanInv, Core, HSE
<1>5. reckoned = HalHSE[board] * k
  BY <1>2, <1>3 DEF LineInv
<1>6. DebugBaud * Core = (DebugBaud * HSE) * k
  BY <1>2, <1>4 DEF DebugBaud, HSE
<1>7. DebugBaud * HSE \in Nat
  BY DEF DebugBaud, HSE
<1> QED BY <1>2, <1>3, <1>5, <1>6, <1>7, FactorCancels DEF LineRate

(***************************************************************************)
(* On any board with legal numbers and whole multiples the debug port runs *)
(* at the speed asked for, or at the fraction of it by which the HAL       *)
(* mistakes the oscillator, in both images and for as long as it is open.  *)
(***************************************************************************)
THEOREM LineKeepsSpeed ==
  ASSUME Numbers, WholeMultiples PROVE SysSafety => []LineAtSpeed
<1>1. SysInit => LineInv
  BY DEF SysInit, Init, PortInit, PortZero, LineInv
<1>2. LineInv /\ TypeOK /\ PortInv /\ [SysNext]_sysVars => LineInv'
  BY LineStep
<1>3. TypeOK /\ LineInv /\ CleanInv => LineAtSpeed
  BY LineInvSpeed
<1> QED BY <1>1, <1>2, <1>3, PortInduction, StartIsClockStart, ClocksTyped,
           CleanInduction, PTL DEF SysSafety

(***************************************************************************)
(* The boards of the repository multiply by 21, 27 and 12.                 *)
(***************************************************************************)
LEMMA BoardMultiples ==
  ASSUME OurBoards, HalHSE = BoardHSE_VALUE PROVE WholeMultiples
<1> USE DEF OurBoards, BoardHSE_VALUE, F4_HSE_VALUE, F7_HSE_VALUE
<1>1. \A b \in Boards : HalHSE[b] \in Nat \ {0}
  OBVIOUS
<1>2. ASSUME NEW osc \in Nat
      PROVE  /\ PLLOut(osc, F446ZE_clock) = osc * 21
             /\ PLLOut(osc, F746ZG_clock) = osc * 27
             /\ PLLOut(osc, F767ZI_clock) = osc * 27
             /\ PLLOut(osc, F412ZG_clock) = osc * 12
             /\ PLLOut(osc, F413ZH_clock) = osc * 12
  BY DEF PLLOut, Clock, F446ZE_clock, F746ZG_clock, F767ZI_clock, F412ZG_clock,
         F413ZH_clock
<1>3. /\ Settings["F446ZE"] = F446ZE_clock /\ Settings["F746ZG"] = F746ZG_clock
      /\ Settings["F767ZI"] = F767ZI_clock /\ Settings["F412ZG"] = F412ZG_clock
      /\ Settings["F413ZH"] = F413ZH_clock
  BY DEF BoardClock
<1>4. ASSUME NEW b \in Boards
      PROVE  \E k \in Nat \ {0} : \A osc \in Nat : PLLOut(osc, Settings[b]) = osc * k
  <2>1. CASE b = "F446ZE"
    <3> WITNESS 21 \in Nat \ {0}
    <3> QED BY <1>2, <1>3, <2>1
  <2>2. CASE b \in {"F746ZG", "F767ZI"}
    <3> WITNESS 27 \in Nat \ {0}
    <3> QED BY <1>2, <1>3, <2>2
  <2>3. CASE b \in {"F412ZG", "F413ZH"}
    <3> WITNESS 12 \in Nat \ {0}
    <3> QED BY <1>2, <1>3, <2>3
  <2> QED BY <2>1, <2>2, <2>3
<1> QED BY <1>1, <1>4 DEF WholeMultiples

(***************************************************************************)
(* So it is on every board of the repository.                              *)
(***************************************************************************)
THEOREM BoardsKeepLineSpeed ==
  ASSUME OurBoards, HalHSE = BoardHSE_VALUE PROVE SysSafety => []LineAtSpeed
BY BoardNumbers, BoardMultiples, LineKeepsSpeed

=============================================================================
