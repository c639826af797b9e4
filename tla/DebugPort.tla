----------------------------- MODULE DebugPort -----------------------------
(***************************************************************************)
(* The debug port of a debug build.  debug_write sends a message byte by   *)
(* byte through the one handle m_huart3, from whatever context calls it:   *)
(* threads, an interrupt handler, which preempts them, and the fault       *)
(* handler, which preempts all and whose event handler never returns.      *)
(* HAL_UART_Transmit does not wait for a handle in use: it answers         *)
(* HAL_BUSY, debug_write does not look, and the byte is gone.              *)
(*                                                                         *)
(* The HAL is a library outside the repository.  Of its function the model *)
(* keeps what it is known for: it tests the handle (gState and Lock, here  *)
(* one) and takes it by a later store, with nothing that makes the two     *)
(* one, so two threads may both find it free and both get in.  They then   *)
(* share its count and its data register, and a byte of either may be lost.*)
(***************************************************************************)
EXTENDS Integers

CONSTANTS
  Threads,       \* the threads that write
  MessageBytes   \* bound: bytes of a message

ASSUME ThreadsAssumption == {"handler", "fault"} \cap Threads = {}
ASSUME MessageAssumption == MessageBytes \in Nat \ {0}

VARIABLES
  gState,    \* m_huart3.gState; "RESET" until debug_initialize
  reckoned,  \* the core frequency from which HAL_UART_Init computed the divisor
  led,       \* the debug LED is lit
  at,        \* where each context is, one of Places
  left,      \* bytes of its message it has not handed over
  heard,     \* bytes of its message that went over the line
  lone       \* history: whose message began on an open port with everyone
             \* else idle, and has been the only one since

port == <<gState, reckoned, at, left, heard, lone>>
portVars == <<port, led>>

Interrupts == {"handler", "fault"}
Contexts == Threads \cup Interrupts
DebugBaud == 400  \* kilobaud
Unset == 0

\* Outside debug_write; in it between bytes; inside HAL_UART_Transmit, having
\* found the handle free, with the handle, or with a handle that another thread
\* has taken as well; in the loop of the fatal event.
Places == {"idle", "send", "look", "shift", "mixed", "spin"}
Inside == {"shift", "mixed"}

\* A context runs while none that preempts it is at work.
Above(c) == IF c = "fault" THEN {} ELSE IF c = "handler" THEN {"fault"} ELSE Interrupts
Runs(c) == \A d \in Above(c) : at[d] = "idle"
ThreadsRun == \A d \in Interrupts : at[d] = "idle"

\* Statics at the start of an image.
PortZero ==
  [gState |-> "RESET", reckoned |-> Unset, at |-> [c \in Contexts |-> "idle"],
   left |-> [c \in Contexts |-> 0], heard |-> [c \in Contexts |-> 0], lone |-> {}]
PortInit ==
  /\ gState = PortZero.gState /\ reckoned = PortZero.reckoned
  /\ at = PortZero.at /\ left = PortZero.left /\ heard = PortZero.heard
  /\ lone = PortZero.lone /\ led = FALSE
PortRestart ==
  /\ gState' = PortZero.gState /\ reckoned' = PortZero.reckoned
  /\ at' = PortZero.at /\ left' = PortZero.left /\ heard' = PortZero.heard
  /\ lone' = PortZero.lone

\* debug_initialize: LED off, then HAL_UART_Init, which goes by the HAL's idea
\* of the clock.
DebugInitialize(clock) ==
  /\ gState = "RESET"
  /\ gState' = "READY" /\ reckoned' = clock /\ led' = FALSE
  /\ UNCHANGED <<at, left, heard, lone>>

\* debug_write is called; in a fault, by the SOS_EVENT_ROOT_FATAL case of
\* os_event_handler.
Call(c) ==
  /\ at[c] = "idle"
  /\ at' = [at EXCEPT ![c] = "send"]
  /\ left' = [left EXCEPT ![c] = MessageBytes]
  /\ heard' = [heard EXCEPT ![c] = 0]
  /\ lone' = IF gState # "RESET" /\ \A d \in Contexts \ {c} : at[d] = "idle" THEN {c} ELSE {}
  /\ UNCHANGED <<gState, reckoned, led>>

\* The loop of debug_write: whatever HAL_UART_Transmit answered, the next byte.
NextByte(c) ==
  /\ at' = [at EXCEPT ![c] = "send"]
  /\ left' = [left EXCEPT ![c] = @ - 1]
  /\ UNCHANGED <<reckoned, led, lone>>

\* HAL_UART_Transmit is called and finds the handle free.
Look(c) ==
  /\ at[c] = "send" /\ left[c] > 0 /\ gState = "READY"
  /\ at' = [at EXCEPT ![c] = "look"]
  /\ UNCHANGED <<gState, reckoned, led, left, heard, lone>>

\* It takes the handle it found free, whoever has taken it since.  An interrupt
\* has it to itself: what it preempts stands still.
Sharers(c) == {d \in Contexts \ {c} : at[d] \in Inside}
Take(c) ==
  /\ at[c] = "look"
  /\ gState' = "BUSY_TX"
  /\ at' = [d \in Contexts |->
       IF d = c THEN IF c \in Threads /\ Sharers(c) # {} THEN "mixed" ELSE "shift"
       ELSE IF d \in Sharers(c) THEN "mixed" ELSE at[d]]
  /\ UNCHANGED <<reckoned, led, left, heard, lone>>

\* It finds the handle in use, at its first test or at the second.
Busy(c) == \/ at[c] = "send" /\ left[c] > 0 /\ gState # "READY"
           \/ at[c] = "look" /\ gState # "READY"

\* Mutant: the writer tries again until the handle is free.
RefuseRetries(c) == Busy(c) /\ UNCHANGED portVars

\* Mutant: a writer that is refused initialises the handle again.
RefuseReopens(c) ==
  Busy(c) /\ NextByte(c) /\ gState' = "READY" /\ UNCHANGED heard

\* Mutant: the loop goes on for one byte past a message that was refused.
RefuseTooOften(c) ==
  /\ Busy(c) \/ (at[c] = "send" /\ gState # "READY")
  /\ NextByte(c) /\ UNCHANGED <<gState, heard>>

\* It answers HAL_BUSY (HAL_MAX_DELAY bounds the transmission, not the wait
\* for the handle) and debug_write goes on to the next byte.
Refuse(c) == Busy(c) /\ NextByte(c) /\ UNCHANGED <<gState, heard>>

\* Mutant: debug_write waits for a bounded time, and does not look at
\* HAL_TIMEOUT either.
DeliveredInTime(c) == \/ heard' = [heard EXCEPT ![c] = @ + 1]
                      \/ UNCHANGED heard

\* debug_write waits for the byte as long as it takes (HAL_MAX_DELAY).
Delivered(c) == heard' = [heard EXCEPT ![c] = @ + 1]

\* The byte is out, or lost to the other user of the handle, and the handle
\* counts as free, other user or not.
Shifted(c) ==
  /\ at[c] \in Inside
  /\ NextByte(c)
  /\ gState' = "READY"
  /\ \/ Delivered(c)
     \/ at[c] = "mixed" /\ UNCHANGED heard

\* debug_write returns; the fatal event ends in while (1).
Return(c) ==
  /\ at[c] = "send" /\ left[c] = 0
  /\ at' = [at EXCEPT ![c] = IF c = "fault" THEN "spin" ELSE "idle"]
  /\ UNCHANGED <<gState, reckoned, led, left, heard, lone>>

debug_enable_led == ThreadsRun /\ led' = TRUE /\ UNCHANGED port
debug_disable_led == ThreadsRun /\ led' = FALSE /\ UNCHANGED port

Continue(c) ==
  Runs(c) /\ (Look(c) \/ Take(c) \/ Refuse(c) \/ Shifted(c) \/ Return(c))
Write(c) == (Runs(c) /\ Call(c)) \/ Continue(c)

PortTypeOK ==
  /\ gState \in {"RESET", "READY", "BUSY_TX"} /\ led \in BOOLEAN
  /\ at \in [Contexts -> Places]
  /\ left \in [Contexts -> 0..MessageBytes]
  /\ heard \in [Contexts -> 0..MessageBytes]
  /\ lone \in SUBSET Contexts

(***************************************************************************)
(* A message that has the port to itself goes out whole: no byte of it is  *)
(* refused, even if threads have mixed their bytes in the handle before,   *)
(* or one was refused in the middle of another's.  However a race for the  *)
(* handle ends, it does not leave the port busy behind it.                 *)
(***************************************************************************)
LoneMessageWhole == \A c \in lone : heard[c] + left[c] = MessageBytes

(***************************************************************************)
(* What an interrupt or a fault writes is heard whole or not at all: not   *)
(* at all if it struck inside a byte of a context it preempts, which       *)
(* cannot finish that byte meanwhile, or before debug_initialize.  So the  *)
(* fatal message of os_event_handler is never torn, but may be missing.    *)
(***************************************************************************)
InterruptsWhole ==
  /\ \A c \in Interrupts :
       at[c] \notin {"idle", "spin"} => heard[c] \in {0, MessageBytes - left[c]}
  /\ at["fault"] = "spin" =>
       heard["fault"] = IF gState = "READY" THEN MessageBytes ELSE 0

(***************************************************************************)
(* A write from an interrupt returns, and a fatal one reaches its endless  *)
(* loop, whatever the context below was doing with the port: again and     *)
(* again neither is in the middle of a write, as nothing waits for a       *)
(* handle whose holder cannot run.                                         *)
(***************************************************************************)
WritesEnd ==
  /\ []<>(at["handler"] = "idle" \/ at["fault"] = "spin")
  /\ []<>(at["fault"] \in {"idle", "spin"})

=============================================================================
