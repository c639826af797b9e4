---------------------------- MODULE LinkMonitor ----------------------------
(***************************************************************************)
(* What the network stack may rely on when it polls a network interface:   *)
(* the link goes through a configured chip before it is up, it is up only  *)
(* if that chip was seen to have the medium, and a poll is answered with   *)
(* the link as it is when the answer is given.  The link is remembered: it *)
(* stays up until it is forgotten, medium or not.                          *)
(***************************************************************************)
CONSTANT Clients

VARIABLES
  link,     \* "down", "chip", "seen" or "up"
  medium,   \* whether there is a medium to link to
  answer    \* the answer to each client's last poll; "none" while it runs

vars == <<link, medium, answer>>

Init ==
  /\ link = "down"
  /\ medium \in BOOLEAN
  /\ answer = [c \in Clients |-> "none"]

\* The chip is configured.
Configure == link = "down" /\ link' = "chip" /\ UNCHANGED <<medium, answer>>

\* A configured chip sees the medium.
See == link = "chip" /\ medium /\ link' = "seen" /\ UNCHANGED <<medium, answer>>

\* What was seen is taken for the link, though the medium may be gone by then.
Confirm == link = "seen" /\ link' = "up" /\ UNCHANGED <<medium, answer>>

\* The interface forgets its link.
Forget == link' = "down" /\ UNCHANGED <<medium, answer>>

\* The interface restarts; every poll is forgotten with the link.
Restart ==
  /\ link' = "down"
  /\ answer' = [c \in Clients |-> "none"]
  /\ UNCHANGED medium

Change == medium' = ~medium /\ UNCHANGED <<link, answer>>

Ask(c) ==
  /\ answer' = [answer EXCEPT ![c] = "none"]
  /\ UNCHANGED <<link, medium>>

Reply(c) ==
  /\ answer[c] = "none"
  /\ answer' = [answer EXCEPT ![c] = IF link = "up" THEN "1" ELSE "0"]
  /\ UNCHANGED <<link, medium>>

Next ==
  \/ Configure \/ See \/ Confirm \/ Forget \/ Restart \/ Change
  \/ \E c \in Clients : Ask(c) \/ Reply(c)

Spec == Init /\ [][Next]_vars

=============================================================================
