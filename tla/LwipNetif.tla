----------------------------- MODULE LwipNetif -----------------------------
(***************************************************************************)
(* lwip_netif_status_callback: how the driver of eth0 learns the address   *)
(* of the stack's interface.  lwIP calls it from whichever thread changed  *)
(* the interface; it reads the address, opens /dev/eth0, makes the ioctl   *)
(* SET_IP_ADDRESS and closes.  The results of open and ioctl are not       *)
(* looked at.  The descriptors are shared with the rest of the kernel.     *)
(*                                                                         *)
(* The ioctl is SetAttrAddress of NetifLan8742a, which cannot fail.        *)
(***************************************************************************)
EXTENDS Integers, FiniteSets

CONSTANTS
  Threads,     \* threads that may change the interface
  Bytes, Zero, \* what a byte of an address may be
  CoreLocked,  \* TRUE: lwIP changes interfaces one at a time
  OPEN_MAX     \* descriptors there are

ASSUME ByteAssumption == Zero \in Bytes
ASSUME LockAssumption    == CoreLocked \in BOOLEAN
ASSUME OpenAssumption    == OPEN_MAX \in Nat

VARIABLES
  ip_addr,       \* netif->ip_addr, in network order
  m_ip_address,  \* what the driver answers to I_NETIF_GETINFO, in the core's
  pc, addr, fd,  \* of each thread in the callback
  others,        \* descriptors the rest of the kernel has open
  missed         \* history: the callback for the last change could not open

vars == <<ip_addr, m_ip_address, pc, addr, fd, others, missed>>

\* Addresses have two bytes.  ntohl turns them round, as the core is little
\* endian.
Addresses == Bytes \X Bytes
NoAddress == <<Zero, Zero>>
ntohl(address) == <<address[2], address[1]>>

Failed == -1
Opened == 0
InUse == others + Cardinality({t \in Threads : fd[t] = Opened})

Init ==
  /\ ip_addr = NoAddress /\ m_ip_address = NoAddress
  /\ pc = [t \in Threads |-> "idle"]
  /\ addr = [t \in Threads |-> NoAddress]
  /\ fd = [t \in Threads |-> Failed]
  /\ others \in 0..OPEN_MAX
  /\ missed = FALSE

Goto(t, label) == pc' = [pc EXCEPT ![t] = label]

\* The stack changes the address (DHCP, a lost lease, an administrator) and
\* calls back.
Change(t) ==
  /\ pc[t] = "idle"
  /\ CoreLocked => \A u \in Threads : pc[u] = "idle"
  /\ ip_addr' \in Addresses \ {ip_addr}
  /\ Goto(t, "read") /\ missed' = FALSE
  /\ UNCHANGED <<m_ip_address, addr, fd, others>>

\* Mutant: the address as it is in the packet.
ReadUnswapped(t) ==
  /\ pc[t] = "read" /\ Goto(t, "open")
  /\ addr' = [addr EXCEPT ![t] = ip_addr]
  /\ UNCHANGED <<ip_addr, m_ip_address, fd, others, missed>>

Read(t) ==
  /\ pc[t] = "read" /\ Goto(t, "open")
  /\ addr' = [addr EXCEPT ![t] = ntohl(ip_addr)]
  /\ UNCHANGED <<ip_addr, m_ip_address, fd, others, missed>>

\* open fails when there is no descriptor left, or for reasons of its own.
Open(t) ==
  /\ pc[t] = "open" /\ Goto(t, "ioctl")
  /\ \/ InUse < OPEN_MAX /\ fd' = [fd EXCEPT ![t] = Opened] /\ UNCHANGED missed
     \/ fd' = [fd EXCEPT ![t] = Failed] /\ missed' = TRUE
  /\ UNCHANGED <<ip_addr, m_ip_address, addr, others>>

\* ioctl(fd, I_NETIF_SETATTR, SET_IP_ADDRESS): EBADF without a descriptor.
Ioctl(t) ==
  /\ pc[t] = "ioctl" /\ Goto(t, "close")
  /\ m_ip_address' = IF fd[t] = Opened THEN addr[t] ELSE m_ip_address
  /\ UNCHANGED <<ip_addr, addr, fd, others, missed>>

\* Mutant: the callback returns without closing.
CloseNothing(t) ==
  /\ pc[t] = "close" /\ Goto(t, "idle")
  /\ UNCHANGED <<ip_addr, m_ip_address, addr, fd, others, missed>>

\* Mutant: the descriptor is closed twice, the second time it is another's.
CloseTwice(t) ==
  /\ pc[t] = "close" /\ Goto(t, "idle")
  /\ fd' = [fd EXCEPT ![t] = Failed]
  /\ others' = IF fd[t] = Opened THEN others - 1 ELSE others
  /\ UNCHANGED <<ip_addr, m_ip_address, addr, missed>>

\* close(fd): EBADF without a descriptor.
Close(t) ==
  /\ pc[t] = "close" /\ Goto(t, "idle")
  /\ fd' = [fd EXCEPT ![t] = Failed]
  /\ UNCHANGED <<ip_addr, m_ip_address, addr, others, missed>>

\* The rest of the kernel opens and closes files.
Others ==
  /\ \/ InUse < OPEN_MAX /\ others' = others + 1
     \/ others > 0 /\ others' = others - 1
  /\ UNCHANGED <<ip_addr, m_ip_address, pc, addr, fd, missed>>

Callback(t) == Read(t) \/ Open(t) \/ Ioctl(t) \/ Close(t)
Next == Others \/ \E t \in Threads : Change(t) \/ Callback(t)

Spec == Init /\ [][Next]_vars

TypeOK ==
  /\ ip_addr \in Addresses /\ m_ip_address \in Addresses
  /\ pc \in [Threads -> {"idle", "read", "open", "ioctl", "close"}]
  /\ addr \in [Threads -> Addresses]
  /\ fd \in [Threads -> {Failed, Opened}]
  /\ others \in 0..OPEN_MAX /\ missed \in BOOLEAN

(***************************************************************************)
(* Between callbacks the driver has the stack's address, in the core's     *)
(* byte order, unless the last callback could not open the device.         *)
(***************************************************************************)
AddressFollows ==
  (\A t \in Threads : pc[t] = "idle") /\ ~missed => m_ip_address = ntohl(ip_addr)

(***************************************************************************)
(* A callback gives its descriptor back, whichever call failed, and never  *)
(* pushes the others over the limit.                                       *)
(***************************************************************************)
DescriptorsReturned ==
  /\ InUse <= OPEN_MAX
  /\ \A t \in Threads : pc[t] = "idle" => fd[t] = Failed

=============================================================================
