--------------------------- MODULE NetifLan8742a ---------------------------
(***************************************************************************)
(* The LAN8742A network-interface driver, src/src/ethernet/                *)
(* netif_lan8742a.c: one device (eth0), its link state and its address,    *)
(* and the ioctl handler as the threads that call it run it.               *)
(*                                                                         *)
(* A handler is cut at every call of the MAC driver (mcu_eth_setattr,      *)
(* mcu_eth_getregister, mcu_eth_setregister, mcu_eth_ioctl) and at every   *)
(* test or store of the shared state that follows such a call: pc[c] names *)
(* the point client c has reached, and an action runs the code from one    *)
(* point to the next.                                                      *)
(* The driver takes no lock.  Serialized says whether the kernel runs      *)
(* device ioctls one at a time; with FALSE the handlers interleave freely. *)
(*                                                                         *)
(* The hardware is what the code sees of it: every MAC call may fail, the  *)
(* cable comes and goes between any two steps, and a reset of the          *)
(* microcontroller loses the driver's memory but not the PHY's registers.  *)
(***************************************************************************)
EXTENDS Naturals

CONSTANTS
  Clients,      \* threads that issue ioctls on /dev/eth0
  Requests,     \* the o_flags values they pass to I_NETIF_SETATTR
  Addresses,    \* IP addresses the network stack may set
  NoAddress,    \* the zeroed address of a started system
  Serialized,   \* TRUE: the kernel runs one ioctl at a time
  Forwards,     \* what the requests handed on to mcu_eth_ioctl may do
  Configs       \* whether a device may have a configuration, and may have none

STATE_UNINITIALIZED == 0
STATE_CHIP_UP == 1
STATE_LINK_UP == 2

\* The bits of o_flags that netif_lan8742a_ioctl tests.
Flags == {"INIT", "SET_IP_ADDRESS", "SET_LINK_UP", "IS_LINK_UP", "SET_LINK_DOWN"}

\* The bits of the PHY's control register (register 0) that matter here.
ControlBits == {"reset", "autoneg", "power_down"}

ASSUME ClientsAssumption  == Clients # {}
ASSUME RequestsAssumption == Requests \subseteq SUBSET Flags
ASSUME AddressAssumption  == NoAddress \notin Addresses
ASSUME BooleanAssumption  == Serialized \in BOOLEAN /\ Configs \subseteq BOOLEAN
ASSUME ForwardsAssumption == Forwards \subseteq {"start", "stop", "register"}

VARIABLES
  is_initialized,  \* state->is_initialized
  m_ip_address,    \* the static m_ip_address
  mac,             \* the Ethernet MAC: "reset", "started", "stopped", "failed"
  control,         \* the PHY's register 0, as the set of the bits that are 1
  cable,           \* TRUE: a live cable is plugged in
  disturbed,       \* TRUE: MAC calls may still fail and the board may reset
  has_config,      \* FALSE: handle->config is NULL; set by the device table
  halted,          \* TRUE: a fault stopped the processor until a reset
  pc,              \* where each client's handler is; "idle" outside an ioctl
  o_flags,         \* the request each client runs, or ran last
  caller,          \* which request called initialize_ethernet
  eth_register,    \* each client's local copy of register 0, {} when not in use
  reply,           \* what each client's last ioctl returned
  stopFailed       \* history: a SET_LINK_DOWN failed and no start followed

driver   == <<is_initialized, m_ip_address>>
hardware == <<mac, control, cable, disturbed, has_config, halted>>
locals   == <<o_flags, caller, eth_register>>
vars     == <<driver, hardware, pc, locals, reply, stopFailed>>

LinkStates == {STATE_UNINITIALIZED, STATE_CHIP_UP, STATE_LINK_UP}
Labels == {"idle", "setattr", "init", "configure", "chip_up", "status",
           "fallback", "recheck", "link_up", "up_read", "up_write", "up_stop",
           "poll", "answer", "down_read", "down_write", "down_stop",
           "down_failed", "forward"}
Callers == {"INIT", "SET_LINK_UP", "IS_LINK_UP"}
\* "ERR" is the error code of mcu_eth_setattr handed on, "FWD" the result of
\* mcu_eth_ioctl, "none" no result yet.
Replies == {"none", "0", "1", "VERSION", "EIO", "ENOTSUP", "ERR", "FWD"}

(***************************************************************************)
(* Type correctness: every variable holds a value the code can store.      *)
(***************************************************************************)
TypeOK ==
  /\ is_initialized \in LinkStates
  /\ m_ip_address \in Addresses \cup {NoAddress}
  /\ mac \in {"reset", "started", "stopped", "failed"}
  /\ control \in SUBSET ControlBits
  /\ cable \in BOOLEAN /\ disturbed \in BOOLEAN /\ stopFailed \in BOOLEAN
  /\ has_config \in BOOLEAN /\ halted \in BOOLEAN
  /\ pc \in [Clients -> Labels]
  /\ o_flags \in [Clients -> SUBSET Flags]
  /\ caller \in [Clients -> Callers]
  /\ eth_register \in [Clients -> SUBSET ControlBits]
  /\ reply \in [Clients -> Replies \cup Addresses \cup {NoAddress}]

\* A system that starts: memory zeroed, the PHY as its straps or an earlier
\* run of the program left it.
Init ==
  /\ is_initialized = STATE_UNINITIALIZED
  /\ m_ip_address = NoAddress
  /\ mac = "reset"
  /\ control \in SUBSET (ControlBits \ {"reset"})
  /\ cable \in BOOLEAN
  /\ disturbed = TRUE
  /\ has_config \in Configs
  /\ halted = FALSE
  /\ pc = [c \in Clients |-> "idle"]
  /\ o_flags = [c \in Clients |-> {}]
  /\ caller = [c \in Clients |-> "INIT"]
  /\ eth_register = [c \in Clients |-> {}]
  /\ reply = [c \in Clients |-> "none"]
  /\ stopFailed = FALSE

----------------------------------------------------------------------------
(* The MAC driver, as netif_lan8742a.c uses it.                            *)

\* A start fails while the hardware is disturbed, and may fail without a
\* link to negotiate on.
StartMayFail == disturbed \/ ~cable

\* mcu_eth_setattr with ETH_FLAG_START: resets the PHY, sets its
\* auto-negotiation bit and starts the MAC.
StartMac(autoneg) ==
  /\ mac' = "started"
  /\ control' = IF autoneg THEN {"autoneg"} ELSE {}
  /\ stopFailed' = FALSE

\* A failed start leaves the MAC as it was or halted.
StartFails ==
  /\ StartMayFail
  /\ mac' \in {mac, "failed"}
  /\ UNCHANGED <<control, stopFailed>>

\* A write of register 0: the reset bit restores the PHY's defaults.
Written(value) == IF "reset" \in value THEN {"autoneg"} ELSE value

\* The link bit of the status register: a cable, and a PHY that is powered.
HasLink == cable /\ "power_down" \notin control

\* is_up: a failed read of the status register counts as no link.
IsUpReads(up) == IF up THEN HasLink ELSE ~HasLink \/ disturbed

----------------------------------------------------------------------------
(* Control flow of a handler.                                              *)

At(c, label) == pc[c] = label
Goto(c, label) ==
  /\ pc' = [pc EXCEPT ![c] = label]
  /\ UNCHANGED reply
Return(c, value) ==
  /\ pc' = [pc EXCEPT ![c] = "idle"]
  /\ reply' = [reply EXCEPT ![c] = value]

\* A client may enter the kernel when it is outside an ioctl and, if the
\* kernel serializes ioctls, every other client is too.
MayCall(c) == /\ At(c, "idle") /\ ~halted
              /\ Serialized => \A d \in Clients : At(d, "idle")

\* initialize_ethernet is called on behalf of a request.
Initialize(c, who) ==
  /\ caller' = [caller EXCEPT ![c] = who]
  /\ Goto(c, "init")

\* initialize_ethernet returns: INIT hands its result on, the other two
\* requests ignore it.  Its local state is gone.
Resume(c, value) ==
  /\ caller' = [caller EXCEPT ![c] = "INIT"]
  /\ \/ caller[c] = "INIT" /\ Return(c, value)
     \/ caller[c] = "SET_LINK_UP" /\ Goto(c, "up_read")
     \/ caller[c] = "IS_LINK_UP" /\ Goto(c, "answer")

----------------------------------------------------------------------------
(* netif_lan8742a_ioctl: entry and the requests that make no MAC call.     *)

\* ioctl(I_NETIF_SETATTR) with any of the flag sets a client passes.
Ioctl(c) ==
  /\ MayCall(c)
  /\ \E flags \in Requests : o_flags' = [o_flags EXCEPT ![c] = flags]
  /\ pc' = [pc EXCEPT ![c] = "setattr"]
  /\ reply' = [reply EXCEPT ![c] = "none"]
  /\ UNCHANGED <<driver, hardware, caller, eth_register, stopFailed>>

\* The requests that only look: I_NETIF_GETVERSION and I_NETIF_GETINFO.  The
\* latter copies from handle->config without a test; without a configuration
\* it reads what lies at a low address, or faults.
Query(c) ==
  /\ MayCall(c)
  /\ \/ Return(c, "VERSION") /\ UNCHANGED halted
     \/ Return(c, m_ip_address) /\ UNCHANGED halted
     \/ ~has_config /\ halted' = TRUE /\ UNCHANGED <<pc, reply>>
  /\ o_flags' = [o_flags EXCEPT ![c] = {}]
  /\ UNCHANGED <<driver, mac, control, cable, disturbed, has_config, caller, eth_register, stopFailed>>

\* Any other request goes to the MAC driver's own handler.
OtherRequest(c) ==
  /\ MayCall(c)
  /\ o_flags' = [o_flags EXCEPT ![c] = {}]
  /\ Goto(c, "forward")
  /\ UNCHANGED <<driver, hardware, caller, eth_register, stopFailed>>

\* The tests of o_flags, in the order the handler makes them.
SetAttrInit(c) ==
  /\ At(c, "setattr") /\ "INIT" \in o_flags[c]
  /\ Initialize(c, "INIT")
  /\ UNCHANGED <<driver, hardware, o_flags, eth_register, stopFailed>>

SetAttrAddress(c) ==
  /\ At(c, "setattr")
  /\ "INIT" \notin o_flags[c] /\ "SET_IP_ADDRESS" \in o_flags[c]
  /\ m_ip_address' \in Addresses
  /\ Return(c, "0")
  /\ UNCHANGED <<is_initialized, hardware, locals, stopFailed>>

SetAttrLinkUp(c) ==
  /\ At(c, "setattr")
  /\ o_flags[c] \cap {"INIT", "SET_IP_ADDRESS"} = {}
  /\ \/ /\ "SET_LINK_UP" \in o_flags[c] /\ is_initialized = STATE_UNINITIALIZED
        /\ Initialize(c, "SET_LINK_UP")
     \/ /\ "SET_LINK_UP" \in o_flags[c] /\ is_initialized # STATE_UNINITIALIZED
        /\ Goto(c, "up_read") /\ UNCHANGED caller
     \/ /\ "SET_LINK_UP" \notin o_flags[c]
        /\ Goto(c, "poll") /\ UNCHANGED caller
  /\ UNCHANGED <<driver, hardware, o_flags, eth_register, stopFailed>>

----------------------------------------------------------------------------
(* initialize_ethernet.                                                    *)
\* Mutant: eth_config is not compared with NULL.
InitEnterUnchecked(c) ==
  /\ At(c, "init")
  /\ \/ is_initialized = STATE_LINK_UP /\ Resume(c, "0")
     \/ is_initialized = STATE_UNINITIALIZED /\ Goto(c, "configure") /\ UNCHANGED caller
     \/ is_initialized = STATE_CHIP_UP /\ Goto(c, "status") /\ UNCHANGED caller
  /\ UNCHANGED <<driver, hardware, o_flags, eth_register, stopFailed>>

\* Up to the first call: nothing to do, no configuration, or bring the chip
\* up first, or go straight to the link.
InitEnter(c) ==
  /\ At(c, "init")
  /\ \/ is_initialized = STATE_LINK_UP /\ Resume(c, "0")
     \/ is_initialized # STATE_LINK_UP /\ ~has_config /\ Resume(c, "ENOTSUP")
     \/ /\ is_initialized = STATE_UNINITIALIZED /\ has_config
        /\ Goto(c, "configure") /\ UNCHANGED caller
     \/ /\ is_initialized = STATE_CHIP_UP /\ has_config
        /\ Goto(c, "status") /\ UNCHANGED caller
  /\ UNCHANGED <<driver, hardware, o_flags, eth_register, stopFailed>>
\* Mutant: STATE_CHIP_UP is stored before the result is looked at.
ConfigureTooEarly(c) ==
  /\ At(c, "configure")
  /\ is_initialized' = STATE_CHIP_UP
  /\ \/ StartMac(FALSE) /\ Goto(c, "chip_up") /\ UNCHANGED caller
     \/ StartFails /\ Resume(c, "ERR")
  /\ UNCHANGED <<m_ip_address, cable, disturbed, has_config, halted, o_flags, eth_register>>

\* The first mcu_eth_setattr, without auto-negotiation.
Configure(c) ==
  /\ At(c, "configure")
  /\ \/ StartMac(FALSE) /\ Goto(c, "chip_up") /\ UNCHANGED caller
     \/ StartFails /\ Resume(c, "ERR")
  /\ UNCHANGED <<driver, cable, disturbed, has_config, halted, o_flags, eth_register>>

\* Mutant: STATE_CHIP_UP is not stored.
ChipUpForgotten(c) ==
  /\ At(c, "chip_up") /\ Goto(c, "status")
  /\ UNCHANGED <<driver, hardware, locals, stopFailed>>

\* The chip is remembered as up.
ChipUp(c) ==
  /\ At(c, "chip_up")
  /\ is_initialized' = STATE_CHIP_UP
  /\ Goto(c, "status")
  /\ UNCHANGED <<m_ip_address, hardware, locals, stopFailed>>

\* The first is_up.
Status(c) ==
  /\ At(c, "status")
  /\ \/ IsUpReads(TRUE) /\ Goto(c, "link_up")
     \/ IsUpReads(FALSE) /\ Goto(c, "fallback")
  /\ UNCHANGED <<driver, hardware, locals, stopFailed>>

\* The second mcu_eth_setattr, with NULL: the configuration of the device
\* table, whose flags ask for auto-negotiation.
Fallback(c) ==
  /\ At(c, "fallback")
  /\ \/ StartMac(TRUE) /\ Goto(c, "recheck") /\ UNCHANGED caller
     \/ StartFails /\ Resume(c, "ERR")
  /\ UNCHANGED <<driver, cable, disturbed, has_config, halted, o_flags, eth_register>>

\* Mutant: the second is_up is not looked at.
RecheckNothing(c) ==
  /\ At(c, "recheck") /\ Goto(c, "link_up")
  /\ UNCHANGED <<driver, hardware, locals, stopFailed>>

\* Mutant: without a link the fallback is tried again.
RecheckLoops(c) ==
  /\ At(c, "recheck")
  /\ \/ IsUpReads(TRUE) /\ Goto(c, "link_up")
     \/ IsUpReads(FALSE) /\ Goto(c, "fallback")
  /\ UNCHANGED <<driver, hardware, locals, stopFailed>>

\* The second is_up.
Recheck(c) ==
  /\ At(c, "recheck")
  /\ \/ IsUpReads(TRUE) /\ Goto(c, "link_up") /\ UNCHANGED caller
     \/ IsUpReads(FALSE) /\ Resume(c, "0")
  /\ UNCHANGED <<driver, hardware, o_flags, eth_register, stopFailed>>

\* The link is remembered as up.
LinkUp(c) ==
  /\ At(c, "link_up")
  /\ is_initialized' = STATE_LINK_UP
  /\ Resume(c, "0")
  /\ UNCHANGED <<m_ip_address, hardware, o_flags, eth_register, stopFailed>>

----------------------------------------------------------------------------
(* SET_LINK_UP, after initialize_ethernet: a read, a write and a setattr.  *)
\* Mutant: the errno is returned without SYSFS_SET_RETURN.
GivesUpBareErrno(c) == disturbed /\ Return(c, "5")

\* A MAC call of a request fails; the request gives up with EIO.
GivesUp(c) == disturbed /\ Return(c, "EIO")

\* A MAC stop that fails may have stopped it.
StopFails == mac' \in {mac, "stopped"}

UpRead(c) ==
  /\ At(c, "up_read")
  /\ \/ /\ eth_register' = [eth_register EXCEPT ![c] = control]
        /\ Goto(c, "up_write")
     \/ GivesUp(c) /\ UNCHANGED eth_register
  /\ UNCHANGED <<driver, hardware, o_flags, caller, stopFailed>>

\* Mutant: the copy is written back as it was read.
UpWriteBack(c) ==
  /\ At(c, "up_write")
  /\ \/ control' = Written(eth_register[c]) /\ Goto(c, "up_stop")
     \/ GivesUp(c) /\ UNCHANGED control
  /\ eth_register' = [eth_register EXCEPT ![c] = {}]
  /\ UNCHANGED <<driver, mac, cable, disturbed, has_config, halted, o_flags, caller, stopFailed>>

\* What is written is the client's own copy, whatever became of the register
\* since it was read.
UpWrite(c) ==
  /\ At(c, "up_write")
  /\ \/ control' = Written(eth_register[c] \ {"power_down"}) /\ Goto(c, "up_stop")
     \/ GivesUp(c) /\ UNCHANGED control
  /\ eth_register' = [eth_register EXCEPT ![c] = {}]
  /\ UNCHANGED <<driver, mac, cable, disturbed, has_config, halted, o_flags, caller, stopFailed>>
\* Mutant: a SET_LINK_UP that fails forgets the link state, as SET_LINK_DOWN does.
UpStopForgets(c) ==
  /\ At(c, "up_stop")
  /\ StopFails /\ GivesUp(c) /\ is_initialized' = STATE_UNINITIALIZED
  /\ UNCHANGED <<m_ip_address, control, cable, disturbed, has_config, halted, locals, stopFailed>>

\* The request to bring the link up passes ETH_FLAG_STOP.
UpStop(c) ==
  /\ At(c, "up_stop")
  /\ \/ mac' = "stopped" /\ Goto(c, "poll")
     \/ StopFails /\ GivesUp(c)
  /\ UNCHANGED <<driver, control, cable, disturbed, has_config, halted, locals, stopFailed>>

----------------------------------------------------------------------------
(* IS_LINK_UP.                                                             *)
\* Mutant: only an uninitialized interface is brought up by a poll.
PollOnlyUninitialized(c) ==
  /\ At(c, "poll")
  /\ IF is_initialized = STATE_UNINITIALIZED
     THEN Initialize(c, "IS_LINK_UP")
     ELSE Goto(c, "answer") /\ UNCHANGED caller
  /\ UNCHANGED <<driver, hardware, o_flags, eth_register, stopFailed>>

\* A link that is not up yet is brought up now; without IS_LINK_UP the
\* handler goes on to SET_LINK_DOWN.
Poll(c) ==
  /\ At(c, "poll")
  /\ \/ /\ "IS_LINK_UP" \in o_flags[c] /\ is_initialized # STATE_LINK_UP
        /\ Initialize(c, "IS_LINK_UP")
     \/ /\ "IS_LINK_UP" \in o_flags[c] /\ is_initialized = STATE_LINK_UP
        /\ Goto(c, "answer") /\ UNCHANGED caller
     \/ /\ "IS_LINK_UP" \notin o_flags[c] /\ "SET_LINK_DOWN" \in o_flags[c]
        /\ Goto(c, "down_read") /\ UNCHANGED caller
     \/ /\ o_flags[c] \cap {"IS_LINK_UP", "SET_LINK_DOWN"} = {}
        /\ Goto(c, "forward") /\ UNCHANGED caller
  /\ UNCHANGED <<driver, hardware, o_flags, eth_register, stopFailed>>

\* The answer is the remembered state; the status register is not read.
Answer(c) ==
  /\ At(c, "answer")
  /\ Return(c, IF is_initialized = STATE_LINK_UP THEN "1" ELSE "0")
  /\ UNCHANGED <<driver, hardware, locals, stopFailed>>

----------------------------------------------------------------------------
(* SET_LINK_DOWN: a read, a write and a setattr.                           *)
\* A MAC call of SET_LINK_DOWN fails.
DownGivesUp(c) == disturbed /\ Goto(c, "down_failed")

DownRead(c) ==
  /\ At(c, "down_read")
  /\ \/ /\ eth_register' = [eth_register EXCEPT ![c] = control]
        /\ Goto(c, "down_write")
     \/ DownGivesUp(c) /\ UNCHANGED eth_register
  /\ UNCHANGED <<driver, hardware, o_flags, caller, stopFailed>>

\* value |= ~(1 << 11): every bit but power-down is set.
DownWrite(c) ==
  /\ At(c, "down_write")
  /\ \/ /\ control' = Written(eth_register[c] \cup (ControlBits \ {"power_down"}))
        /\ Goto(c, "down_stop")
     \/ DownGivesUp(c) /\ UNCHANGED control
  /\ eth_register' = [eth_register EXCEPT ![c] = {}]
  /\ UNCHANGED <<driver, mac, cable, disturbed, has_config, halted, o_flags, caller, stopFailed>>

DownStop(c) ==
  /\ At(c, "down_stop")
  /\ \/ mac' = "stopped" /\ Goto(c, "forward")
     \/ StopFails /\ DownGivesUp(c)
  /\ UNCHANGED <<driver, control, cable, disturbed, has_config, halted, locals, stopFailed>>

\* Mutant: the link state is kept when SET_LINK_DOWN fails.
LinkDownFailsKeepsState(c) ==
  /\ At(c, "down_failed")
  /\ stopFailed' = TRUE
  /\ Return(c, "EIO")
  /\ UNCHANGED <<driver, hardware, locals>>

\* A failure of any of the three forgets the link state, so that the next
\* poll starts over.
LinkDownFails(c) ==
  /\ At(c, "down_failed")
  /\ is_initialized' = STATE_UNINITIALIZED
  /\ stopFailed' = TRUE
  /\ Return(c, "EIO")
  /\ UNCHANGED <<m_ip_address, hardware, locals>>

\* Whatever is left over is handed to mcu_eth_ioctl, the MAC driver's own
\* handler.  That may take the request for one of its own: set the MAC's
\* attributes, which starts or stops it, or write the PHY's register.
Forward(c) ==
  /\ At(c, "forward")
  /\ Return(c, "FWD")
  /\ \/ UNCHANGED <<mac, control, stopFailed>>
     \/ "start" \in Forwards /\ \E autoneg \in BOOLEAN : StartMac(autoneg)
     \/ "start" \in Forwards /\ StartFails
     \/ /\ "stop" \in Forwards
        /\ mac' = "stopped" /\ UNCHANGED <<control, stopFailed>>
     \/ /\ "register" \in Forwards
        /\ control' \in {Written(value) : value \in SUBSET ControlBits}
        /\ UNCHANGED <<mac, stopFailed>>
  /\ UNCHANGED <<driver, cable, disturbed, has_config, halted, locals>>

----------------------------------------------------------------------------
(* The environment.                                                        *)

\* The cable is plugged in or pulled out.
Cable ==
  /\ cable' = ~cable
  /\ UNCHANGED <<driver, mac, control, disturbed, has_config, halted, pc, locals, reply, stopFailed>>

\* Faults end.
Settle ==
  /\ disturbed /\ disturbed' = FALSE
  /\ UNCHANGED <<driver, mac, control, cable, has_config, halted, pc, locals, reply, stopFailed>>

\* The microcontroller restarts; the PHY keeps its register.
Reset ==
  /\ disturbed
  /\ is_initialized' = STATE_UNINITIALIZED
  /\ m_ip_address' = NoAddress
  /\ mac' = "reset"
  /\ halted' = FALSE
  /\ pc' = [c \in Clients |-> "idle"]
  /\ o_flags' = [c \in Clients |-> {}]
  /\ caller' = [c \in Clients |-> "INIT"]
  /\ eth_register' = [c \in Clients |-> {}]
  /\ reply' = [c \in Clients |-> "none"]
  /\ stopFailed' = FALSE
  /\ UNCHANGED <<control, cable, disturbed, has_config>>

Step(c) ==
  /\ ~halted
  /\ \/ SetAttrInit(c) \/ SetAttrAddress(c) \/ SetAttrLinkUp(c)
     \/ InitEnter(c) \/ Configure(c) \/ ChipUp(c) \/ Status(c)
     \/ Fallback(c) \/ Recheck(c) \/ LinkUp(c)
     \/ UpRead(c) \/ UpWrite(c) \/ UpStop(c)
     \/ Poll(c) \/ Answer(c)
     \/ DownRead(c) \/ DownWrite(c) \/ DownStop(c) \/ LinkDownFails(c)
     \/ Forward(c)

Next ==
  \/ \E c \in Clients : Ioctl(c) \/ Query(c) \/ OtherRequest(c) \/ Step(c)
  \/ Cable \/ Settle \/ Reset

\* A handler that has begun runs on: the kernel does not abandon a thread
\* inside a system call.  Nothing makes a client call.
Fairness == \A c \in Clients : WF_vars(Step(c))

Spec == Init /\ [][Next]_vars /\ Fairness

----------------------------------------------------------------------------
(***************************************************************************)
(* The driver believes the chip is up, or the link is, only after a        *)
(* successful mcu_eth_setattr since the last reset: the short cut that     *)
(* skips the configuration of a chip that is up never runs on one that was *)
(* never configured.  Holds whether or not ioctls are serialized.          *)
(***************************************************************************)
ConfiguredBeforeUse == is_initialized # STATE_UNINITIALIZED => mac # "reset"

(***************************************************************************)
(* A SET_LINK_DOWN that failed half way leaves the hardware in a state     *)
(* nobody knows; until the MAC has been started again the driver holds no  *)
(* link state for it, so no later IS_LINK_UP answers 1 from memory.        *)
(***************************************************************************)
FailedStopForgotten == stopFailed => is_initialized = STATE_UNINITIALIZED

(***************************************************************************)
(* SET_LINK_UP and SET_LINK_DOWN change register 0 by a read in one call   *)
(* and a write in another, and without exclusion another client may change *)
(* the register in between: the second write loses the first.  What cannot *)
(* happen is that a PHY somebody woke is sent back to sleep by a stale     *)
(* copy: a SET_LINK_UP clears power-down in the copy it writes, so only a  *)
(* SET_LINK_DOWN or a request handed on to the MAC driver powers a PHY     *)
(* down that was up, and neither a start nor a reset does.                 *)
(***************************************************************************)
PhyStaysPowered ==
  []["power_down" \notin control /\ "power_down" \in control' =>
       \E c \in Clients : DownWrite(c) \/ Forward(c)]_vars

(***************************************************************************)
(* Until it has been answered, an initialisation works on the state it     *)
(* tested: a client past the test of STATE_UNINITIALIZED configures a chip *)
(* nobody has configured since, and one at a status read or a fallback     *)
(* finds the chip up and the link down.                                    *)
(***************************************************************************)
TestsStillHold ==
  \A c \in Clients :
    /\ pc[c] \in {"configure", "chip_up"} => is_initialized = STATE_UNINITIALIZED
    /\ pc[c] \in {"status", "fallback", "recheck", "link_up"} =>
         is_initialized = STATE_CHIP_UP

(***************************************************************************)
(* A device without a configuration never counts as up: initialize_ethernet*)
(* gives up before its first call for every caller, and a MAC that some    *)
(* application starts by a request handed on to mcu_eth_ioctl is none the  *)
(* driver knows of, so no request is answered 1.                           *)
(***************************************************************************)
UnconfiguredStaysDown ==
  ~has_config => /\ is_initialized = STATE_UNINITIALIZED
                 /\ \A c \in Clients : reply[c] # "1"

(***************************************************************************)
(* The link state is lost in two ways only, a reset and a SET_LINK_DOWN    *)
(* that failed.  Pulling the cable, stopping the MAC or a failed           *)
(* SET_LINK_UP never takes an interface out of STATE_LINK_UP.              *)
(***************************************************************************)
LinkLostOnlyByFailedStop ==
  [][is_initialized = STATE_LINK_UP /\ is_initialized' # STATE_LINK_UP =>
       Reset \/ \E c \in Clients : LinkDownFails(c)]_vars

(***************************************************************************)
(* Every ioctl returns: each client is outside one again and again.  No    *)
(* retry inside the handler runs for ever, whatever fails, even when the   *)
(* cable flaps at every status read.  The exception is a processor that    *)
(* another client's I_NETIF_GETINFO has halted.                            *)
(***************************************************************************)
EveryIoctlReturns == \A c \in Clients : []<>(At(c, "idle") \/ halted)

(***************************************************************************)
(* The retry of the bring-up works: once faults have ended, the cable      *)
(* stays in and the requests handed on to the MAC driver leave the MAC and *)
(* the PHY alone, the link of a configured device that is asked for again  *)
(* and again comes up and stays up, wherever an earlier attempt gave up.   *)
(***************************************************************************)
AskedForEver == []<>(\E c \in Clients : At(c, "answer"))
NobodyMeddles ==
  \A c \in Clients : At(c, "forward") /\ pc'[c] = "idle" => UNCHANGED <<mac, control>>
PolledLinkComesUp ==
  AskedForEver /\ <>[](has_config /\ cable /\ ~disturbed) /\ <>[][NobodyMeddles]_vars
    => <>[](is_initialized = STATE_LINK_UP)

----------------------------------------------------------------------------
(***************************************************************************)
(* The driver implements LinkMonitor when ioctls are serialized: its state *)
(* is the link, with what a client has read and not yet stored, the cable  *)
(* the medium, and the reply to a request that reached the test of         *)
(* IS_LINK_UP the answer.                                                  *)
(***************************************************************************)
IsPoll(flags) == flags \cap {"INIT", "SET_IP_ADDRESS"} = {} /\ "IS_LINK_UP" \in flags
LinkName == [s \in LinkStates |->
  IF s = STATE_LINK_UP THEN "up" ELSE IF s = STATE_CHIP_UP THEN "chip" ELSE "down"]

Link == IF \E c \in Clients : At(c, "link_up") THEN "seen" ELSE LinkName[is_initialized]

Monitor == INSTANCE LinkMonitor WITH
  link   <- Link,
  medium <- cable,
  answer <- [c \in Clients |->
    IF IsPoll(o_flags[c]) /\ reply[c] \in {"0", "1"} THEN reply[c] ELSE "none"]

ImplementsLinkMonitor == Monitor!Spec

----------------------------------------------------------------------------
(* What the comments of the source say of the hardware.                    *)

Done(c, flag) == At(c, "idle") /\ reply[c] = "FWD" /\ flag \in o_flags[c]

\* "restart after having been stopped": a SET_LINK_UP that met no error has
\* started the MAC.
LinkUpRestarts ==
  \A c \in Clients : Done(c, "SET_LINK_UP") => mac = "started"

\* "Set power down mode": a SET_LINK_DOWN that met no error has powered the
\* PHY down.
LinkDownPowersDown ==
  \A c \in Clients : Done(c, "SET_LINK_DOWN") => "power_down" \in control

=============================================================================
