-------------------------- MODULE LwipNetifProofs --------------------------
(***************************************************************************)
(* Proofs about LwipNetif, for any threads and addresses: what the driver  *)
(* learns under lwIP's core lock, and that descriptors return without it.  *)
(***************************************************************************)
EXTENDS LwipNetif, FiniteSetTheorems, TLAPS

\* The lock is held by whoever is in the callback.
Alone == \A t, u \in Threads : pc[t] # "idle" /\ pc[u] # "idle" => t = u

\* How far the callback of the last change has come.
Progress(t) ==
  /\ pc[t] \in {"read", "open"} => ~missed
  /\ pc[t] \in {"open", "ioctl", "close"} => addr[t] = ntohl(ip_addr)
  /\ pc[t] = "ioctl" /\ ~missed => fd[t] = Opened
  /\ pc[t] = "close" /\ ~missed => m_ip_address = ntohl(ip_addr)

CallbackTypes ==
  /\ pc \in [Threads -> {"idle", "read", "open", "ioctl", "close"}]
  /\ addr \in [Threads -> Addresses]
  /\ fd \in [Threads -> {Failed, Opened}]

CallbackInv ==
  /\ CallbackTypes /\ ip_addr \in Addresses
  /\ Alone /\ AddressFollows
  /\ \A t \in Threads : Progress(t)

(***************************************************************************)
(* An address turned round is an address: both bytes of it are bytes.      *)
(***************************************************************************)
LEMMA SwappedIsAddress ==
  ASSUME NEW a \in Addresses PROVE ntohl(a) \in Addresses
BY DEF Addresses, ntohl

(***************************************************************************)
(* Before the first change both sides have the address zero.               *)
(***************************************************************************)
LEMMA CallbackAtStart == ASSUME Init PROVE CallbackInv
<1>1. NoAddress \in Addresses /\ ntohl(NoAddress) = NoAddress
  BY ByteAssumption DEF NoAddress, Addresses, ntohl
<1>2. CallbackTypes /\ ip_addr \in Addresses
  BY <1>1 DEF Init, CallbackTypes
<1>3. /\ \A t \in Threads : pc[t] = "idle"
      /\ m_ip_address = ntohl(ip_addr)
  BY <1>1 DEF Init
<1>4. Alone /\ AddressFollows /\ \A t \in Threads : Progress(t)
  BY <1>3 DEF Alone, AddressFollows, Progress
<1> QED BY <1>2, <1>4 DEF CallbackInv

(***************************************************************************)
(* A change starts a callback only when nobody is in one, and each call of *)
(* the callback passes on what the one before it obtained.                 *)
(***************************************************************************)
LEMMA CallbackStep ==
  ASSUME CoreLocked, CallbackInv, [Next]_vars
  PROVE  CallbackInv'
<1> USE DEF CallbackInv, CallbackTypes, Goto
<1>1. ASSUME NEW t \in Threads, Change(t) PROVE CallbackInv'
  <2>1. \A u \in Threads : pc[u] = "idle"
    BY <1>1 DEF Change
  <2>2. /\ pc' = [pc EXCEPT ![t] = "read"] /\ missed' = FALSE
        /\ ip_addr' \in Addresses /\ addr' = addr /\ fd' = fd
    BY <1>1 DEF Change
  <2>3. \A u \in Threads : pc'[u] = IF u = t THEN "read" ELSE "idle"
    BY <2>1, <2>2
  <2>4. CallbackTypes' /\ (ip_addr \in Addresses)'
    BY <2>2
  <2>5. Alone' /\ AddressFollows' /\ \A u \in Threads : Progress(u)'
    BY <2>2, <2>3 DEF Alone, AddressFollows, Progress
  <2> QED BY <2>4, <2>5
<1>2. ASSUME NEW t \in Threads, Callback(t) PROVE CallbackInv'
  <2>0. /\ pc[t] # "idle" /\ ip_addr' = ip_addr
        /\ \A u \in Threads \ {t} : pc[u] = "idle" /\ pc'[u] = "idle"
    BY <1>2 DEF Callback, Read, Open, Ioctl, Close, Alone
  <2>1. Alone'
    BY <2>0 DEF Alone
  <2>2. \A u \in Threads \ {t} : Progress(u)'
    BY <2>0 DEF Progress
  <2>3. CASE Read(t)
    <3>1. CallbackTypes'
      BY <2>3, SwappedIsAddress DEF Read
    <3>2. pc'[t] = "open" /\ addr'[t] = ntohl(ip_addr) /\ missed' = missed
      BY <2>3 DEF Read
    <3>3. Progress(t)' /\ AddressFollows'
      BY <2>0, <2>3, <3>2 DEF Progress, AddressFollows, Read
    <3> QED BY <2>0, <2>1, <2>2, <3>1, <3>3
  <2>4. CASE Open(t)
    <3>1. CallbackTypes'
      BY <2>4 DEF Open
    <3>2. /\ pc'[t] = "ioctl" /\ addr' = addr
          /\ ~missed' => fd'[t] = Opened
      BY <2>4 DEF Open
    <3>3. Progress(t)' /\ AddressFollows'
      BY <2>0, <2>4, <3>2 DEF Progress, AddressFollows, Open
    <3> QED BY <2>0, <2>1, <2>2, <3>1, <3>3
  <2>5. CASE Ioctl(t)
    <3>1. CallbackTypes'
      BY <2>5 DEF Ioctl
    <3>2. /\ pc'[t] = "close" /\ addr' = addr /\ missed' = missed
          /\ ~missed => m_ip_address' = ntohl(ip_addr)
      BY <2>5 DEF Ioctl, Progress
    <3>3. Progress(t)' /\ AddressFollows'
      BY <2>0, <2>5, <3>2 DEF Progress, AddressFollows, Ioctl
    <3> QED BY <2>0, <2>1, <2>2, <3>1, <3>3
  <2>6. CASE Close(t)
    <3>1. CallbackTypes'
      BY <2>6 DEF Close
    <3>2. /\ pc'[t] = "idle" /\ missed' = missed /\ m_ip_address' = m_ip_address
          /\ ~missed => m_ip_address = ntohl(ip_addr)
      BY <2>6 DEF Close, Progress
    <3>3. Progress(t)' /\ AddressFollows'
      BY <2>0, <3>2 DEF Progress, AddressFollows
    <3> QED BY <2>0, <2>1, <2>2, <3>1, <3>3
  <2> QED BY <1>2, <2>3, <2>4, <2>5, <2>6 DEF Callback
<1>3. ASSUME Others \/ UNCHANGED vars PROVE CallbackInv'
  <2>1. UNCHANGED <<ip_addr, m_ip_address, pc, addr, fd, missed>>
    BY <1>3 DEF Others, vars
  <2> QED BY <2>1 DEF Alone, AddressFollows, Progress
<1> QED BY <1>1, <1>2, <1>3 DEF Next

(***************************************************************************)
(* Between callbacks the driver has the stack's address in the core's byte *)
(* order, unless the last one could not open the device: for any number of *)
(* threads, addresses and descriptors, provided lwIP holds its core lock   *)
(* from the change to the end of the callback.                             *)
(***************************************************************************)
THEOREM DriverFollowsStack == ASSUME CoreLocked PROVE Spec => []AddressFollows
<1>1. CallbackInv => AddressFollows
  BY DEF CallbackInv
<1> QED BY <1>1, CallbackAtStart, CallbackStep, PTL DEF Spec

----------------------------------------------------------------------------
(* Descriptors, with the lock or without it.                               *)

\* The descriptors that callbacks have open.
Held == {t \in Threads : fd[t] = Opened}

\* A callback has a descriptor from its open to its close at most.
DescriptorInv ==
  /\ pc \in [Threads -> {"idle", "read", "open", "ioctl", "close"}]
  /\ fd \in [Threads -> {Failed, Opened}]
  /\ others \in Nat
  /\ others + Cardinality(Held) <= OPEN_MAX
  /\ \A t \in Threads : pc[t] \in {"idle", "read", "open"} => fd[t] = Failed

\* Each call takes one descriptor, gives it back, or leaves them alone.
LEMMA DescriptorStep ==
  ASSUME IsFiniteSet(Threads), DescriptorInv, [Next]_vars
  PROVE  DescriptorInv'
<1> USE DEF DescriptorInv, Goto
<1>0. IsFiniteSet(Held) /\ Cardinality(Held) \in Nat
  BY FS_Subset, FS_CardinalityType DEF Held
<1>1. ASSUME NEW t \in Threads, Change(t) \/ Read(t) \/ Ioctl(t) PROVE DescriptorInv'
  <2>1. UNCHANGED <<fd, others, Held>>
    BY <1>1 DEF Change, Read, Ioctl, Held
  <2>2. /\ pc' \in [Threads -> {"idle", "read", "open", "ioctl", "close"}]
        /\ \A u \in Threads : pc'[u] \in {"idle", "read", "open"} =>
             pc[u] \in {"idle", "read", "open"}
    BY <1>1 DEF Change, Read, Ioctl
  <2> QED BY <2>1, <2>2
<1>2. ASSUME NEW t \in Threads, Open(t) PROVE DescriptorInv'
  <2>1. fd[t] = Failed /\ t \notin Held
    BY <1>2 DEF Open, Held, Failed, Opened
  <2>2. CASE InUse < OPEN_MAX /\ fd' = [fd EXCEPT ![t] = Opened]
    <3>1. Held' = Held \cup {t}
      BY <2>2 DEF Held
    <3>2. Cardinality(Held') = Cardinality(Held) + 1
      BY <1>0, <2>1, <3>1, FS_AddElement
    <3>3. others' = others /\ others + Cardinality(Held) < OPEN_MAX
      BY <1>2, <2>2 DEF Open, InUse, Held
    <3>4. others' + Cardinality(Held') <= OPEN_MAX
      BY <1>0, <3>2, <3>3, OpenAssumption
    <3>5. pc' = [pc EXCEPT ![t] = "ioctl"]
      BY <1>2 DEF Open
    <3> QED BY <2>2, <3>3, <3>4, <3>5
  <2>3. CASE fd' = [fd EXCEPT ![t] = Failed]
    <3>1. fd' = fd
      BY <2>1, <2>3
    <3> QED BY <1>2, <3>1 DEF Open, Held
  <2> QED BY <1>2, <2>2, <2>3 DEF Open
<1>3. ASSUME NEW t \in Threads, Close(t) PROVE DescriptorInv'
  <2>1. /\ fd' = [fd EXCEPT ![t] = Failed] /\ others' = others
        /\ pc' = [pc EXCEPT ![t] = "idle"]
    BY <1>3 DEF Close
  <2>2. Held' = Held \ {t}
    BY <2>1 DEF Held, Failed, Opened
  <2>3. Cardinality(Held') <= Cardinality(Held) /\ Cardinality(Held') \in Nat
    <3> HIDE DEF DescriptorInv
    <3>1. /\ IsFiniteSet(Held \ {t})
          /\ Cardinality(Held \ {t}) \in {Cardinality(Held), Cardinality(Held) - 1}
      BY <1>0, FS_RemoveElement
    <3>2. Cardinality(Held \ {t}) \in Nat
      BY <3>1, FS_CardinalityType
    <3> QED BY <1>0, <2>2, <3>1, <3>2
  <2>4. others' + Cardinality(Held') <= OPEN_MAX
    BY <1>0, <2>1, <2>3, OpenAssumption
  <2>5. /\ pc' \in [Threads -> {"idle", "read", "open", "ioctl", "close"}]
        /\ fd' \in [Threads -> {Failed, Opened}]
        /\ \A u \in Threads : pc'[u] \in {"idle", "read", "open"} => fd'[u] = Failed
    BY <2>1
  <2> QED BY <2>1, <2>4, <2>5
<1>4. CASE Others
  <2>1. UNCHANGED <<pc, fd, Held>> /\ InUse = others + Cardinality(Held)
    BY <1>4 DEF Others, Held, InUse
  <2>2. others' \in Nat /\ others' + Cardinality(Held) <= OPEN_MAX
    BY <1>0, <1>4, <2>1, OpenAssumption DEF Others
  <2> QED BY <2>1, <2>2
<1>5. CASE UNCHANGED vars
  BY <1>5 DEF vars, Held
<1> QED BY <1>1, <1>2, <1>3, <1>4, <1>5 DEF Next, Callback

\* From the start no callback has a descriptor.
LEMMA DescriptorInduction ==
  ASSUME IsFiniteSet(Threads) PROVE Spec => []DescriptorInv
<1>1. Init => DescriptorInv
  <2> SUFFICES ASSUME Init PROVE DescriptorInv
    OBVIOUS
  <2>1. Held = {} /\ Cardinality({}) = 0
    BY FS_EmptySet DEF Init, Held, Failed, Opened
  <2> QED BY <2>1, OpenAssumption DEF Init, DescriptorInv
<1> QED BY <1>1, DescriptorStep, PTL DEF Spec

(***************************************************************************)
(* A callback gives its descriptor back and never takes one that is not    *)
(* there, for any finite number of threads and descriptors, with lwIP's    *)
(* core lock or without.                                                   *)
(***************************************************************************)
THEOREM DescriptorsAreReturned ==
  ASSUME IsFiniteSet(Threads) PROVE Spec => []DescriptorsReturned
<1>1. DescriptorInv => DescriptorsReturned
  BY DEF DescriptorInv, DescriptorsReturned, InUse, Held
<1> QED BY <1>1, DescriptorInduction, PTL

\* The addresses on their way and the history are what they seem.
AddressTypes ==
  /\ ip_addr \in Addresses /\ m_ip_address \in Addresses
  /\ addr \in [Threads -> Addresses] /\ missed \in BOOLEAN

\* A byte pair stays one, however the callbacks of the threads interleave.
LEMMA AddressStep ==
  ASSUME AddressTypes, [Next]_vars PROVE AddressTypes'
<1> USE DEF AddressTypes
<1>1. ASSUME NEW t \in Threads, Read(t) PROVE AddressTypes'
  <2>1. ntohl(ip_addr) \in Addresses
    BY SwappedIsAddress
  <2> HIDE DEF Addresses
  <2> QED BY <1>1, <2>1 DEF Read
<1>2. ASSUME NEW t \in Threads, Change(t) \/ Open(t) \/ Ioctl(t) \/ Close(t)
      PROVE  AddressTypes'
  BY <1>2 DEF Change, Open, Ioctl, Close
<1>3. CASE Others \/ UNCHANGED vars
  BY <1>3 DEF Others, vars
<1> QED BY <1>1, <1>2, <1>3 DEF Next, Callback

(***************************************************************************)
(* Whatever threads change the interface and whichever calls fail, with    *)
(* the lock or without it, the state is well typed; in particular the rest *)
(* of the kernel's open files are never more than OPEN_MAX.                *)
(***************************************************************************)
THEOREM CallbacksTyped ==
  ASSUME IsFiniteSet(Threads) PROVE Spec => []TypeOK
<1>1. Init => AddressTypes
  <2>1. NoAddress \in Addresses
    BY ByteAssumption DEF NoAddress, Addresses
  <2> HIDE DEF NoAddress, Addresses
  <2> QED BY <2>1 DEF Init, AddressTypes
<1>2. Spec => []AddressTypes
  BY <1>1, AddressStep, PTL DEF Spec
<1>3. AddressTypes /\ DescriptorInv => TypeOK
  <2>1. DescriptorInv => others \in 0..OPEN_MAX
    <3> SUFFICES ASSUME DescriptorInv PROVE others \in 0..OPEN_MAX
      OBVIOUS
    <3>1. Cardinality(Held) \in Nat /\ others \in Nat /\ others + Cardinality(Held) <= OPEN_MAX
      BY FS_Subset, FS_CardinalityType DEF Held, DescriptorInv
    <3> QED BY <3>1, OpenAssumption
  <2> QED BY <2>1 DEF AddressTypes, DescriptorInv, TypeOK
<1> QED BY <1>2, <1>3, DescriptorInduction, PTL

=============================================================================
