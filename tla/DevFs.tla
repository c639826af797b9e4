------------------------------- MODULE DevFs -------------------------------
(***************************************************************************)
(* Devices opened, configured with their defaults and closed again.        *)
(* Nothing in the board support package arbitrates: mcu_set_pin_function   *)
(* hands every pin to whoever asks last, and so do the DMA controller and  *)
(* the peripherals.  What keeps devices apart is the table alone.          *)
(***************************************************************************)
EXTENDS Integers, FiniteSets

CONSTANTS
  Devices,         \* the entries of devfs_list that use hardware
  Resources,       \* peripherals, pins and DMA streams
  Uses,            \* what the defaults of each device take
  Shared,          \* the resources that more than one entry is known to name
  Debug,           \* what debug_initialize sets up at start and never closes
  Nobody,          \* the owner of a resource nobody has
  MaxOpen,         \* bound: devices open at a time
  MaxDescriptors   \* bound: descriptors open on one device

ASSUME UsesAssumption  == Uses \in [Devices -> SUBSET Resources]
ASSUME DebugAssumption == Debug \in Devices /\ Nobody \notin Devices
ASSUME BoundsAssumption == MaxOpen \in Nat /\ MaxDescriptors \in Nat

VARIABLES
  descriptors,  \* how often each device is open
  configured,   \* the devices in use whose defaults have been applied
  owner         \* which device each resource was last given to

vars == <<descriptors, configured, owner>>

Open == {d \in Devices : descriptors[d] > 0}

\* Resources given to someone, whoever had them.
Give(resources, d) ==
  [r \in Resources |-> IF r \in resources THEN d ELSE owner[r]]

Init ==
  /\ descriptors = [d \in Devices |-> 0]
  /\ configured = {Debug}
  /\ owner = [r \in Resources |-> IF r \in Uses[Debug] THEN Debug ELSE Nobody]

OpenDevice(d) ==
  /\ d # Debug
  /\ descriptors[d] < MaxDescriptors
  /\ Cardinality(Open \cup {d}) <= MaxOpen
  /\ descriptors' = [descriptors EXCEPT ![d] = @ + 1]
  /\ UNCHANGED <<configured, owner>>

\* An ioctl with the attributes of the table.
SetDefaults(d) ==
  /\ d \in Open
  /\ configured' = configured \cup {d}
  /\ owner' = Give(Uses[d], d)
  /\ UNCHANGED descriptors

\* Mutant: a device is closed once more than it was opened.
CloseTwice(d) ==
  /\ d \in configured
  /\ descriptors' = [descriptors EXCEPT ![d] = @ - 1]
  /\ UNCHANGED <<configured, owner>>

\* The last close stops the peripheral and, in the worse of the two cases a
\* driver may choose, resets what the defaults took, whoever has it by now.
Close(d) ==
  /\ d \in Open
  /\ descriptors' = [descriptors EXCEPT ![d] = @ - 1]
  /\ \/ descriptors[d] > 1 /\ UNCHANGED <<configured, owner>>
     \/ /\ descriptors[d] = 1
        /\ configured' = configured \ {d}
        /\ owner' = Give(Uses[d], Nobody)

Next == \E d \in Devices : OpenDevice(d) \/ SetDefaults(d) \/ Close(d)

Spec == Init /\ [][Next]_vars

TypeOK ==
  /\ descriptors \in [Devices -> 0..MaxDescriptors]
  /\ configured \in SUBSET Devices
  /\ owner \in [Resources -> Devices \cup {Nobody}]

Kept(resources) ==
  \A d \in configured : \A r \in Uses[d] \cap resources : owner[r] = d

(***************************************************************************)
(* A device that is in use keeps every pin, stream and peripheral its      *)
(* defaults took, but for those known to be shared, whatever is opened,    *)
(* configured or closed after it, by threads that know nothing of it       *)
(* ("peripherals that are dedicated for use on the board").                *)
(***************************************************************************)
ResourcesKept == Kept(Resources \ Shared)

(***************************************************************************)
(* The premise of the theorem: two devices name a resource in common only  *)
(* if it is known to be shared.  Streams that configurations name twice    *)
(* are no exception: all but one of them go through drivers that do not    *)
(* use them.                                                               *)
(***************************************************************************)
TableApart ==
  \A d, e \in Devices : d # e => Uses[d] \cap Uses[e] \subseteq Shared

=============================================================================
