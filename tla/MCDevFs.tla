------------------------------ MODULE MCDevFs ------------------------------
(***************************************************************************)
(* DeviceFiles on the device table of the F746ZG.  The tables of the       *)
(* boards without Ethernet are parts of it.                                *)
(***************************************************************************)
EXTENDS DeviceFiles, DeviceTable

UsesOf(table) == [d \in DOMAIN table |-> EntryResources(table[d])]
ResourcesOf(table) == UNION {UsesOf(table)[d] : d \in DOMAIN table}

F746ZG == devfs_list_F746ZG
F746ZGDevices == DOMAIN F746ZG
F746ZGUses == UsesOf(F746ZG)
F746ZGResources == ResourcesOf(F746ZG)

\* PA7 is CRS_DV of eth0 and MOSI of spi0.
PA7 == {<<"pin", 0, 7>>}

=============================================================================
