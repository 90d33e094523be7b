--------------------------- MODULE MCBlockDevices ---------------------------
(* BlockDevices with three drives, two of them behind one node, a volume, an *)
(* array and one of RAID0.                                                   *)
EXTENDS BlockDevices, TLC

CONSTANTS sda, disk0, disk1, bus0

OneBus == sda :> sda @@ disk0 :> bus0 @@ disk1 :> bus0
=============================================================================
