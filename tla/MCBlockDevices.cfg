CONSTANTS
  sda = sda
  disk0 = disk0
  disk1 = disk1
  bus0 = bus0
  Drives = {sda, disk0, disk1}
  Node <- OneBus
  Volumes = {c0d0}
  Arrays = {md0, md1}
  Silent = {md1}
  MaxTroubles = 2
SPECIFICATION DeviceSpec
INVARIANTS FaultsSent SentForAReason
CHECK_DEADLOCK FALSE
