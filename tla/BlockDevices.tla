---------------------------- MODULE BlockDevices ----------------------------
(***************************************************************************)
(* DISKCHECK (armt.cc) and the block devices it enumerates (block/*.cc):   *)
(* drives that smartctl lists, volumes of CCISS controllers, MD arrays.    *)
(*                                                                         *)
(* Everything is read anew in each call, by one command or file after the  *)
(* other; between any two of them devices fail, are replaced, removed and  *)
(* added.  The order in which devices are read is any: it only decides     *)
(* what happened before.  Models and serial numbers are left out.          *)
(***************************************************************************)
EXTENDS Integers

CONSTANTS
  Drives,      \* what smartctl can list
  Volumes,     \* the entries of /dev/cciss
  Arrays,      \* what /proc/mdstat can list
  Node,        \* the name under which smartctl lists a drive: those behind a
               \* RAID controller share one and differ in the driver
  Silent,      \* devices with no status: no SMART support, RAID0
  MaxTroubles  \* bound: changes of devices and commands that fail

Devices == Drives \cup Volumes \cup Arrays

ASSUME BlockAssumption ==
  /\ Drives \cap Volumes = {} /\ Drives \cap Arrays = {} /\ Volumes \cap Arrays = {}
  /\ DOMAIN Node = Drives
  /\ Silent \subseteq Drives \cup Arrays
  /\ MaxTroubles \in Nat

VARIABLES
  there,     \* the devices the system has
  faulty,    \* the devices that fail
  dpc,       \* where DISKCHECK is: "idle", "smart", "refresh", "cciss", "md", "check"
  listed,    \* drives smartctl listed that have not been made a device yet
  map,       \* the devices enumerated
  errors,    \* those with a GetError() that is not empty
  left,      \* those the loop has not come to yet
  sent,      \* those packed into the segment
  touched,   \* history: devices that changed during this call
  wasFaulty, \* history: devices that were faulty at some time during this call
  unread,    \* history: "scan" and the devices whose commands failed in this call
  troubles   \* how many there were

system     == <<there, faulty, touched, wasFaulty>>
history    == <<unread, troubles>>
deviceVars == <<system, dpc, listed, map, errors, left, sent, history>>

DeviceInit ==
  /\ there = Devices /\ faulty \in SUBSET Devices
  /\ dpc = "idle"
  /\ listed = {} /\ map = {} /\ errors = {} /\ left = {} /\ sent = {}
  /\ touched = {} /\ wasFaulty = {} /\ unread = {} /\ troubles = 0

Moves(from, to) == dpc = from /\ dpc' = to

Trouble == troubles < MaxTroubles /\ troubles' = troubles + 1

-----------------------------------------------------------------------------
Call ==
  /\ Moves("idle", "smart")
  /\ map' = {} /\ errors' = {} /\ left' = {} /\ sent' = {} /\ listed' = {}
  /\ touched' = {} /\ wasFaulty' = faulty /\ unread' = {}
  /\ UNCHANGED <<there, faulty, troubles>>

\* smartctl --scan-open; RunCommand fails if it cannot fork.
EnumerateSMART ==
  /\ Moves("smart", "refresh")
  /\ \/ /\ listed' = Drives \cap there
        /\ UNCHANGED history
     \/ /\ Trouble
        /\ unread' = unread \cup {"scan"}
        /\ UNCHANGED listed
  /\ UNCHANGED <<system, map, errors, left, sent>>

\* map.insert keeps the drive that is there under the name: of the drives behind
\* one node only the first is a device.
Inserted(d) == IF Node[d] \in {Node[e] : e \in map} THEN map ELSE map \cup {d}

\* The constructor calls Refresh, which sees nothing but a denied permission
\* as an error.
MakeSMART ==
  /\ dpc = "refresh"
  /\ \E d \in listed :
       /\ listed' = listed \ {d}
       /\ map' = Inserted(d)
       /\ \/ UNCHANGED <<errors, history>>
          \/ /\ Trouble
             /\ errors' = errors \cup {d}
             /\ unread' = unread \cup {d}
  /\ UNCHANGED <<system, dpc, left, sent>>

\* What Refresh returns to the constructor is not looked at, and IsOK refreshes
\* again.
EnumerateCCISS ==
  /\ Moves("refresh", "md")
  /\ listed = {}
  /\ map' = map \cup (Volumes \cap there)
  /\ UNCHANGED <<system, listed, errors, left, sent, history>>

EnumerateMD ==
  /\ Moves("md", "check")
  /\ map' = map \cup (Arrays \cap there)
  /\ left' = map'
  /\ UNCHANGED <<system, listed, errors, sent, history>>

\* The loop passes over a device with an error.
Skip ==
  /\ dpc = "check"
  /\ \E d \in left \cap errors : left' = left \ {d}
  /\ UNCHANGED <<system, dpc, listed, map, errors, sent, history>>

\* Mutant: the expression is not anchored to the line of the array.
Fine_AnyArray(d) ==
  /\ d \in there /\ d \notin faulty /\ d \notin Silent
  /\ d \in Arrays => faulty \cap Arrays = {}

\* IsOK: there is a status and it says so.  Of an array without redundancy
\* mdstat has none, nor has smartctl of a drive without SMART.
Fine(d) == d \in there /\ d \notin faulty /\ d \notin Silent

\* Mutant: a failure of the command is passed over like an error.
Check_SkipsFailures ==
  /\ dpc = "check"
  /\ \E d \in left \ errors :
       /\ left' = left \ {d}
       /\ \/ /\ sent' = IF Fine(d) THEN sent ELSE sent \cup {d}
             /\ UNCHANGED history
          \/ /\ d \notin Arrays /\ Trouble
             /\ UNCHANGED <<unread, sent>>
  /\ UNCHANGED <<system, dpc, listed, map, errors>>

\* A command that fails leaves no status, which is not OK; /proc/mdstat can
\* always be read.
Check ==
  /\ dpc = "check"
  /\ \E d \in left \ errors :
       /\ left' = left \ {d}
       /\ \/ /\ sent' = IF Fine(d) THEN sent ELSE sent \cup {d}
             /\ UNCHANGED history
          \/ /\ d \notin Arrays /\ Trouble
             /\ unread' = unread \cup {d}
             /\ sent' = sent \cup {d}
  /\ UNCHANGED <<system, dpc, listed, map, errors>>

Return ==
  /\ Moves("check", "idle")
  /\ left = {}
  /\ UNCHANGED <<system, listed, map, errors, left, sent, history>>

DISKCHECK ==
  \/ Call
  \/ EnumerateSMART \/ MakeSMART \/ EnumerateCCISS \/ EnumerateMD
  \/ Skip \/ Check \/ Return

-----------------------------------------------------------------------------
FailsOrRecovers ==
  /\ Trouble
  /\ \E d \in there :
       /\ faulty' = IF d \in faulty THEN faulty \ {d} ELSE faulty \cup {d}
       /\ touched' = touched \cup {d}
  /\ wasFaulty' = wasFaulty \cup faulty'
  /\ UNCHANGED <<there, dpc, listed, map, errors, left, sent, unread>>

ComesOrGoes ==
  /\ Trouble
  /\ \E d \in Devices :
       /\ there' = IF d \in there THEN there \ {d} ELSE there \cup {d}
       /\ touched' = touched \cup {d}
  /\ UNCHANGED <<faulty, wasFaulty, dpc, listed, map, errors, left, sent, unread>>

DeviceNext == DISKCHECK \/ FailsOrRecovers \/ ComesOrGoes

DeviceSpec == DeviceInit /\ [][DeviceNext]_deviceVars

-----------------------------------------------------------------------------
\* When DISKCHECK returns, a device that was there and faulty all the time has
\* been sent, but for a scan that failed, a permission that was denied and a
\* drive whose node another one took.
FaultsSent ==
  dpc = "check" /\ left = {} =>
    \A d \in (there \cap faulty) \ touched :
      \/ d \in sent
      \/ d \in Drives /\ "scan" \in unread
      \/ \E e \in Drives \cap (map \ {d}) : d \in Drives /\ Node[e] = Node[d]
      \/ d \in errors

\* A device that is sent was faulty at some time during the call, or it came or
\* went, has no status, or its command failed.
SentForAReason ==
  sent \subseteq wasFaulty \cup touched \cup Silent \cup unread

\* "dont send devices that are not faulting" (armt.cc:66)
SentIsFaulting == sent \subseteq wasFaulty
=============================================================================
