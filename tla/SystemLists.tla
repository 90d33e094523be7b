---------------------------- MODULE SystemLists ----------------------------
(***************************************************************************)
(* CProcInfo and CPCIInfo (common/CProcInfo.cc, CPCIInfo.cc): the lists of *)
(* processes, of bound sockets, of those of a process and of PCI devices,  *)
(* each read once from /proc or /sys and kept, until ClearCache or for     *)
(* good.  A list is modelled by the state of its cache: whether it has     *)
(* been read, and its entries.                                             *)
(***************************************************************************)
EXTENDS Integers, SequencesExt

Unread == [got |-> FALSE, list |-> <<>>]

\* Mutant: a list is read again by every call.
Get_Rereads(cache, found) == [got |-> TRUE, list |-> cache.list \o found]

\* GetProcessList, GetBoundList, GetDeviceList: what there is now is added once;
\* it is nothing if the directory cannot be opened, and stays so.
Get(cache, found) ==
  IF cache.got THEN cache ELSE [got |-> TRUE, list |-> cache.list \o found]

\* empty() tells whether the list is empty: the entries stay.
ClearCache(cache) == [cache EXCEPT !.got = FALSE]

\* The entries that count, in their order: each adds itself or nothing.
Those(entries, Counts(_)) ==
  FlattenSeq([i \in DOMAIN entries |-> IF Counts(entries[i]) THEN <<entries[i]>> ELSE <<>>])

\* The entries of /proc that are processes: the name is a number and the
\* program can be seen (not that of a kernel thread).
ProcessList(entries) == Those(entries, LAMBDA e : e.numeric /\ e.exe)

\* The bit of a number with the value v.
Bit(n, v) == (n \div v) % 2 = 1

\* A line of /proc/net/tcp or udp is a binding if it has no peer and is in a
\* state with one of the bits of 0xA: listening (10), or an unconnected UDP socket (7).  A
\* line of /proc/net/unix is one if it has a path and state 1.
Binding(line) ==
  IF line.type = "unix" THEN line.path /\ line.state = 1
  ELSE line.remote = 0 /\ (Bit(line.state, 2) \/ Bit(line.state, 8))

BoundList(lines) == Those(lines, Binding)

\* For each socket among the descriptors of a process the first binding with its
\* number.
BoundTo(sockets, bindings) ==
  LET First(socket) == SelectInSeq(bindings, LAMBDA b : b.socket = socket)
  IN  FlattenSeq([i \in DOMAIN sockets |->
                    IF First(sockets[i]) = 0 THEN <<>> ELSE <<bindings[First(sockets[i])]>>])

\* The caches of the bindings and of those of a process, m_gotBoundList.
NoneRead == [bindings |-> Unread, process |-> Unread]

GetBoundList(caches, lines) ==
  [caches EXCEPT !.bindings = Get(caches.bindings, BoundList(lines))]

\* CProcess::GetBoundList: the bindings are asked for only if its descriptors can
\* be read.
ProcessGetBoundList(caches, now) ==
  LET asked == GetBoundList(caches, now.lines)
  IN  IF caches.process.got THEN caches
      ELSE IF ~now.readable THEN [caches EXCEPT !.process.got = TRUE]
      ELSE [asked EXCEPT !.process =
              Get(caches.process, BoundTo(now.sockets, asked.bindings.list))]

\* SimpleReadUInt16 refuses a number that is too large, and the device is left
\* out, as one whose files cannot be read.
DeviceList(found) ==
  Those(found, LAMBDA d : d.readable /\ d.vendor < 65536 /\ d.device < 65536)
=============================================================================
