----------------------------- MODULE RunCommand -----------------------------
(***************************************************************************)
(* CCommon::RunCommand (common/CCommon.cc): a child process runs one of    *)
(* the embedded utilities, the parent collects what it and the processes   *)
(* it starts write to standard output and error, and reaps it.             *)
(*                                                                         *)
(* Parent, child and a process the child may leave behind run at the same  *)
(* time and share the pipe.  The output is a sequence of numbered pieces.  *)
(***************************************************************************)
EXTENDS Integers, Sequences

CONSTANTS
  PipeSize,   \* pieces the pipe holds
  MaxOutput,  \* bound: pieces written during a call
  MaxFD,      \* descriptors the process may have open
  MaxCalls    \* bound: calls

ASSUME RunCommandAssumption ==
  /\ PipeSize \in Nat \ {0}
  /\ MaxOutput \in Nat /\ MaxFD \in Nat /\ MaxCalls \in Nat

VARIABLES
  ppc,      \* the parent: "idle", "fork", "close", "read" or "wait"
  fds,      \* descriptors the parent has open
  writers,  \* who has the write end of the pipe open
  pipe,     \* the pieces in it
  child,    \* "none", "running", "zombie" or "reaped"
  late,     \* the process the child left behind: "none" or "running"
  written,  \* history: pieces written during this call
  result,   \* what the parent has collected
  returned, \* what the last call returned: "none", "true" or "false"
  failed,   \* history: calls in which fork failed
  calls

parent  == <<ppc, fds, result, returned, failed, calls>>
command == <<child, late, written>>
vars    == <<parent, writers, pipe, command>>

Init ==
  /\ ppc = "idle" /\ fds = 0 /\ result = <<>> /\ returned = "none"
  /\ failed = 0 /\ calls = 0
  /\ writers = {} /\ pipe = <<>>
  /\ child = "none" /\ late = "none" /\ written = 0

-----------------------------------------------------------------------------
(* The parent                                                              *)

\* There are two descriptors left for the pipe (what pipe returns is not
\* looked at; the calls that find none are left out).
MakePipe ==
  /\ ppc = "idle" /\ calls < MaxCalls
  /\ fds + 2 <= MaxFD
  /\ ppc' = "fork"
  /\ fds' = fds + 2
  /\ calls' = calls + 1
  /\ pipe' = <<>> /\ written' = 0 /\ child' = "none"
  /\ UNCHANGED <<result, returned, failed, writers, late>>

\* The pipe stays open.
ForkFails ==
  /\ ppc = "fork"
  /\ ppc' = "idle"
  /\ returned' = "false"
  /\ failed' = failed + 1
  /\ UNCHANGED <<fds, result, calls, writers, pipe, command>>

Fork ==
  /\ ppc = "fork"
  /\ ppc' = "close"
  /\ child' = "running"
  /\ writers' = {"parent", "child"}
  /\ UNCHANGED <<fds, result, returned, failed, calls, pipe, late, written>>

\* Mutant: the child is waited for before its output is read.
CloseWriteEnd_WaitsFirst ==
  /\ ppc = "close"
  /\ child = "zombie"
  /\ ppc' = "read"
  /\ writers' = writers \ {"parent"}
  /\ fds' = fds - 1
  /\ result' = <<>>
  /\ UNCHANGED <<returned, failed, calls, pipe, command>>

CloseWriteEnd ==
  /\ ppc = "close"
  /\ ppc' = "read"
  /\ writers' = writers \ {"parent"}
  /\ fds' = fds - 1
  /\ result' = <<>>
  /\ UNCHANGED <<returned, failed, calls, pipe, command>>

\* read returns some of what is there.
Read ==
  /\ ppc = "read"
  /\ \E n \in 1..Len(pipe) :
       /\ result' = result \o SubSeq(pipe, 1, n)
       /\ pipe' = SubSeq(pipe, n + 1, Len(pipe))
  /\ UNCHANGED <<ppc, fds, returned, failed, calls, writers, command>>

\* Mutant: the parent reads until the child has ended.
ReadEnd_ChildEnded ==
  /\ ppc = "read"
  /\ child = "zombie"
  /\ ppc' = "wait"
  /\ UNCHANGED <<fds, result, returned, failed, calls, writers, pipe, command>>

\* read returns 0: the pipe is empty and everyone has closed the write end.
\* An error would end the loop in the same way, but read of one's own pipe has
\* none: the program handles no signals that could interrupt it.
ReadEnd ==
  /\ ppc = "read"
  /\ pipe = <<>> /\ writers = {}
  /\ ppc' = "wait"
  /\ UNCHANGED <<fds, result, returned, failed, calls, writers, pipe, command>>

\* Mutant: the read end is left open.
Wait_NoClose ==
  /\ ppc = "wait"
  /\ child = "zombie"
  /\ child' = "reaped"
  /\ ppc' = "idle"
  /\ returned' = "true"
  /\ UNCHANGED <<fds, result, failed, calls, writers, pipe, late, written>>

\* waitpid and close; true whatever the command's status is.  An error of
\* waitpid would end the loop too, but the child is there until it is reaped.
Wait ==
  /\ ppc = "wait"
  /\ child = "zombie"
  /\ child' = "reaped"
  /\ ppc' = "idle"
  /\ fds' = fds - 1
  /\ returned' = "true"
  /\ UNCHANGED <<result, failed, calls, writers, pipe, late, written>>

Parent ==
  \/ MakePipe \/ ForkFails \/ Fork \/ CloseWriteEnd
  \/ Read \/ ReadEnd \/ Wait

-----------------------------------------------------------------------------
(* The child and what it starts                                            *)

\* A process that has the write end open writes, if there is room.
Writes ==
  /\ writers \cap {"child", "late"} # {}
  /\ written < MaxOutput
  /\ Len(pipe) < PipeSize
  /\ written' = written + 1
  /\ pipe' = Append(pipe, written + 1)
  /\ UNCHANGED <<parent, writers, child, late>>

\* The child starts a process that inherits the pipe.
Spawns ==
  /\ child = "running" /\ "child" \in writers
  /\ late = "none"
  /\ late' = "running"
  /\ writers' = writers \cup {"late"}
  /\ UNCHANGED <<parent, pipe, child, written>>

\* A process closes its standard output and error and goes on.
ClosesOutput ==
  /\ \E w \in writers \ {"parent"} : writers' = writers \ {w}
  /\ UNCHANGED <<parent, pipe, command>>

\* The command ends or is killed, or could not be executed.
Exits ==
  /\ child = "running"
  /\ child' = "zombie"
  /\ writers' = writers \ {"child"}
  /\ UNCHANGED <<parent, pipe, late, written>>

LateExits ==
  /\ late = "running"
  /\ late' = "none"
  /\ writers' = writers \ {"late"}
  /\ UNCHANGED <<parent, pipe, child, written>>

Command == Writes \/ Spawns \/ ClosesOutput \/ Exits \/ LateExits

Next == Parent \/ Command

Spec == Init /\ [][Next]_vars

\* The pipe takes what is left to write; a process is blocked otherwise.
NotBlocked == written = MaxOutput \/ Len(pipe) < PipeSize

-----------------------------------------------------------------------------
TypeOK ==
  /\ ppc \in {"idle", "fork", "close", "read", "wait"}
  /\ fds \in 0..MaxFD
  /\ writers \subseteq {"parent", "child", "late"}
  /\ pipe \in Seq(1..MaxOutput) /\ Len(pipe) <= PipeSize
  /\ child \in {"none", "running", "zombie", "reaped"}
  /\ late \in {"none", "running"}
  /\ written \in 0..MaxOutput
  /\ result \in Seq(1..MaxOutput)
  /\ returned \in {"none", "true", "false"}
  /\ failed \in 0..calls /\ calls \in 0..MaxCalls

\* A call that returned true has collected all that the command and what it
\* started have written, in order.
OutputWhole ==
  ppc = "idle" /\ returned = "true" => result = [i \in 1..written |-> i]

\* Between the calls the parent has no descriptors open but those of the calls
\* in which fork failed, and no child is left unreaped.
LeavesNothing ==
  ppc = "idle" => fds = 2 * failed /\ child \notin {"running", "zombie"}

\* The parent and the command never wait for each other: a call returns, also
\* when there is more output than the pipe holds.
CallReturns == ppc # "idle" ~> ppc = "idle"
=============================================================================
