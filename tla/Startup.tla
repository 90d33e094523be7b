------------------------------ MODULE Startup ------------------------------
(***************************************************************************)
(* CCommon::Initialize (common/CCommon.cc) before CMessageBuilder's        *)
(* InitAuth: every start of the program unpacks the programs it later runs *)
(* (smartctl, megactl, ...) into bin/.  A run may be killed and leave a    *)
(* child behind that still executes one of them, so that the file cannot   *)
(* be opened for writing; the program may be replaced by a newer one       *)
(* between two runs; the power may fail.                                   *)
(*                                                                         *)
(* What WriteExe returns is not looked at by Initialize.                   *)
(***************************************************************************)
EXTENDS KeyStore, Sequences

CONSTANTS
  Utilities,    \* in the order they are unpacked in
  MaxVersions,  \* bound: versions of the program
  Absent        \* there is no such file

ASSUME StartupAssumption ==
  /\ MaxVersions \in Nat \ {0}
  /\ Len(Utilities) \in Nat /\ \A i, j \in 1..Len(Utilities) : Utilities[i] = Utilities[j] => i = j
  /\ Absent \notin [version : Nat, whole : BOOLEAN, executable : BOOLEAN]

VARIABLES
  bin,      \* the files of the utilities
  dirty,    \* those the disk does not have as the kernel knows them
  at,       \* the utility being unpacked; 0: Initialize is not running
  stage,    \* "open", "write", "chmod": where WriteExe is
  met,      \* what WriteExe met in this run: "busy", "error" or "mode", for
            \* an open, a write or a chmod that failed; else "nothing"
  busy,     \* the utilities that a process executes
  version   \* of the program

unpacking   == <<at, stage, met>>
startupVars == <<vars, bin, dirty, unpacking, busy, version>>

Names   == {Utilities[i] : i \in 1..Len(Utilities)}
Current == Utilities[at]

Exe(v, whole, x) == [version |-> v, whole |-> whole, executable |-> x]
Executable(name) == bin[name] # Absent /\ bin[name].executable

StartupInit ==
  /\ Init
  /\ bin = [n \in Names |-> Absent] /\ dirty = {}
  /\ at = 0 /\ stage = "open" /\ met = [n \in Names |-> "nothing"]
  /\ busy = {} /\ version = 1

-----------------------------------------------------------------------------
\* The program starts and changes to its base directory; bin is there or is made.
Launch ==
  /\ kpc = "down" /\ at = 0
  /\ at' = 1 /\ stage' = "open" /\ met' = [n \in Names |-> "nothing"]
  /\ UNCHANGED <<vars, bin, dirty, busy, version>>

WriteExeAt(s) == at \in 1..Len(Utilities) /\ stage = s

\* WriteExe returns.
Unpacked == at' = at + 1 /\ stage' = "open"

\* Mutant: a utility that is there is not unpacked again.
OpenExe_IfMissing ==
  /\ WriteExeAt("open") /\ Current \notin busy
  /\ IF bin[Current] # Absent
       THEN Unpacked /\ UNCHANGED <<bin, dirty, met>>
       ELSE /\ bin' = [bin EXCEPT ![Current] = Exe(version, FALSE, FALSE)]
            /\ dirty' = dirty \cup {Current}
            /\ stage' = "write" /\ UNCHANGED <<at, met>>
  /\ UNCHANGED <<vars, busy, version>>

\* fopen makes the file, or empties it; the mode of an old one stays.
OpenExe ==
  /\ WriteExeAt("open") /\ Current \notin busy
  /\ bin' = [bin EXCEPT ![Current] = Exe(version, FALSE, Executable(Current))]
  /\ dirty' = dirty \cup {Current}
  /\ stage' = "write"
  /\ UNCHANGED <<vars, at, met, busy, version>>

\* ETXTBSY if the file is being executed, or another error.
OpenExeFails ==
  /\ WriteExeAt("open")
  /\ met' = [met EXCEPT ![Current] = IF Current \in busy THEN "busy" ELSE "error"]
  /\ Unpacked
  /\ UNCHANGED <<vars, bin, dirty, busy, version>>

WriteExe ==
  /\ WriteExeAt("write")
  /\ bin' = [bin EXCEPT ![Current].whole = TRUE]
  /\ stage' = "chmod"
  /\ UNCHANGED <<vars, dirty, at, met, busy, version>>

\* fwrite comes short and WriteExe returns, or fclose does and it does not notice.
WriteExeShort ==
  /\ WriteExeAt("write")
  /\ met' = [met EXCEPT ![Current] = "error"]
  /\ Unpacked \/ (stage' = "chmod" /\ at' = at)
  /\ UNCHANGED <<vars, bin, dirty, busy, version>>

MakeExecutable ==
  /\ WriteExeAt("chmod")
  /\ bin' = [bin EXCEPT ![Current].executable = TRUE]
  /\ Unpacked
  /\ UNCHANGED <<vars, dirty, met, busy, version>>

\* chmod fails, and the file keeps the mode that it had.
MakeExecutableFails ==
  /\ WriteExeAt("chmod")
  /\ met' = [met EXCEPT ![Current] = IF @ = "error" THEN "error" ELSE "mode"]
  /\ Unpacked
  /\ UNCHANGED <<vars, bin, dirty, busy, version>>

\* Initialize returns and InitAuth begins.
Initialized ==
  /\ at = Len(Utilities) + 1
  /\ Start
  /\ at' = 0
  /\ UNCHANGED <<bin, dirty, stage, met, busy, version>>

-----------------------------------------------------------------------------
\* RunCommand, which the program that is up calls on a utility: the kernel
\* executes what is there, be it all of the utility or not.
ChildStarts ==
  /\ kpc = "ready"
  /\ \E n \in Names \ busy :
       /\ Executable(n)
       /\ busy' = busy \cup {n}
  /\ UNCHANGED <<vars, bin, dirty, unpacking, version>>

ChildEnds ==
  /\ \E n \in busy : busy' = busy \ {n}
  /\ UNCHANGED <<vars, bin, dirty, unpacking, version>>

\* The process is killed before InitAuth, in it or after it.
Killed ==
  /\ IF at # 0 THEN at' = 0 /\ UNCHANGED vars ELSE Stop /\ at' = at
  /\ UNCHANGED <<bin, dirty, stage, met, busy, version>>

Upgrade ==
  /\ kpc = "down" /\ at = 0 /\ version < MaxVersions
  /\ version' = version + 1
  /\ UNCHANGED <<vars, bin, dirty, unpacking, busy>>

InitAuthSteps ==
  /\ InitAuth \/ Sync
  /\ UNCHANGED <<bin, dirty, unpacking, busy, version>>

SyncExe ==
  /\ \E n \in dirty : dirty' = dirty \ {n}
  /\ UNCHANGED <<vars, bin, unpacking, busy, version>>

\* The power fails: the key file survives or not (PowerFails), and so does any
\* of the utilities that the disk does not have.
PowerCut ==
  /\ PowerFails \/ (kpc' = "down" /\ m_rsa' = NoKey /\ synced' = TRUE /\ UNCHANGED <<file, history>>)
  /\ \E lost \in SUBSET dirty :
       bin' = [n \in Names |-> IF n \in lost THEN [bin[n] EXCEPT !.whole = FALSE] ELSE bin[n]]
  /\ dirty' = {} /\ busy' = {} /\ at' = 0
  /\ UNCHANGED <<stage, met, version>>

Initialize ==
  \/ Launch \/ OpenExe \/ OpenExeFails \/ WriteExe \/ WriteExeShort
  \/ MakeExecutable \/ MakeExecutableFails \/ Initialized

StartupNext ==
  \/ Initialize \/ InitAuthSteps
  \/ ChildStarts \/ ChildEnds \/ Killed \/ Upgrade \/ SyncExe \/ PowerCut

StartupSpec == StartupInit /\ [][StartupNext]_startupVars

-----------------------------------------------------------------------------
\* Wherever earlier runs were killed and whatever they or a power failure left
\* in bin, a program that is up has every utility whole, executable and of its
\* own version if WriteExe met nothing in this run; whole and of its own version
\* if only chmod failed; and executable if a process of an earlier run still
\* executes it, which nothing that was done to bin since has changed.
UtilitiesWhole ==
  kpc = "ready" =>
    \A n \in Names :
      /\ met[n] = "nothing" => bin[n] = Exe(version, TRUE, TRUE)
      /\ met[n] = "mode"    => bin[n] # Absent /\ bin[n].whole /\ bin[n].version = version
      /\ met[n] = "busy"    => Executable(n)
=============================================================================
