------------------------------ MODULE KeyStore ------------------------------
(***************************************************************************)
(* CMessageBuilder::InitAuth (common/CMessageBuilder.cc): the RSA key that *)
(* tells the server which client it talks to is made by the first run of   *)
(* the program and kept in ssl/private.pem for the later ones.             *)
(*                                                                         *)
(* The file is a state of the disk that outlives the process, which may    *)
(* be killed between any two calls; the eight numbers of the key stay in   *)
(* the buffer of the FILE until fclose, which writes them at once.  The    *)
(* power may fail before the kernel has written its own buffers.           *)
(***************************************************************************)
EXTENDS Integers, FiniteSets

CONSTANTS
  Fields,      \* the numbers of a key in the file, 8
  MaxKeys,     \* bound: keys generated
  MaxLosses,   \* bound: power failures that change the file
  NoFile, NoKey

ASSUME KeyStoreAssumption ==
  /\ Fields \in Nat \ {0}
  /\ MaxKeys \in Nat /\ MaxLosses \in Nat
  /\ NoFile \notin [id : Nat, fields : Nat, cut : BOOLEAN]

VARIABLES
  file,       \* private.pem: whose key, how many numbers, and a piece of the next
  synced,     \* the disk has the file as the kernel knows it
  kpc,        \* where InitAuth is; "down": no process, "ready": InitAuth returned
  m_rsa,      \* the key in memory, as it would be read from the file
  generated,  \* keys generated so far
  used,       \* history: the keys the program has got past InitAuth with
  losses      \* history: power failures that changed the file

disk    == <<file, synced>>
process == <<kpc, m_rsa>>
history == <<generated, used, losses>>
vars    == <<disk, process, history>>

Content(id, fields, cut) == [id |-> id, fields |-> fields, cut |-> cut]
Whole(id) == Content(id, Fields, FALSE)

\* What a file that is cut off somewhere may hold.
Cut(id) == {Content(id, n, c) : n \in 0..(Fields - 1), c \in BOOLEAN}

Init ==
  /\ file = NoFile /\ synced = TRUE
  /\ kpc = "down" /\ m_rsa = NoKey
  /\ generated = 0 /\ used = {} /\ losses = 0

Goes(from, to) == kpc = from /\ kpc' = to

-----------------------------------------------------------------------------
Start ==
  /\ Goes("down", "dir")
  /\ UNCHANGED <<disk, m_rsa, history>>

\* The directory ssl is there or can be made.
DirReady ==
  /\ Goes("dir", "check")
  /\ UNCHANGED <<disk, m_rsa, history>>

\* An assertion fails, or the process is killed or exits: memory is gone.
Stop ==
  /\ kpc # "down"
  /\ kpc' = "down"
  /\ m_rsa' = NoKey
  /\ UNCHANGED <<disk, history>>

\* There is no private.pem.
Generate ==
  /\ Goes("check", "open")
  /\ file = NoFile
  /\ generated < MaxKeys
  /\ generated' = generated + 1
  /\ m_rsa' = Whole(generated + 1)
  /\ UNCHANGED <<disk, used, losses>>

\* fopen makes the file, still empty.
OpenFile ==
  /\ Goes("open", "write")
  /\ file' = Content(m_rsa.id, 0, FALSE)
  /\ synced' = FALSE
  /\ UNCHANGED <<m_rsa, history>>

\* The numbers go to the buffer, and fclose writes it, or as much of it as the
\* disk takes: what fclose returns is not looked at.
WriteAndClose ==
  /\ Goes("write", "chmod")
  /\ file' \in {Whole(m_rsa.id)} \cup Cut(m_rsa.id)
  /\ synced' = FALSE
  /\ UNCHANGED <<m_rsa, history>>

Secure ==
  /\ Goes("chmod", "ready")
  /\ used' = used \cup {m_rsa.id}
  /\ UNCHANGED <<disk, m_rsa, generated, losses>>

\* Mutant: the program goes on with the key it has removed.
SecureFails_GoesOn ==
  /\ Goes("chmod", "ready")
  /\ file' = NoFile
  /\ used' = used \cup {m_rsa.id}
  /\ UNCHANGED <<synced, m_rsa, generated, losses>>

\* chmod fails: the file is removed again and the assertion fails.
SecureFails ==
  /\ Goes("chmod", "down")
  /\ file' = NoFile
  /\ m_rsa' = NoKey
  /\ UNCHANGED <<synced, history>>

LoadBegins ==
  /\ Goes("check", "load")
  /\ file # NoFile
  /\ UNCHANGED <<disk, m_rsa, history>>

\* mpi_read_file finds a line for each number; it takes the piece of a line
\* for a number too.
Loadable == file.fields + (IF file.cut THEN 1 ELSE 0) = Fields

\* Otherwise the assertion fails (Stop).
Load ==
  /\ Goes("load", "ready")
  /\ Loadable
  /\ m_rsa' = file
  /\ used' = used \cup {file.id}
  /\ UNCHANGED <<disk, generated, losses>>

InitAuth ==
  \/ DirReady \/ Generate \/ OpenFile \/ WriteAndClose
  \/ Secure \/ SecureFails \/ LoadBegins \/ Load

-----------------------------------------------------------------------------
\* The kernel writes its buffers to the disk.
Sync ==
  /\ ~synced
  /\ synced' = TRUE
  /\ UNCHANGED <<file, process, history>>

\* The power fails before that: the file is cut off or was never there.
PowerFails ==
  /\ ~synced /\ file # NoFile
  /\ losses < MaxLosses
  /\ losses' = losses + 1
  /\ file' \in {NoFile} \cup Cut(file.id)
  /\ synced' = TRUE
  /\ kpc' = "down" /\ m_rsa' = NoKey
  /\ UNCHANGED <<generated, used>>

Next == Start \/ InitAuth \/ Stop \/ Sync \/ PowerFails

Spec == Init /\ [][Next]_vars

-----------------------------------------------------------------------------
Contents == [id : 1..MaxKeys, fields : 0..Fields, cut : BOOLEAN]

TypeOK ==
  /\ file \in Contents \cup {NoFile}
  /\ synced \in BOOLEAN
  /\ kpc \in {"down", "dir", "check", "open", "write", "chmod", "load", "ready"}
  /\ m_rsa \in IF kpc \in {"down", "dir", "check", "load"} THEN {NoKey} ELSE Contents
  /\ generated \in 0..MaxKeys
  /\ used \subseteq 1..generated
  /\ losses \in 0..MaxLosses

\* The server sees one client: wherever the process was killed, whatever failed
\* and however often it was started again, every run that gets past InitAuth
\* has the same key, but for a power failure that took the file.
OneIdentity == Cardinality(used) <= 1 + losses

\* "check if we have an RSA key, and if not generate one"
\* (CMessageBuilder.cc:121): a run that goes on to load finds a key.  It does not
\* have to: a file is enough, and a crash may have cut it off.
KeyOrGenerate == kpc = "load" => file \in {Whole(id) : id \in 1..generated}

\* "save the key off" (CMessageBuilder.cc:126): a run that gets past InitAuth
\* leaves its key in the file.  Not if a write came short.
KeySaved == kpc = "ready" => file = m_rsa

\* "load the private key" (CMessageBuilder.cc:151): the key a run gets past
\* InitAuth with is one that was generated.  Not if its last number was cut off.
LoadedAsGenerated == kpc = "ready" => m_rsa = Whole(m_rsa.id)
=============================================================================
