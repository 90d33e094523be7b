--------------------------- MODULE StartupProofs ----------------------------
(***************************************************************************)
(* Startup's safety properties for every list of utilities, any number of  *)
(* keys, power failures and versions.                                      *)
(***************************************************************************)
EXTENDS Startup, FiniteSetTheorems, TLAPS

-----------------------------------------------------------------------------
(* The key                                                                 *)

\* A key that is in the file has been used, or may be by the next run: it is
\* counted as if it had been.  While there is none, or while a run is making a
\* new one, those used were all lost.
KeyInv ==
  /\ IsFiniteSet(used)
  /\ losses \in Nat /\ generated \in Nat
  /\ file # NoFile => file.id \in Nat
  /\ kpc = "open" => file = NoFile /\ m_rsa.id \in Nat
  /\ kpc = "load" => file # NoFile
  /\ kpc \in {"write", "chmod"} => file # NoFile /\ file.id = m_rsa.id
  /\ file = NoFile \/ kpc \in {"open", "write", "chmod"} => Cardinality(used) <= losses
  /\ file # NoFile => Cardinality(used \cup {file.id}) <= 1 + losses

\* One more key counts one more, or nothing.
LEMMA OneMore ==
  ASSUME NEW S, IsFiniteSet(S), NEW x
  PROVE  /\ IsFiniteSet(S \cup {x})
         /\ Cardinality(S) \in Nat
         /\ Cardinality(S \cup {x}) \in Nat
         /\ Cardinality(S) <= Cardinality(S \cup {x})
         /\ Cardinality(S \cup {x}) <= Cardinality(S) + 1
<1>1. IsFiniteSet(S \cup {x}) /\ Cardinality(S \cup {x}) = IF x \in S THEN Cardinality(S) ELSE Cardinality(S) + 1
  BY FS_AddElement
<1>2. Cardinality(S) \in Nat
  BY FS_CardinalityType
<1> QED
  BY <1>1, <1>2

\* What is written to the file has an identity, and is a file.
LEMMA ContentIsFile ==
  ASSUME NEW id \in Nat, NEW n \in Nat, NEW c \in BOOLEAN
  PROVE  Content(id, n, c) # NoFile /\ Content(id, n, c).id = id
BY KeyStoreAssumption DEF Content

\* KeyInv is true at first.
LEMMA KeyInvInit == Init => KeyInv
<1> SUFFICES ASSUME Init PROVE KeyInv
  OBVIOUS
<1>1. IsFiniteSet({}) /\ Cardinality({}) = 0
  BY FS_EmptySet
<1> QED
  BY <1>1 DEF Init, KeyInv

\* A step of InitAuth that leaves the file and the keys used alone keeps KeyInv,
\* if it goes on to a stage in which no key is being made.
LEMMA KeyInvKept ==
  ASSUME KeyInv, UNCHANGED <<file, generated, used, losses>>,
         kpc' \notin {"open", "write", "chmod"}, kpc' = "load" => file # NoFile
  PROVE  KeyInv'
<1>1. file = NoFile => Cardinality(used) <= losses
  BY DEF KeyInv
<1> QED
  BY <1>1 DEF KeyInv

\* Every step of InitAuth, and the end of the process in it, keeps KeyInv.
LEMMA KeyInvInitAuth ==
  ASSUME KeyInv, InitAuth \/ Start \/ Stop \/ Sync
  PROVE  KeyInv'
<1>0. IsFiniteSet(used) /\ losses \in Nat /\ generated \in Nat
  BY DEF KeyInv
<1>1. CASE Start \/ DirReady \/ LoadBegins \/ Stop
  <2>1. UNCHANGED <<file, generated, used, losses>> /\ kpc' \notin {"open", "write", "chmod"}
        /\ (kpc' = "load" => file # NoFile)
    BY <1>1 DEF Start, DirReady, LoadBegins, Stop, Goes, disk, history
  <2> QED
    BY <2>1, KeyInvKept
<1>2. CASE Sync
  BY <1>2 DEF Sync, KeyInv, process, history
<1>3. CASE Generate
  <2>1. Whole(generated + 1).id \in Nat
    BY <1>0 DEF Whole, Content
  <2> QED
    BY <1>3, <2>1 DEF Generate, Goes, KeyInv, disk
<1>4. CASE OpenFile
  <2>1. kpc = "open" /\ kpc' = "write" /\ UNCHANGED <<m_rsa, generated, used, losses>>
        /\ file' = Content(m_rsa.id, 0, FALSE)
    BY <1>4 DEF OpenFile, Goes, history
  <2>2. m_rsa.id \in Nat /\ Cardinality(used) <= losses
    BY <2>1 DEF KeyInv
  <2>3. file' # NoFile /\ file'.id = m_rsa.id
    BY <2>1, <2>2, ContentIsFile
  <2>4. Cardinality(used \cup {m_rsa.id}) <= 1 + losses
    <3>1. /\ Cardinality(used) \in Nat /\ Cardinality(used \cup {m_rsa.id}) \in Nat
          /\ Cardinality(used \cup {m_rsa.id}) <= Cardinality(used) + 1
      BY <1>0, OneMore
    <3> QED
      BY <1>0, <2>2, <3>1
  <2> QED
    BY <1>0, <2>1, <2>2, <2>3, <2>4 DEF KeyInv
<1>5. CASE WriteAndClose
  <2>1. kpc = "write" /\ kpc' = "chmod" /\ UNCHANGED <<m_rsa, generated, used, losses>>
    BY <1>5 DEF WriteAndClose, Goes, history
  <2>2. m_rsa.id \in Nat /\ Cardinality(used) <= losses
        /\ Cardinality(used \cup {m_rsa.id}) <= 1 + losses
    BY <2>1 DEF KeyInv
  <2>3. file' # NoFile /\ file'.id = m_rsa.id
    <3>1. CASE file' = Whole(m_rsa.id)
      BY <2>2, <3>1, KeyStoreAssumption, ContentIsFile DEF Whole
    <3>2. CASE file' \in Cut(m_rsa.id)
      <4>1. PICK n \in 0..(Fields - 1), c \in BOOLEAN : file' = Content(m_rsa.id, n, c)
        BY <3>2 DEF Cut
      <4>2. n \in Nat
        BY <4>1
      <4> QED
        BY <2>2, <4>1, <4>2, ContentIsFile
    <3> QED
      BY <1>5, <3>1, <3>2 DEF WriteAndClose
  <2> QED
    BY <1>0, <2>1, <2>2, <2>3 DEF KeyInv
<1>6. CASE Secure
  <2>1. kpc = "chmod" /\ kpc' = "ready" /\ UNCHANGED <<file, m_rsa, generated, losses>>
        /\ used' = used \cup {m_rsa.id}
    BY <1>6 DEF Secure, Goes, disk
  <2>2. file # NoFile /\ file.id = m_rsa.id /\ file.id \in Nat
        /\ Cardinality(used \cup {m_rsa.id}) <= 1 + losses
    BY <2>1 DEF KeyInv
  <2>3. used' \cup {file'.id} = used \cup {m_rsa.id} /\ IsFiniteSet(used')
    BY <1>0, <2>1, <2>2, OneMore
  <2> QED
    BY <1>0, <2>1, <2>2, <2>3 DEF KeyInv
<1>7. CASE SecureFails
  <2>1. kpc = "chmod" /\ kpc' = "down" /\ file' = NoFile /\ UNCHANGED <<generated, used, losses>>
    BY <1>7 DEF SecureFails, Goes, history
  <2> QED
    BY <2>1 DEF KeyInv
<1>8. CASE Load
  <2>1. kpc = "load" /\ kpc' = "ready" /\ UNCHANGED <<file, generated, losses>>
        /\ used' = used \cup {file.id}
    BY <1>8 DEF Load, Goes, disk
  <2>2. IsFiniteSet(used') /\ used' \cup {file.id} = used'
    BY <1>0, <2>1, OneMore
  <2>3. file # NoFile => Cardinality(used') <= 1 + losses
    BY <2>1 DEF KeyInv
  <2> QED
    BY <1>0, <2>1, <2>2, <2>3 DEF KeyInv
<1> QED
  BY <1>1, <1>2, <1>3, <1>4, <1>5, <1>6, <1>7, <1>8 DEF InitAuth

\* A power failure keeps KeyInv: a file it takes is one loss more.
LEMMA KeyInvPowerFails ==
  ASSUME KeyInv, PowerFails
  PROVE  KeyInv'
<1>1. /\ file # NoFile /\ losses' = losses + 1 /\ kpc' = "down"
      /\ file' \in {NoFile} \cup Cut(file.id) /\ UNCHANGED <<generated, used>>
  BY DEF PowerFails
<1>2. /\ IsFiniteSet(used) /\ losses \in Nat /\ generated \in Nat /\ file.id \in Nat
      /\ Cardinality(used \cup {file.id}) <= 1 + losses
  BY <1>1 DEF KeyInv
<1>3. /\ Cardinality(used) \in Nat /\ Cardinality(used \cup {file.id}) \in Nat
      /\ Cardinality(used) <= Cardinality(used \cup {file.id})
  BY <1>2, OneMore
<1>4. CASE file' = NoFile
  BY <1>1, <1>2, <1>3, <1>4 DEF KeyInv
<1>5. CASE file' \in Cut(file.id)
  <2>1. PICK n \in 0..(Fields - 1), c \in BOOLEAN : file' = Content(file.id, n, c)
    BY <1>5 DEF Cut
  <2>2. n \in Nat
    BY <2>1
  <2>3. file' # NoFile /\ file'.id = file.id
    BY <1>2, <2>1, <2>2, ContentIsFile
  <2>4. Cardinality(used' \cup {file'.id}) <= 1 + losses'
    BY <1>1, <1>2, <1>3, <2>3
  <2> QED
    BY <1>1, <1>2, <2>3, <2>4 DEF KeyInv
<1> QED
  BY <1>1, <1>4, <1>5

\* A power failure that leaves the file, and a kill, keep KeyInv.
LEMMA KeyInvStartupStep ==
  ASSUME KeyInv, [StartupNext]_startupVars
  PROVE  KeyInv'
<1>1. CASE UNCHANGED vars
  BY <1>1 DEF vars, disk, process, history, KeyInv
<1>2. CASE InitAuthSteps
  BY <1>2, KeyInvInitAuth DEF InitAuthSteps
<1>3. CASE Initialized
  BY <1>3, KeyInvInitAuth DEF Initialized
<1>4. CASE Killed
  BY <1>1, <1>4, KeyInvInitAuth DEF Killed
<1>5. CASE PowerCut
  <2>1. CASE PowerFails
    BY <2>1, KeyInvPowerFails
  <2>2. CASE kpc' = "down" /\ UNCHANGED <<file, history>>
    BY <2>2, KeyInvKept DEF history
  <2> QED
    BY <1>5, <2>1, <2>2 DEF PowerCut
<1> QED
  BY <1>1, <1>2, <1>3, <1>4, <1>5
     DEF StartupNext, Initialize, Launch, OpenExe, OpenExeFails, WriteExe, WriteExeShort,
         MakeExecutable, MakeExecutableFails, ChildStarts, ChildEnds, Upgrade, SyncExe, startupVars

\* The server sees one client, but for the keys that power failures took: the
\* runs that get past InitAuth (CMessageBuilder.cc:110) all have the key in the
\* file, or make the one that the next ones will find.
THEOREM OneIdentityCorrect == StartupSpec => []OneIdentity
<1>1. StartupInit => KeyInv
  BY KeyInvInit DEF StartupInit
<1>2. KeyInv /\ [StartupNext]_startupVars => KeyInv'
  BY KeyInvStartupStep
<1>3. KeyInv => OneIdentity
  <2> SUFFICES ASSUME KeyInv PROVE Cardinality(used) <= 1 + losses
    BY DEF OneIdentity
  <2>1. IsFiniteSet(used) /\ losses \in Nat
    BY DEF KeyInv
  <2>2. Cardinality(used) \in Nat
    BY <2>1, FS_CardinalityType
  <2>3. CASE file = NoFile
    BY <2>1, <2>2, <2>3 DEF KeyInv
  <2>4. CASE file # NoFile
    <3>1. /\ Cardinality(used \cup {file.id}) \in Nat
          /\ Cardinality(used) <= Cardinality(used \cup {file.id})
      BY <2>1, OneMore
    <3>2. Cardinality(used \cup {file.id}) <= 1 + losses
      BY <2>4 DEF KeyInv
    <3> QED
      BY <2>1, <2>2, <3>1, <3>2
  <2> QED
    BY <2>3, <2>4
<1> QED
  BY <1>1, <1>2, <1>3, PTL DEF StartupSpec

\* Every key in memory, in the file and used so far is one of those generated.
KeyTypes ==
  /\ TypeOK
  /\ file # NoFile => file.id \in 1..generated
  /\ kpc \in {"open", "write", "chmod", "ready"} => m_rsa.id \in 1..generated
  /\ kpc = "load" => file # NoFile

\* A key that was generated has contents, cut off or not.
LEMMA ContentTypes ==
  ASSUME NEW id \in 1..MaxKeys
  PROVE  /\ Whole(id) \in Contents /\ Whole(id).id = id
         /\ Content(id, 0, FALSE) \in Contents /\ Content(id, 0, FALSE).id = id
         /\ \A c \in Cut(id) : c \in Contents /\ c.id = id
<1>1. Fields \in Nat
  BY KeyStoreAssumption
<1>2. \A n \in 0..Fields, c \in BOOLEAN :
        Content(id, n, c) \in Contents /\ Content(id, n, c).id = id
  BY DEF Content, Contents
<1>3. 0 \in 0..Fields /\ Fields \in 0..Fields /\ \A n \in 0..(Fields - 1) : n \in 0..Fields
  BY <1>1
<1>4. ASSUME NEW x \in Cut(id) PROVE x \in Contents /\ x.id = id
  <2>1. PICK n \in 0..(Fields - 1), c \in BOOLEAN : x = Content(id, n, c)
    BY <1>4 DEF Cut
  <2> QED
    BY <1>2, <1>3, <2>1
<1>5. Whole(id) = Content(id, Fields, FALSE)
  BY DEF Whole
<1> QED
  BY <1>2, <1>3, <1>4, <1>5

\* A step of InitAuth, and the end of the process in it, keeps the types.
LEMMA KeyTypesInitAuth ==
  ASSUME KeyTypes, InitAuth \/ Start \/ Stop \/ Sync
  PROVE  KeyTypes'
<1> USE DEF KeyTypes, TypeOK
<1>0. /\ generated \in 0..MaxKeys /\ MaxKeys \in Nat /\ losses \in 0..MaxLosses
      /\ \A id \in 1..generated : id \in 1..MaxKeys
  BY KeyStoreAssumption
<1>1. CASE Start \/ DirReady \/ LoadBegins \/ Stop
  BY <1>1 DEF Start, DirReady, LoadBegins, Stop, Goes, disk, history
<1>2. CASE Sync
  BY <1>2 DEF Sync, process, history
<1>3. CASE Generate
  <2>1. /\ kpc = "check" /\ kpc' = "open" /\ file' = file /\ file = NoFile /\ generated < MaxKeys
        /\ generated' = generated + 1 /\ m_rsa' = Whole(generated + 1)
        /\ UNCHANGED <<synced, used, losses>>
    BY <1>3 DEF Generate, Goes, disk
  <2>2. generated' \in 1..MaxKeys /\ generated' \in 1..generated' /\ used \subseteq 1..generated'
    BY <1>0, <2>1
  <2>3. m_rsa' \in Contents /\ m_rsa'.id = generated'
    BY <2>1, <2>2, ContentTypes
  <2> QED
    BY <2>1, <2>2, <2>3 DEF Contents
<1>4. CASE OpenFile
  <2>1. /\ kpc = "open" /\ kpc' = "write" /\ file' = Content(m_rsa.id, 0, FALSE) /\ synced' = FALSE
        /\ UNCHANGED <<m_rsa, generated, used, losses>>
    BY <1>4 DEF OpenFile, Goes, history
  <2>2. file' \in Contents /\ file'.id = m_rsa.id
    BY <1>0, <2>1, ContentTypes
  <2> QED
    BY <1>0, <2>1, <2>2 DEF Contents
<1>5. CASE WriteAndClose
  <2>1. /\ kpc = "write" /\ kpc' = "chmod" /\ file' \in {Whole(m_rsa.id)} \cup Cut(m_rsa.id)
        /\ synced' = FALSE /\ UNCHANGED <<m_rsa, generated, used, losses>>
    BY <1>5 DEF WriteAndClose, Goes, history
  <2>2. file' \in Contents /\ file'.id = m_rsa.id
    BY <1>0, <2>1, ContentTypes
  <2> QED
    BY <1>0, <2>1, <2>2 DEF Contents
<1>6. CASE Secure
  BY <1>0, <1>6 DEF Secure, Goes, disk
<1>7. CASE SecureFails
  BY <1>0, <1>7 DEF SecureFails, Goes, history
<1>8. CASE Load
  <2>1. /\ kpc = "load" /\ kpc' = "ready" /\ m_rsa' = file /\ used' = used \cup {file.id}
        /\ UNCHANGED <<file, synced, generated, losses>>
    BY <1>8 DEF Load, Goes, disk
  <2> QED
    BY <1>0, <2>1
<1> QED
  BY <1>1, <1>2, <1>3, <1>4, <1>5, <1>6, <1>7, <1>8 DEF InitAuth

\* So does a power failure.
LEMMA KeyTypesPowerFails ==
  ASSUME KeyTypes, PowerFails
  PROVE  KeyTypes'
<1> USE DEF KeyTypes, TypeOK
<1>1. /\ file # NoFile /\ losses' = losses + 1 /\ losses < MaxLosses /\ synced' = TRUE
      /\ kpc' = "down" /\ m_rsa' = NoKey
      /\ file' \in {NoFile} \cup Cut(file.id) /\ UNCHANGED <<generated, used>>
  BY DEF PowerFails
<1>2. generated \in 0..MaxKeys /\ MaxKeys \in Nat /\ losses' \in 0..MaxLosses
  BY <1>1, KeyStoreAssumption
<1>3. file.id \in 1..generated /\ file.id \in 1..MaxKeys
  BY <1>1, <1>2
<1>4. file' = NoFile \/ (file' \in Contents /\ file'.id = file.id)
  BY <1>1, <1>3, ContentTypes
<1> QED
  BY <1>1, <1>2, <1>3, <1>4

\* The variables of the key store keep their types, so that every key a run has
\* got past InitAuth with (CMessageBuilder.cc:110) is one that was generated.
THEOREM TypeCorrect == StartupSpec => []TypeOK
<1>1. StartupInit => KeyTypes
  BY KeyStoreAssumption DEF StartupInit, Init, KeyTypes, TypeOK
<1>2. ASSUME KeyTypes, [StartupNext]_startupVars PROVE KeyTypes'
  <2>1. CASE UNCHANGED vars
    <3>1. UNCHANGED <<file, synced, kpc, m_rsa, generated, used, losses>>
      BY <2>1 DEF vars, disk, process, history
    <3> QED
      BY <1>2, <3>1 DEF KeyTypes, TypeOK
  <2>2. CASE InitAuthSteps
    BY <1>2, <2>2, KeyTypesInitAuth DEF InitAuthSteps
  <2>3. CASE Initialized
    BY <1>2, <2>3, KeyTypesInitAuth DEF Initialized
  <2>4. CASE Killed
    BY <1>2, <2>1, <2>4, KeyTypesInitAuth DEF Killed
  <2>5. CASE PowerCut
    <3>1. CASE PowerFails
      BY <1>2, <3>1, KeyTypesPowerFails
    <3>2. CASE kpc' = "down" /\ m_rsa' = NoKey /\ synced' = TRUE /\ UNCHANGED <<file, history>>
      BY <1>2, <3>2 DEF history, KeyTypes, TypeOK
    <3> QED
      BY <2>5, <3>1, <3>2 DEF PowerCut
  <2> QED
    BY <1>2, <2>1, <2>2, <2>3, <2>4, <2>5
       DEF StartupNext, Initialize, Launch, OpenExe, OpenExeFails, WriteExe, WriteExeShort,
           MakeExecutable, MakeExecutableFails, ChildStarts, ChildEnds, Upgrade, SyncExe, startupVars
<1>3. KeyTypes => TypeOK
  BY DEF KeyTypes
<1> QED
  BY <1>1, <1>2, <1>3, PTL DEF StartupSpec

-----------------------------------------------------------------------------
(* The utilities                                                           *)

Exes == [version : Nat, whole : BOOLEAN, executable : BOOLEAN]

\* What UtilitiesWhole says of one utility.
Good(n) ==
  /\ met[n] = "nothing" => bin[n] = Exe(version, TRUE, TRUE)
  /\ met[n] = "mode"    => bin[n] # Absent /\ bin[n].whole /\ bin[n].version = version
  /\ met[n] = "busy"    => bin[n] # Absent /\ bin[n].executable

BinOK ==
  /\ bin \in [Names -> Exes \cup {Absent}]
  /\ met \in [Names -> {"nothing", "busy", "error", "mode"}]
  /\ version \in Nat
  /\ at \in 0..(Len(Utilities) + 1)
  /\ dirty \subseteq Names /\ \A n \in dirty : bin[n] # Absent

\* A file that is executed was executable when its process started, and nobody
\* has opened it for writing since.
BusyOK ==
  /\ busy \subseteq Names
  /\ \A n \in busy : bin[n] # Absent /\ bin[n].executable

\* While Initialize is at a utility, no run is up and nobody executes the file
\* that is being written; what it has been through is good.
UnpackingOK ==
  at # 0 =>
    /\ kpc = "down"
    /\ at <= Len(Utilities) /\ stage # "open" =>
         /\ Current \notin busy
         /\ bin[Current] # Absent /\ bin[Current].version = version
         /\ stage = "chmod" => met[Current] = "error" \/ bin[Current].whole
    /\ \A i \in 1..(at - 1) : Good(Utilities[i])

ExeInv ==
  /\ BinOK /\ BusyOK /\ UnpackingOK
  /\ stage \in {"open", "write", "chmod"}
  /\ kpc # "down" => \A n \in Names : Good(n)

\* The utility WriteExe is at is one of them, and none of those before it.
LEMMA CurrentIsNew ==
  ASSUME at \in 1..Len(Utilities)
  PROVE  Current \in Names /\ \A i \in 1..(at - 1) : Utilities[i] \in Names \ {Current}
BY StartupAssumption DEF Current, Names

\* What a step does to the file that is being unpacked leaves those before good.
LEMMA EarlierKept ==
  ASSUME ExeInv, at \in 1..Len(Utilities),
         \A n \in Names \ {Current} : bin'[n] = bin[n] /\ met'[n] = met[n],
         version' = version
  PROVE  \A i \in 1..(at - 1) : Good(Utilities[i])'
<1> SUFFICES ASSUME NEW i \in 1..(at - 1) PROVE Good(Utilities[i])'
  OBVIOUS
<1>1. at # 0 /\ Utilities[i] \in Names \ {Current}
  BY CurrentIsNew, StartupAssumption
<1>2. Good(Utilities[i])
  BY <1>1 DEF ExeInv, UnpackingOK
<1> QED
  BY <1>1, <1>2 DEF Good

\* When WriteExe returns and the utility it was at is good, so are all before the next.
LEMMA NextIsUnpacked ==
  ASSUME ExeInv, at \in 1..Len(Utilities), Unpacked,
         \A n \in Names \ {Current} : bin'[n] = bin[n] /\ met'[n] = met[n],
         UNCHANGED <<version, kpc>>,
         met'[Current] = "nothing" => bin'[Current] = Exe(version, TRUE, TRUE),
         met'[Current] = "mode" =>
           bin'[Current] # Absent /\ bin'[Current].whole /\ bin'[Current].version = version,
         met'[Current] = "busy" => bin'[Current] # Absent /\ bin'[Current].executable
  PROVE  UnpackingOK' /\ at' \in 0..(Len(Utilities) + 1) /\ stage' = "open" /\ kpc' = "down"
<1>1. \A i \in 1..(at - 1) : Good(Utilities[i])'
  BY EarlierKept
<1>2. at' = at + 1 /\ stage' = "open"
  BY DEF Unpacked
<1>3. at # 0 /\ kpc = "down"
  BY StartupAssumption DEF ExeInv, UnpackingOK
<1>4. ASSUME NEW i \in 1..at
      PROVE  Good(Utilities[i])'
  <2>1. CASE i = at
    BY <2>1 DEF Good, Current
  <2>2. CASE i # at
    BY <1>1, <2>2, StartupAssumption
  <2> QED
    BY <2>1, <2>2
<1>5. \A i \in 1..(at' - 1) : Good(Utilities[i])'
  BY <1>2, <1>4, StartupAssumption
<1> QED
  BY <1>2, <1>3, <1>5, StartupAssumption DEF UnpackingOK

\* The steps of Initialize keep ExeInv.
LEMMA ExeInvInitialize ==
  ASSUME ExeInv, Initialize
  PROVE  ExeInv'
<1> USE StartupAssumption
<1>0. /\ BinOK /\ BusyOK /\ UnpackingOK
      /\ stage \in {"open", "write", "chmod"}
      /\ Len(Utilities) \in Nat /\ at \in 0..(Len(Utilities) + 1)
  BY DEF ExeInv, BinOK
<1>1. CASE Launch
  <2>1. /\ kpc = "down" /\ kpc' = "down" /\ at' = 1 /\ stage' = "open"
        /\ met' = [n \in Names |-> "nothing"] /\ UNCHANGED <<bin, dirty, busy, version>>
    BY <1>1 DEF Launch, vars, process
  <2>2. BinOK' /\ BusyOK'
    BY <1>0, <2>1 DEF BinOK, BusyOK
  <2> QED
    BY <2>1, <2>2 DEF ExeInv, UnpackingOK
<1>2. CASE OpenExe
  <2>1. /\ at \in 1..Len(Utilities) /\ Current \notin busy /\ stage' = "write"
        /\ bin' = [bin EXCEPT ![Current] = Exe(version, FALSE, Executable(Current))]
        /\ dirty' = dirty \cup {Current} /\ UNCHANGED <<at, met, busy, version, kpc>>
    BY <1>2 DEF OpenExe, WriteExeAt, vars, process
  <2>2. Current \in Names /\ Current' = Current
    BY <2>1, CurrentIsNew DEF Current
  <2>3. Executable(Current) \in BOOLEAN
    BY <1>0, <2>2 DEF Executable, BinOK, Exes
  <2>4. Exe(version, FALSE, Executable(Current)) \in Exes /\ Exe(version, FALSE, Executable(Current)).version = version
    BY <1>0, <2>3 DEF Exe, Exes, BinOK
  <2>5. /\ bin' \in [Names -> Exes \cup {Absent}]
        /\ bin'[Current] \in Exes /\ bin'[Current].version = version
        /\ \A n \in Names \ {Current} : bin'[n] = bin[n]
    BY <1>0, <2>1, <2>2, <2>4 DEF BinOK
  <2>6. bin'[Current] # Absent
    BY <2>5 DEF Exes
  <2>7. BinOK'
    BY <1>0, <2>1, <2>2, <2>5, <2>6 DEF BinOK
  <2>8. BusyOK'
    BY <1>0, <2>1, <2>5 DEF BusyOK
  <2>9. UnpackingOK'
    <3>1. \A i \in 1..(at - 1) : Good(Utilities[i])'
      BY <2>1, <2>5, EarlierKept
    <3> QED
      BY <1>0, <2>1, <2>2, <2>5, <2>6, <3>1 DEF UnpackingOK
  <2>10. kpc' = "down"
    BY <1>0, <2>1 DEF UnpackingOK
  <2> QED
    BY <2>1, <2>7, <2>8, <2>9, <2>10 DEF ExeInv
<1>3. CASE OpenExeFails
  <2>1. /\ at \in 1..Len(Utilities) /\ Unpacked
        /\ met' = [met EXCEPT ![Current] = IF Current \in busy THEN "busy" ELSE "error"]
        /\ UNCHANGED <<bin, dirty, busy, version, kpc>>
    BY <1>3 DEF OpenExeFails, WriteExeAt, vars, process
  <2>2. Current \in Names
    BY <2>1, CurrentIsNew
  <2>3. /\ met' \in [Names -> {"nothing", "busy", "error", "mode"}]
        /\ met'[Current] = IF Current \in busy THEN "busy" ELSE "error"
        /\ \A n \in Names \ {Current} : met'[n] = met[n]
    BY <1>0, <2>1, <2>2 DEF BinOK
  <2>4. UnpackingOK' /\ at' \in 0..(Len(Utilities) + 1) /\ stage' = "open" /\ kpc' = "down"
    BY <1>0, <2>1, <2>3, NextIsUnpacked DEF BusyOK
  <2>5. BinOK' /\ BusyOK'
    BY <1>0, <2>1, <2>3, <2>4 DEF BinOK, BusyOK
  <2> QED
    BY <2>4, <2>5 DEF ExeInv
<1>4. CASE WriteExe
  <2>1. /\ at \in 1..Len(Utilities) /\ stage = "write" /\ stage' = "chmod"
        /\ bin' = [bin EXCEPT ![Current].whole = TRUE]
        /\ UNCHANGED <<dirty, at, met, busy, version, kpc>>
    BY <1>4 DEF WriteExe, WriteExeAt, vars, process
  <2>2. Current \in Names /\ Current' = Current
    BY <2>1, CurrentIsNew DEF Current
  <2>3. Current \notin busy /\ bin[Current] \in Exes /\ bin[Current].version = version
    BY <1>0, <2>1, <2>2 DEF BinOK, UnpackingOK
  <2>4. /\ bin' \in [Names -> Exes \cup {Absent}]
        /\ bin'[Current] \in Exes /\ bin'[Current].version = version /\ bin'[Current].whole
        /\ \A n \in Names \ {Current} : bin'[n] = bin[n]
    BY <1>0, <2>1, <2>2, <2>3 DEF BinOK, Exes
  <2>5. bin'[Current] # Absent
    BY <2>4 DEF Exes
  <2>6. BinOK' /\ BusyOK'
    BY <1>0, <2>1, <2>2, <2>3, <2>4, <2>5 DEF BinOK, BusyOK
  <2>7. UnpackingOK'
    <3>1. \A i \in 1..(at - 1) : Good(Utilities[i])'
      BY <2>1, <2>4, EarlierKept
    <3> QED
      BY <1>0, <2>1, <2>2, <2>3, <2>4, <2>5, <3>1 DEF UnpackingOK
  <2> QED
    BY <1>0, <2>1, <2>6, <2>7 DEF ExeInv, UnpackingOK
<1>5. CASE WriteExeShort
  <2>1. /\ at \in 1..Len(Utilities) /\ stage = "write"
        /\ met' = [met EXCEPT ![Current] = "error"]
        /\ UNCHANGED <<bin, dirty, busy, version, kpc>>
    BY <1>5 DEF WriteExeShort, WriteExeAt, vars, process
  <2>2. Current \in Names
    BY <2>1, CurrentIsNew
  <2>3. /\ met' \in [Names -> {"nothing", "busy", "error", "mode"}] /\ met'[Current] = "error"
        /\ \A n \in Names \ {Current} : met'[n] = met[n]
    BY <1>0, <2>1, <2>2 DEF BinOK
  <2>4. CASE Unpacked
    <3>1. UnpackingOK' /\ at' \in 0..(Len(Utilities) + 1) /\ stage' = "open" /\ kpc' = "down"
      BY <2>1, <2>3, <2>4, NextIsUnpacked
    <3> QED
      BY <1>0, <2>1, <2>3, <3>1 DEF ExeInv, BinOK, BusyOK
  <2>5. CASE stage' = "chmod" /\ at' = at
    <3>1. \A i \in 1..(at - 1) : Good(Utilities[i])'
      BY <2>1, <2>3, EarlierKept
    <3>2. Current' = Current
      BY <2>5 DEF Current
    <3>3. UnpackingOK'
      BY <1>0, <2>1, <2>3, <2>5, <3>1, <3>2 DEF UnpackingOK
    <3>4. kpc' = "down"
      BY <1>0, <2>1 DEF UnpackingOK
    <3> QED
      BY <1>0, <2>1, <2>3, <2>5, <3>3, <3>4 DEF ExeInv, BinOK, BusyOK
  <2> QED
    BY <1>5, <2>4, <2>5 DEF WriteExeShort
<1>6. CASE MakeExecutable
  <2>1. /\ at \in 1..Len(Utilities) /\ stage = "chmod" /\ Unpacked
        /\ bin' = [bin EXCEPT ![Current].executable = TRUE]
        /\ UNCHANGED <<dirty, met, busy, version, kpc>>
    BY <1>6 DEF MakeExecutable, WriteExeAt, vars, process
  <2>2. Current \in Names
    BY <2>1, CurrentIsNew
  <2>3. /\ Current \notin busy /\ bin[Current] \in Exes /\ bin[Current].version = version
        /\ met[Current] = "error" \/ bin[Current].whole
    BY <1>0, <2>1, <2>2 DEF BinOK, UnpackingOK
  <2>4. /\ bin' \in [Names -> Exes \cup {Absent}]
        /\ bin'[Current] \in Exes /\ bin'[Current].version = version /\ bin'[Current].executable
        /\ bin'[Current].whole = bin[Current].whole
        /\ \A n \in Names \ {Current} : bin'[n] = bin[n]
    BY <1>0, <2>1, <2>2, <2>3 DEF BinOK, Exes
  <2>5. bin'[Current] # Absent /\ (met'[Current] # "error" => bin'[Current] = Exe(version, TRUE, TRUE))
    BY <2>1, <2>3, <2>4 DEF Exes, Exe
  <2>6. UnpackingOK' /\ at' \in 0..(Len(Utilities) + 1) /\ stage' = "open" /\ kpc' = "down"
    BY <2>1, <2>3, <2>4, <2>5, NextIsUnpacked
  <2>7. BinOK' /\ BusyOK'
    BY <1>0, <2>1, <2>2, <2>3, <2>4, <2>5, <2>6 DEF BinOK, BusyOK
  <2> QED
    BY <2>6, <2>7 DEF ExeInv
<1>7. CASE MakeExecutableFails
  <2>1. /\ at \in 1..Len(Utilities) /\ stage = "chmod" /\ Unpacked
        /\ met' = [met EXCEPT ![Current] = IF @ = "error" THEN "error" ELSE "mode"]
        /\ UNCHANGED <<bin, dirty, busy, version, kpc>>
    BY <1>7 DEF MakeExecutableFails, WriteExeAt, vars, process
  <2>2. Current \in Names
    BY <2>1, CurrentIsNew
  <2>3. /\ met' \in [Names -> {"nothing", "busy", "error", "mode"}]
        /\ met'[Current] = IF met[Current] = "error" THEN "error" ELSE "mode"
        /\ \A n \in Names \ {Current} : met'[n] = met[n]
    BY <1>0, <2>1, <2>2 DEF BinOK
  <2>4. /\ bin[Current] # Absent /\ bin[Current].version = version
        /\ met[Current] = "error" \/ bin[Current].whole
    BY <1>0, <2>1 DEF UnpackingOK
  <2>5. UnpackingOK' /\ at' \in 0..(Len(Utilities) + 1) /\ stage' = "open" /\ kpc' = "down"
    BY <2>1, <2>3, <2>4, NextIsUnpacked
  <2>6. BinOK' /\ BusyOK'
    BY <1>0, <2>1, <2>3, <2>5 DEF BinOK, BusyOK
  <2> QED
    BY <2>5, <2>6 DEF ExeInv
<1>8. CASE Initialized
  <2>1. /\ at = Len(Utilities) + 1 /\ at' = 0 /\ UNCHANGED <<bin, dirty, stage, met, busy, version>>
    BY <1>8 DEF Initialized
  <2>2. \A n \in Names : Good(n)
    BY <1>0, <2>1 DEF UnpackingOK, Names
  <2>3. \A n \in Names : Good(n)'
    BY <2>1, <2>2 DEF Good
  <2> QED
    BY <1>0, <2>1, <2>3 DEF ExeInv, BinOK, BusyOK, UnpackingOK
<1> QED
  BY <1>1, <1>2, <1>3, <1>4, <1>5, <1>6, <1>7, <1>8 DEF Initialize

\* So do the steps of InitAuth, of the children and of the world.
LEMMA ExeInvStep ==
  ASSUME ExeInv, [StartupNext]_startupVars
  PROVE  ExeInv'
<1> USE StartupAssumption
<1>0. /\ BinOK /\ BusyOK /\ UnpackingOK
      /\ stage \in {"open", "write", "chmod"}
      /\ kpc # "down" => at = 0
  BY DEF ExeInv, BinOK, UnpackingOK
<1>1. CASE Initialize
  BY <1>1, ExeInvInitialize
<1>2. CASE UNCHANGED <<bin, dirty, unpacking, busy, version>> /\ (kpc = "down" => kpc' = "down")
  <2>1. UNCHANGED <<bin, dirty, at, stage, met, busy, version>>
    BY <1>2 DEF unpacking
  <2>2. kpc' # "down" => kpc # "down" /\ \A n \in Names : Good(n)
    BY <1>2 DEF ExeInv
  <2>3. kpc' # "down" => \A n \in Names : Good(n)'
    BY <2>1, <2>2 DEF Good
  <2>4. BinOK' /\ BusyOK'
    BY <1>0, <2>1 DEF BinOK, BusyOK
  <2>5. UnpackingOK'
    BY <1>0, <1>2, <2>1 DEF UnpackingOK, Good, Current
  <2> QED
    BY <1>0, <2>1, <2>3, <2>4, <2>5 DEF ExeInv
<1>3. CASE InitAuthSteps
  <2>1. kpc = "down" => kpc' = "down"
    BY <1>3 DEF InitAuthSteps, InitAuth, DirReady, Generate, OpenFile, WriteAndClose, Secure,
                SecureFails, LoadBegins, Load, Sync, Goes, process
  <2> QED
    BY <1>2, <1>3, <2>1 DEF InitAuthSteps
<1>4. CASE UNCHANGED startupVars
  BY <1>2, <1>4 DEF startupVars, vars, process
<1>5. CASE ChildStarts
  <2>1. PICK m \in Names : /\ bin[m] # Absent /\ bin[m].executable
                          /\ busy' = busy \cup {m}
    BY <1>5 DEF ChildStarts, Executable
  <2>2. kpc = "ready" /\ UNCHANGED <<bin, dirty, at, stage, met, version, kpc>>
    BY <1>5 DEF ChildStarts, vars, process, unpacking
  <2>3. at = 0
    BY <1>0, <2>2
  <2>4. \A n \in Names : Good(n)'
    BY <2>2 DEF ExeInv, Good
  <2> QED
    BY <1>0, <2>1, <2>2, <2>3, <2>4 DEF ExeInv, BinOK, BusyOK, UnpackingOK
<1>6. CASE ChildEnds
  <2>1. busy' \subseteq busy /\ UNCHANGED <<bin, dirty, at, stage, met, version, kpc>>
    BY <1>6 DEF ChildEnds, vars, process, unpacking
  <2>2. BinOK' /\ BusyOK'
    BY <1>0, <2>1 DEF BinOK, BusyOK
  <2>3. UnpackingOK'
    BY <1>0, <2>1 DEF UnpackingOK, Good, Current
  <2>4. kpc' # "down" => \A n \in Names : Good(n)'
    BY <2>1 DEF ExeInv, Good
  <2> QED
    BY <1>0, <2>1, <2>2, <2>3, <2>4 DEF ExeInv
<1>7. CASE Killed
  <2>1. kpc' = "down" /\ at' = 0 /\ UNCHANGED <<bin, dirty, stage, met, busy, version>>
    BY <1>0, <1>7 DEF Killed, Stop, vars, process, UnpackingOK
  <2> QED
    BY <1>0, <2>1 DEF ExeInv, BinOK, BusyOK, UnpackingOK
<1>8. CASE Upgrade
  <2>1. /\ kpc = "down" /\ kpc' = "down" /\ at = 0 /\ at' = 0 /\ version' = version + 1
        /\ UNCHANGED <<bin, dirty, stage, met, busy>>
    BY <1>8 DEF Upgrade, vars, process, unpacking
  <2> QED
    BY <1>0, <2>1 DEF ExeInv, BinOK, BusyOK, UnpackingOK
<1>9. CASE SyncExe
  <2>1. dirty' \subseteq dirty /\ UNCHANGED <<bin, at, stage, met, busy, version, kpc>>
    BY <1>9 DEF SyncExe, vars, process, unpacking
  <2>2. BinOK' /\ BusyOK'
    BY <1>0, <2>1 DEF BinOK, BusyOK
  <2>3. UnpackingOK'
    BY <1>0, <2>1 DEF UnpackingOK, Good, Current
  <2>4. kpc' # "down" => \A n \in Names : Good(n)'
    BY <2>1 DEF ExeInv, Good
  <2> QED
    BY <1>0, <2>1, <2>2, <2>3, <2>4 DEF ExeInv
<1>10. CASE PowerCut
  <2>1. kpc' = "down" /\ at' = 0 /\ dirty' = {} /\ busy' = {} /\ UNCHANGED <<stage, met, version>>
    BY <1>10 DEF PowerCut, PowerFails
  <2>2. PICK lost \in SUBSET dirty :
          bin' = [n \in Names |-> IF n \in lost THEN [bin[n] EXCEPT !.whole = FALSE] ELSE bin[n]]
    BY <1>10 DEF PowerCut
  <2>3. \A n \in lost : n \in Names /\ bin[n] \in Exes
    BY <1>0 DEF BinOK
  <2>4. \A n \in lost : [bin[n] EXCEPT !.whole = FALSE] \in Exes
    BY <2>3 DEF Exes
  <2>5. \A n \in Names : bin'[n] \in Exes \cup {Absent}
    BY <1>0, <2>2, <2>4 DEF BinOK
  <2>6. bin' \in [Names -> Exes \cup {Absent}]
    BY <2>2, <2>5
  <2> QED
    BY <1>0, <2>1, <2>6 DEF ExeInv, BinOK, BusyOK, UnpackingOK
<1> QED
  BY <1>1, <1>3, <1>4, <1>5, <1>6, <1>7, <1>8, <1>9, <1>10 DEF StartupNext

\* A run that is up has every utility whole, executable and of its own version
\* if WriteExe (CCommon.cc:168) met nothing, whole and of its own version if only
\* its chmod failed, and executable if an earlier run's process executes it: no
\* kill, short write or power failure of an earlier run shows.
THEOREM UtilitiesWholeCorrect == StartupSpec => []UtilitiesWhole
<1>1. StartupInit => ExeInv
  <2> SUFFICES ASSUME StartupInit PROVE ExeInv
    OBVIOUS
  <2>1. kpc = "down" /\ at = 0
    BY DEF StartupInit, Init
  <2> QED
    BY <2>1, StartupAssumption DEF StartupInit, ExeInv, BinOK, BusyOK, UnpackingOK
<1>2. ExeInv /\ [StartupNext]_startupVars => ExeInv'
  BY ExeInvStep
<1>3. ExeInv => UtilitiesWhole
  BY DEF ExeInv, Good, Executable, UtilitiesWhole
<1> QED
  BY <1>1, <1>2, <1>3, PTL DEF StartupSpec
=============================================================================
